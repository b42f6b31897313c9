------------------------------- MODULE Episode -------------------------------
(***************************************************************************)
(* EpisodeController.run: the pipeline of one episode from its run         *)
(* directory to the two ledgers, run by several processes at once and      *)
(* again after it failed.  The artifact store and the ledgers appear by    *)
(* what ArtifactStore, LedgerDb and LedgerChain say of them: artifacts are *)
(* never removed, a blob that a crash cut off is never repaired, and an    *)
(* append either extends the ledger or raises.                             *)
(***************************************************************************)
EXTENDS Naturals, Sequences, FiniteSets

CONSTANTS Processes,    \* processes that run episodes
          Tasks,        \* tasks with their seed: what _episode_id hashes
          BvpsTasks,    \* those of kind bvps
          Unsolvable,   \* those whose solving may raise
          Unjudgeable,  \* those whose verification may raise
          Verdicts,     \* sets of lanes that fail together
          Sinks,        \* values of SOLUTION_SINK: "disk", "off", "tmpfs"
          Repairs,      \* whether EIDOLON_BVPS_AUTOREPAIR = "1" may be set
          NoTask,
          MaxEpisodes,  \* bound on the episodes begun
          MaxFaults     \* bound on crashes and failed calls

Lanes == {"recompute", "translation", "consequence", "anchors"}

ASSUME TaskAssumption    == BvpsTasks \subseteq Tasks /\ NoTask \notin Tasks
ASSUME RaisesAssumption  == Unsolvable \subseteq Tasks /\ Unjudgeable \subseteq Tasks
ASSUME VerdictAssumption == Verdicts \subseteq SUBSET Lanes
ASSUME FlagAssumption    == Sinks \subseteq {"disk", "off", "tmpfs"} /\ Repairs \subseteq BOOLEAN
ASSUME BoundAssumption   == MaxEpisodes \in Nat /\ MaxFaults \in Nat
ASSUME ProcessAssumption == IsFiniteSet(Processes)

VARIABLES sink,         \* SOLUTION_SINK of the environment
          repair,       \* EIDOLON_BVPS_AUTOREPAIR of the environment
          pc,           \* where each process is in run
          ucr,          \* the UCR each process builds
          dir,          \* its run_dir
          dirs,         \* run directories that exist
          ucrFile,      \* ucr.json of the run directories
          witnessFile,  \* witness.json
          stored,       \* artifacts in the store: their blobs exist
          torn,         \* those of them whose blob is not whole
          db,           \* the events of the SQLite ledger
          chain,        \* the events of the JSON-lines ledger
          episodes,     \* history: episodes begun, which numbers them
          faults,       \* history: number of faults
          overlap       \* history: two episodes have run at the same time

environment == <<sink, repair>>
files       == <<dirs, ucrFile, witnessFile>>
store       == <<stored, torn>>
ledgers     == <<db, chain>>
history     == <<episodes, faults, overlap>>
vars == <<environment, pc, ucr, dir, files, store, ledgers, history>>

-----------------------------------------------------------------------------
Serials == 1..MaxEpisodes

\* A UCR holds its own time stamps and costs: no two of them are equal.
NoUcr == [serial |-> 0, task |-> NoTask, failed |-> {}, action |-> "refuse"]

Absent     == [state |-> "absent", serial |-> 0]
Torn       == [state |-> "torn", serial |-> 0]
Whole(n)   == [state |-> "whole", serial |-> n]

\* runs/<episode_id> and runs/<episode_id>-r<n>
RunDirs == [task : Tasks, n : Nat]

\* The artifacts of an episode; the solution is a function of its task.
Solution(t)   == [type |-> "solution", of |-> t, ucr |-> NoUcr]
Artifact(y, u) == [type |-> y, of |-> u.task, ucr |-> u]

\* An episode returns, its own code raises, or a fault stops it.
Resting == {"idle", "done", "raised", "failed"}

\* Fault: one required lane that passes is enough.
DecideAny(failed) == IF failed # Lanes THEN "answer" ELSE "refuse"

\* _decide: every lane is required unless a ModeConfig says otherwise, which
\* nothing in the program does.
Decide(failed) == IF failed = {} THEN "answer" ELSE "refuse"

Transition(p, from, to) ==
    /\ pc[p] = from
    /\ pc' = [pc EXCEPT ![p] = to]

-----------------------------------------------------------------------------
Init ==
    /\ sink \in Sinks
    /\ repair \in Repairs
    /\ pc = [p \in Processes |-> "idle"]
    /\ ucr = [p \in Processes |-> NoUcr]
    /\ dir = [p \in Processes |-> [task |-> NoTask, n |-> 0]]
    /\ dirs = {}
    /\ ucrFile = <<>>
    /\ witnessFile = <<>>
    /\ stored = {}
    /\ torn = {}
    /\ db = <<>>
    /\ chain = <<>>
    /\ episodes = 0
    /\ faults = 0
    /\ overlap = FALSE

\* run is called with a task; a process runs one episode after the other.
Begin(p, t) ==
    /\ pc[p] \in Resting
    /\ pc' = [pc EXCEPT ![p] = "name"]
    /\ episodes < MaxEpisodes
    /\ episodes' = episodes + 1
    /\ ucr' = [ucr EXCEPT ![p] = [NoUcr EXCEPT !.serial = episodes + 1, !.task = t]]
    /\ dir' = [dir EXCEPT ![p] = [task |-> t, n |-> 0]]
    /\ overlap' = (overlap \/ \E q \in Processes \ {p} : pc[q] \notin Resting)
    /\ UNCHANGED <<environment, files, store, ledgers, faults>>

\* Fault: the loop tries the same name again.
TrySameName(p) ==
    /\ pc[p] = "name"
    /\ dir[p] \in dirs
    /\ UNCHANGED vars

\* _run_dir: candidate.exists(), so the next suffix is tried ...
TryNextName(p) ==
    /\ pc[p] = "name"
    /\ dir[p] \in dirs
    /\ dir' = [dir EXCEPT ![p].n = @ + 1]
    /\ UNCHANGED <<environment, pc, ucr, files, store, ledgers, history>>

\* Fault: a directory that exists is used again.
TakeAnyName(p) ==
    /\ Transition(p, "name", "mkdir")
    /\ UNCHANGED <<environment, ucr, dir, files, store, ledgers, history>>

\* ... or it does not exist ...
TakeName(p) ==
    /\ dir[p] \notin dirs
    /\ Transition(p, "name", "mkdir")
    /\ UNCHANGED <<environment, ucr, dir, files, store, ledgers, history>>

\* The files of the directories once d is made; what is there stays.
With(file, d) == [e \in dirs \cup {d} |-> IF e \in dirs THEN file[e] ELSE Absent]

\* ... and is made, by this process or by another in between: exist_ok=True.
MakeDir(p) ==
    /\ Transition(p, "mkdir", "solve")
    /\ dirs' = dirs \cup {dir[p]}
    /\ ucrFile' = With(ucrFile, dir[p])
    /\ witnessFile' = With(witnessFile, dir[p])
    /\ UNCHANGED <<environment, ucr, dir, store, ledgers, history>>

\* Fault: the solution is named and not put, as in the other sinks.
NameSolution(p) ==
    /\ Transition(p, "solve", "storing")
    /\ sink = "disk"
    /\ UNCHANGED <<environment, ucr, dir, files, store, ledgers, history>>

\* Interpretation and solution; put_bytes opens the blob of a new solution.
OpenSolution(p) ==
    LET solution == Solution(ucr[p].task)
    IN  /\ Transition(p, "solve", "storing")
        /\ sink = "disk"
        /\ solution \notin stored
        /\ stored' = stored \cup {solution}
        /\ torn' = torn \cup {solution}
        /\ UNCHANGED <<environment, ucr, dir, files, ledgers, history>>

FillSolution(p) ==
    /\ Transition(p, "storing", "verify")
    /\ torn' = torn \ {Solution(ucr[p].task)}
    /\ UNCHANGED <<environment, ucr, dir, files, stored, ledgers, history>>

\* A blob that exists is kept, whole or not; other sinks put nothing.
KeepSolution(p) ==
    /\ Transition(p, "solve", "verify")
    /\ sink = "disk" => Solution(ucr[p].task) \in stored
    /\ UNCHANGED <<environment, ucr, dir, files, store, ledgers, history>>

\* The search finds no program within its budget, a macro does not expand:
\* nothing in run catches it.
SolveRaises(p) ==
    /\ ucr[p].task \in Unsolvable
    /\ Transition(p, "solve", "raised")
    /\ UNCHANGED <<environment, ucr, dir, files, store, ledgers, history>>

\* run_lanes: each lane stores its evidence and gives its verdict.
Verify(p, failed) ==
    /\ Transition(p, "verify", "repair")
    /\ ucr' = [ucr EXCEPT ![p].failed = failed]
    /\ UNCHANGED <<environment, dir, files, store, ledgers, history>>

\* A lane raises: the oracle is evaluated outside the try.
VerifyRaises(p) ==
    /\ ucr[p].task \in Unjudgeable
    /\ Transition(p, "verify", "raised")
    /\ UNCHANGED <<environment, ucr, dir, files, store, ledgers, history>>

\* What _maybe_bvps_autorepair asks for before it synthesizes again.
RepairDue(p) == repair /\ ucr[p].task \in BvpsTasks /\ "consequence" \in ucr[p].failed

\* It returns early: nothing to repair, or no counterexample with an answer.
SkipRepair(p) ==
    /\ Transition(p, "repair", "decide")
    /\ UNCHANGED <<environment, ucr, dir, files, store, ledgers, history>>

\* run_translation and run_consequence return pairs, _append_attempt asks them
\* for .evidence: AttributeError ends the episode.
RepairRaises(p) ==
    /\ RepairDue(p)
    /\ Transition(p, "repair", "raised")
    /\ UNCHANGED <<environment, ucr, dir, files, store, ledgers, history>>

\* _decide, the capsule, the witness packet's artifact, and runs/../artifacts.
DecideAndPack(p) ==
    /\ Transition(p, "decide", "putucr")
    /\ ucr' = [ucr EXCEPT ![p].action = Decide(ucr[p].failed)]
    /\ stored' = stored \cup {Artifact("capsule", ucr'[p]), Artifact("witness_packet", ucr'[p])}
    /\ UNCHANGED <<environment, dir, files, torn, ledgers, history>>

\* The UCR's artifact; the manifest is flushed.
PutUcr(p) ==
    /\ Transition(p, "putucr", "ucrfile")
    /\ stored' = stored \cup {Artifact("ucr", ucr[p])}
    /\ UNCHANGED <<environment, ucr, dir, files, torn, ledgers, history>>

\* Fault: ucr.json is left to be copied later.
SkipUcr(p) ==
    /\ Transition(p, "ucrfile", "witnessfile")
    /\ UNCHANGED <<environment, ucr, dir, files, store, ledgers, history>>

WriteUcr(p) ==
    /\ Transition(p, "ucrfile", "witnessfile")
    /\ ucrFile' = [ucrFile EXCEPT ![dir[p]] = Whole(ucr[p].serial)]
    /\ UNCHANGED <<environment, ucr, dir, dirs, witnessFile, store, ledgers, history>>

WriteWitness(p) ==
    /\ Transition(p, "witnessfile", "db")
    /\ witnessFile' = [witnessFile EXCEPT ![dir[p]] = Whole(ucr[p].serial)]
    /\ UNCHANGED <<environment, ucr, dir, dirs, ucrFile, store, ledgers, history>>

Event(p) == [ucr |-> ucr[p], dir |-> dir[p]]

\* Ledger.append_event
AppendDb(p) ==
    /\ Transition(p, "db", "chain")
    /\ db' = Append(db, Event(p))
    /\ UNCHANGED <<environment, ucr, dir, files, store, chain, history>>

\* Fault: the second ledger takes the newest event of the first.
AppendChainLatest(p) ==
    /\ Transition(p, "chain", "done")
    /\ chain' = Append(chain, db[Len(db)])
    /\ UNCHANGED <<environment, ucr, dir, files, store, db, history>>

\* ledger_chain.append_event; run returns.
AppendChain(p) ==
    /\ Transition(p, "chain", "done")
    /\ chain' = Append(chain, Event(p))
    /\ UNCHANGED <<environment, ucr, dir, files, store, db, history>>

\* A file may be emptied, and not filled, by the write that a fault cuts off.
Tear(file, p) == [file EXCEPT ![dir[p]] = Torn]

\* The process dies, or a call fails on its surroundings: a service, a full disk,
\* a ledger whose insert lost a race or which is damaged.  Nothing in run
\* catches it; a solution that is being put stays torn.
Fault(p) ==
    /\ pc[p] \notin Resting
    /\ faults < MaxFaults
    /\ faults' = faults + 1
    /\ pc' = [pc EXCEPT ![p] = "failed"]
    /\ \/ UNCHANGED <<ucrFile, witnessFile>>
       \/ pc[p] = "ucrfile" /\ ucrFile' = Tear(ucrFile, p) /\ UNCHANGED witnessFile
       \/ pc[p] = "witnessfile" /\ witnessFile' = Tear(witnessFile, p) /\ UNCHANGED ucrFile
    /\ UNCHANGED <<environment, ucr, dir, dirs, store, ledgers, episodes, overlap>>

\* The steps of run that its own code takes.
Progress(p) ==
    \/ TryNextName(p) \/ TakeName(p) \/ MakeDir(p)
    \/ OpenSolution(p) \/ FillSolution(p) \/ KeepSolution(p) \/ SolveRaises(p)
    \/ (\E failed \in Verdicts : Verify(p, failed)) \/ VerifyRaises(p)
    \/ SkipRepair(p) \/ RepairRaises(p)
    \/ DecideAndPack(p) \/ PutUcr(p) \/ WriteUcr(p) \/ WriteWitness(p)
    \/ AppendDb(p) \/ AppendChain(p)

Next == \E p \in Processes :
    \/ \E t \in Tasks : Begin(p, t)
    \/ Progress(p)
    \/ Fault(p)

Spec == Init /\ [][Next]_vars

\* The interpreter goes on with a call it has begun.
FairSpec == Spec /\ \A p \in Processes : WF_vars(Progress(p))

-----------------------------------------------------------------------------
Ucrs == [serial : 0..MaxEpisodes, task : Tasks \cup {NoTask}, failed : SUBSET Lanes,
         action : {"answer", "refuse"}]

FileType == {Absent, Torn} \cup {Whole(n) : n \in Serials}

Events == [ucr : Ucrs, dir : RunDirs]

Places == Resting \cup {"name", "mkdir", "solve", "storing", "verify", "repair", "decide", "putucr",
                       "ucrfile", "witnessfile", "db", "chain"}

\* Types of the variables; the directory of an episode exists once it is past
\* making it.
TypeOK ==
    /\ sink \in {"disk", "off", "tmpfs"}
    /\ repair \in BOOLEAN
    /\ pc \in [Processes -> Places]
    /\ ucr \in [Processes -> Ucrs]
    /\ dir \in [Processes -> RunDirs \cup {[task |-> NoTask, n |-> 0]}]
    /\ dirs \subseteq RunDirs
    /\ \A p \in Processes : pc[p] \in Resting \cup {"name", "mkdir"} \/ dir[p] \in dirs
    /\ ucrFile \in [dirs -> FileType]
    /\ witnessFile \in [dirs -> FileType]
    /\ \A a \in stored : a.ucr \in Ucrs
    /\ torn \subseteq stored
    /\ db \in Seq(Events) /\ chain \in Seq(Events)
    /\ episodes \in 0..MaxEpisodes
    /\ faults \in 0..MaxFaults
    /\ overlap \in BOOLEAN

\* An event of the SQLite ledger is never ahead of what it names: the UCR, the
\* witness packet and the capsule are in the store, and unless episodes shared
\* their directory, ucr.json and witness.json in it are those of the event.
EventIsBacked ==
    \A i \in DOMAIN db :
        /\ \A y \in {"ucr", "witness_packet", "capsule"} : Artifact(y, db[i].ucr) \in stored
        /\ ~overlap => /\ ucrFile[db[i].dir] = Whole(db[i].ucr.serial)
                       /\ witnessFile[db[i].dir] = Whole(db[i].ucr.serial)

\* The JSON-lines ledger holds no event that the SQLite ledger lacks, none
\* twice, and it misses only those of episodes a fault stopped between the two.
ChainFollowsDb ==
    /\ \A i \in DOMAIN chain : \E j \in DOMAIN db : db[j] = chain[i]
    /\ \A i, j \in DOMAIN chain : chain[i] = chain[j] => i = j
    /\ Len(db) <= Len(chain) + Cardinality({p \in Processes : pc[p] = "chain"}) + faults

\* Fail-closed: a UCR that answers, wherever it is recorded, is one of an
\* episode none of whose required lanes failed.
FailClosed ==
    \A u \in {db[i].ucr : i \in DOMAIN db} \cup {a.ucr : a \in stored} :
        u.action = "answer" => u.failed = {}

Readable(d) == ucrFile[d].state = "whole"

\* README: episode replay takes the ucr.json of a run directory.  A UCR that can
\* be read there has its solution in the store, if that is where solutions go.
\* Where episodes share no time it is whole, too, and can be replayed, but for one
\* thing: an earlier run of the same task was stopped while it wrote the solution,
\* and left the directory before this one without a UCR.  put_bytes keeps what
\* that run left.
ReplayableUnlessTorn ==
    sink = "disk" =>
        \A d \in dirs : Readable(d) =>
            /\ Solution(d.task) \in stored
            /\ ~overlap /\ Solution(d.task) \in torn =>
                  \E e \in dirs : e.task = d.task /\ e.n < d.n /\ ucrFile[e] = Absent

\* The two files of a directory belong to one episode once it has ended well.
Emitted(p) == /\ ucrFile[dir[p]] = Whole(ucr[p].serial)
              /\ witnessFile[dir[p]] = Whole(ucr[p].serial)

\* README: every episode emits a UCR and a witness packet.  An episode that
\* ends, with no fault of its surroundings, leaves both in its directory.
EveryEpisodeEmits ==
    ~overlap /\ faults = 0 =>
        \A p \in Processes : pc[p] \in {"done", "raised"} => Emitted(p)

Recorded(p, ledger) == \E i \in DOMAIN ledger : ledger[i] = Event(p)

Unmentioned(p) ==
    /\ ucrFile[dir[p]] = Absent /\ witnessFile[dir[p]] = Absent
    /\ \A i \in DOMAIN db : db[i].dir # dir[p]
    /\ \A i \in DOMAIN chain : chain[i].dir # dir[p]

\* What is true of every episode that no other overlaps, after faults of earlier
\* ones too: one that returns has left both files and an event in both ledgers,
\* one that raises, wherever its own code does, none of the four.
AllRecordsOrNone ==
    ~overlap => \A p \in Processes :
        /\ pc[p] = "done" => Emitted(p) /\ Recorded(p, db) /\ Recorded(p, chain)
        /\ pc[p] = "raised" => Unmentioned(p)

\* What an earlier episode left in its directory is never overwritten by a
\* later one, run again after a failure or not.
RecordsAreFinal ==
    [][~overlap' => \A d \in dirs :
          ucrFile[d].state # "absent" => ucrFile'[d] = ucrFile[d]]_vars

\* Every episode comes to an end, however many directories it finds taken.
EpisodesEnd == \A p \in Processes : pc[p] \notin Resting ~> pc[p] \in Resting
=============================================================================
