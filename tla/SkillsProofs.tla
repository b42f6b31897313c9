---------------------------- MODULE SkillsProofs ----------------------------
(***************************************************************************)
(* What an episode may report of skills, for any tasks, gates, processes   *)
(* and crashes.  The invariant says what a process knows at each point of  *)
(* its episode (Local), and what files and registry still hold of what it  *)
(* has read or written while no other episode runs (Solo).                 *)
(***************************************************************************)
EXTENDS Skills, TLAPS

Stages == {"down", "idle", "try", "read", "judge", "reread", "compile", "save", "fill",
           "register", "regopen", "regfill", "verdict", "verdictfill", "done", "raised"}

\* Where an episode holds a bundle that passed the gates.
Admitting == {"save", "fill", "register", "regopen", "regfill", "verdict", "verdictfill"}

FileSet == {"skill", "program", "tests", "verify"}
Values  == UNION {{b[f] : f \in FileSet} : b \in Bundles}
Content == {Absent, Torn} \cup {Whole(v) : v \in Values}

TypedDisk ==
    /\ registry \in [state : {"torn", "whole"}, names : SUBSET Names]
    /\ file \in [Names -> [FileSet -> Content]]
    /\ \A n \in Names : file[n]["program"].state = "whole" => file[n]["program"].value \in Programs
    /\ verdict \in [Names -> {Absent, Torn} \cup {Whole(b) : b \in passed}]

TypedProcs ==
    /\ at \in [Procs -> Stages]
    /\ task \in [Procs -> Specs]
    /\ number \in [Procs -> 0..MaxEpisodes]
    /\ used \in [Procs -> Names \cup {NoName}]
    /\ got \in [Procs -> Seq(Values)]
    /\ program \in [Procs -> Programs]
    /\ made \in [Procs -> Bundles \cup {NoBundle}]
    /\ saved \in [Procs -> 0..4]
    /\ copy \in [Procs -> SUBSET Names]
    /\ admitted \in [Procs -> passed \cup {NoBundle}]

TypedHistory ==
    /\ passed \subseteq Bundles /\ promised \subseteq Names
    /\ episodes \in 0..MaxEpisodes /\ faults \in Nat /\ overlap \in BOOLEAN

Typed == TypedDisk /\ TypedProcs /\ TypedHistory

Busy(p) == at[p] \notin Resting

Local(p) ==
    /\ at[p] \in {"down", "idle", "try"} => got[p] = <<>> /\ used[p] = NoName
    /\ at[p] \notin Admitting \cup {"done", "raised"} => saved[p] = 0
    /\ at[p] = "fill" => saved[p] < 4
    /\ at[p] \in Reading => used[p] \in Names
    /\ Len(got[p]) >= 2 => got[p][2] \in Programs
    /\ Busy(p) => number[p] \in 1..MaxEpisodes
    /\ at[p] \in Admitting => /\ made[p] = Compiled(task[p], program[p], number[p])
                              /\ made[p] \in passed
    /\ at[p] # "done" => admitted[p] = NoBundle

Solo(p) ==
    /\ at[p] \in Reading =>
          \A i \in 1..4 : i <= Len(got[p]) => file[used[p]][Files[i]] = Whole(got[p][i])
    /\ at[p] = "reread" \/ (at[p] = "judge" /\ used[p] # NoName) =>
          file[used[p]]["program"] = Whole(program[p])
    /\ admitted[p] # NoBundle => admitted[p].program = program[p]
    /\ at[p] \in {"regopen", "regfill"} => promised \cup {Name(p)} \subseteq copy[p]
    /\ at[p] \in {"verdict", "verdictfill"} => registry.state = "whole" /\ Name(p) \in registry.names

Alone == ~overlap => \A p, q \in Procs : Busy(p) /\ Busy(q) => p = q

IInv == /\ Typed
        /\ \A p \in Procs : Local(p)
        /\ ~overlap => \A p \in Procs : Solo(p)
        /\ Alone /\ AdmittedStay

-----------------------------------------------------------------------------
\* A step of p as the other processes see it.
Frame(p) ==
    /\ \A q \in Procs \ {p} :
          /\ at'[q] = at[q] /\ task'[q] = task[q] /\ number'[q] = number[q]
          /\ used'[q] = used[q] /\ got'[q] = got[q] /\ program'[q] = program[q]
          /\ made'[q] = made[q] /\ saved'[q] = saved[q] /\ admitted'[q] = admitted[q]
          /\ copy'[q] = copy[q]
    /\ passed \subseteq passed'

\* It takes a step of one process's own to keep the invariant.
LEMMA StepOK ==
    ASSUME IInv, NEW p \in Procs, Frame(p), Typed', Local(p)',
           ~overlap' => /\ ~overlap /\ Solo(p)'
                        /\ \/ \A q \in Procs \ {p} : ~Busy(q)
                           \/ ~Busy(p)' /\ UNCHANGED <<disk, promised>>,
           AdmittedStay'
    PROVE  IInv'
  <1>1. \A q \in Procs \ {p} : Local(q)'
    BY DEF IInv, Local, Frame, Busy, Compiled
  <1>2. \A q \in Procs \ {p} : Busy(q)' = Busy(q)
    BY DEF Frame, Busy
  <1>3. ASSUME ~overlap', NEW q \in Procs \ {p} PROVE Solo(q)'
    <2>1. CASE ~Busy(q)
      <3>1. at'[q] \in Resting
        BY <1>2, <2>1 DEF Busy
      <3>2. admitted'[q] = NoBundle
        BY <1>1, <3>1 DEF Local, Resting
      <3> QED
        BY <3>1, <3>2 DEF Solo, Resting, Reading
    <2>2. CASE UNCHANGED <<disk, promised>>
      <3>1. Solo(q)
        BY <1>3 DEF IInv
      <3>2. Name(q)' = Name(q)
        BY DEF Name, Frame
      <3> QED
        BY <2>2, <3>1, <3>2 DEF Solo, Frame, disk
    <2> QED
      BY <1>3, <2>1, <2>2
  <1>4. Alone'
    BY <1>2 DEF Alone, IInv
  <1> QED
    BY <1>1, <1>3, <1>4 DEF IInv

\* A busy process is alone before an overlap.
LEMMA OnlyOne ==
    ASSUME IInv, NEW p \in Procs, Busy(p), overlap' = overlap
    PROVE  ~overlap' => ~overlap /\ \A q \in Procs \ {p} : ~Busy(q)
  BY DEF IInv, Alone

\* A compiled bundle and its files.
LEMMA CompiledOK ==
    ASSUME NEW s \in Specs, NEW g \in Programs, NEW n \in 1..MaxEpisodes
    PROVE  /\ Compiled(s, g, n) \in Bundles
           /\ Compiled(s, g, n) # NoBundle
           /\ Compiled(s, g, n).program = g
           /\ \A f \in FileSet : Compiled(s, g, n)[f] \in Values
  <1>1. Compiled(s, g, n) \in Bundles
    BY DEF Bundles
  <1>2. \A f \in FileSet : Compiled(s, g, n)[f] \in Values
    BY <1>1 DEF Values
  <1>3. Compiled(s, g, n).program = g
    BY DEF Compiled
  <1>4. Compiled(s, g, n) # NoBundle
    <2>1. "skill" \in DOMAIN Compiled(s, g, n) /\ "skill" \notin DOMAIN NoBundle
      BY DEF Compiled, NoBundle
    <2> QED
      BY <2>1
  <1> QED
    BY <1>1, <1>2, <1>3, <1>4

LEMMA FilesNamed == \A k \in 0..3 : Files[k + 1] \in FileSet
  BY DEF Files, FileSet

LEMMA InitOK == Init => IInv
  <1> SUFFICES ASSUME Init PROVE IInv
    OBVIOUS
  <1> USE DEF Init
  <1>1. Idle \in Specs /\ Answer(Idle) \in Programs
    BY TaskAssumption DEF Idle
  <1>2. file \in [Names -> [FileSet -> Content]] /\ \A n \in Names : file[n]["program"] = Absent
    <2>1. {Files[i] : i \in 1..4} = FileSet
      BY DEF Files, FileSet
    <2> QED
      BY <2>1 DEF Content, FileSet
  <1>3. Absent.state # "whole"
    BY DEF Absent
  <1>4. Typed
    <2>1. registry \in [state : {"torn", "whole"}, names : SUBSET Names]
      OBVIOUS
    <2>2. got \in [Procs -> Seq(Values)]
      OBVIOUS
    <2>3. \A n \in Names : file[n]["program"].state # "whole"
      BY <1>2, <1>3
    <2>4. verdict \in [Names -> {Absent, Torn} \cup {Whole(b) : b \in passed}]
      OBVIOUS
    <2>5. at \in [Procs -> Stages]
      BY DEF Stages
    <2>6. number \in [Procs -> 0..MaxEpisodes] /\ episodes \in 0..MaxEpisodes
      BY LimitAssumption
    <2>7. TypedDisk
      BY <1>2, <2>1, <2>3, <2>4 DEF TypedDisk
    <2>8. TypedProcs
      BY <1>1, <2>2, <2>5, <2>6 DEF TypedProcs
    <2>9. TypedHistory
      BY <2>6, LimitAssumption DEF TypedHistory
    <2> QED
      BY <2>7, <2>8, <2>9 DEF Typed
  <1>5. \A p \in Procs : Local(p)
    <2> SUFFICES ASSUME NEW p \in Procs PROVE Local(p)
      OBVIOUS
    <2>1. at[p] = "down" /\ got[p] = <<>> /\ used[p] = NoName /\ saved[p] = 0
          /\ admitted[p] = NoBundle
      OBVIOUS
    <2> QED
      BY <2>1 DEF Local, Admitting, Reading, Busy, Resting
  <1>6. \A p \in Procs : Solo(p)
    BY DEF Solo, Reading
  <1> QED
    BY <1>4, <1>5, <1>6 DEF IInv, Alone, Busy, Resting, AdmittedStay

-----------------------------------------------------------------------------
\* An episode begins.
LEMMA BeginOK ==
    ASSUME IInv, NEW p \in Procs, NEW s \in Specs, Begin(p, s)
    PROVE  IInv'
  <1> USE DEF Begin, Goes, disk
  <1>1. at[p] = "idle" /\ at' = [at EXCEPT ![p] = "try"] /\ at'[p] = "try"
    BY DEF IInv, Typed, TypedDisk, TypedProcs, TypedHistory
  <1>2. episodes + 1 \in 1..MaxEpisodes
    BY LimitAssumption DEF IInv, Typed, TypedDisk, TypedProcs, TypedHistory
  <1>3. Typed'
    BY <1>1, <1>2 DEF IInv, Typed, TypedDisk, TypedProcs, TypedHistory, Stages
  <1>4. Local(p)'
    BY <1>1, <1>2 DEF IInv, Typed, TypedDisk, TypedProcs, TypedHistory, Local, Admitting, Reading, Busy, Resting
  <1>5. ~overlap' => Solo(p)' /\ ~overlap /\ \A q \in Procs \ {p} : ~Busy(q)
    BY <1>1, <1>4 DEF Local, Solo, Reading, Busy
  <1>6. Frame(p)
    BY <1>1 DEF IInv, Typed, TypedDisk, TypedProcs, TypedHistory, Frame
  <1>7. AdmittedStay'
    BY <1>5 DEF IInv, AdmittedStay
  <1> QED
    BY <1>3, <1>4, <1>5, <1>6, <1>7, StepOK

\* A process starts, goes on, ends or dies: it holds nothing of an episode.
LEMMA LivesOK ==
    ASSUME IInv, NEW p \in Procs, Lives(p)
    PROVE  IInv'
  <1> USE DEF Goes, disk
  <1>1. /\ at' = [at EXCEPT ![p] = at'[p]] /\ at'[p] \in {"down", "idle"}
        /\ UNCHANGED <<disk, passed, promised, episodes, overlap>>
        /\ faults' \in Nat
        /\ Forget(p) \/ (at[p] = "down" /\ UNCHANGED <<task, number, used, got, program, made, saved, copy, admitted>>)
    BY DEF Lives, Start, Proceed, Exit, Crash, history, IInv, Typed, TypedDisk, TypedProcs, TypedHistory
  <1>2. Idle \in Specs /\ Answer(Idle) \in Programs
    BY TaskAssumption DEF Idle
  <1>3. CASE Forget(p)
    <2> USE <1>3 DEF Forget
    <2>1. Typed'
      <3>1. TypedDisk' /\ TypedHistory'
        BY <1>1 DEF IInv, Typed, TypedDisk, TypedHistory
      <3>2. at' \in [Procs -> Stages]
        BY <1>1 DEF IInv, Typed, TypedProcs, Stages
      <3>3. 0 \in 0..MaxEpisodes
        BY LimitAssumption
      <3>4. got' \in [Procs -> Seq(Values)]
        BY DEF IInv, Typed, TypedProcs
      <3> QED
        BY <1>1, <1>2, <3>1, <3>2, <3>3, <3>4 DEF IInv, Typed, TypedProcs
    <2>2. got'[p] = <<>> /\ used'[p] = NoName /\ saved'[p] = 0 /\ admitted'[p] = NoBundle
      BY DEF IInv, Typed, TypedDisk, TypedProcs, TypedHistory
    <2>3. Local(p)'
      BY <1>1, <2>2 DEF Local, Admitting, Reading, Busy, Resting
    <2>4. Solo(p)'
      BY <1>1, <2>2 DEF Solo, Reading
    <2>5. Frame(p)
      BY <1>1 DEF IInv, Typed, TypedDisk, TypedProcs, TypedHistory, Frame
    <2>6. AdmittedStay'
      BY <1>1 DEF IInv, AdmittedStay
    <2>7. ~Busy(p)'
      BY <1>1 DEF Busy, Resting
    <2> QED
      BY <1>1, <2>1, <2>3, <2>4, <2>5, <2>6, <2>7, StepOK
  <1>4. CASE at[p] = "down" /\ UNCHANGED <<task, number, used, got, program, made, saved, copy, admitted>>
    <2>1. Typed'
      BY <1>1, <1>4 DEF IInv, Typed, TypedDisk, TypedProcs, TypedHistory, Stages
    <2>2. Local(p)'
      BY <1>1, <1>4 DEF IInv, Local, Admitting, Reading, Busy, Resting
    <2>3. admitted[p] = NoBundle
      BY <1>4 DEF IInv, Local
    <2>4. Solo(p)'
      BY <1>1, <1>4, <2>3 DEF Solo, Reading
    <2>5. Frame(p)
      BY <1>1, <1>4 DEF IInv, Typed, TypedDisk, TypedProcs, TypedHistory, Frame
    <2>6. AdmittedStay'
      BY <1>1 DEF IInv, AdmittedStay
    <2>7. ~Busy(p)'
      BY <1>1 DEF Busy, Resting
    <2> QED
      BY <1>1, <2>1, <2>2, <2>4, <2>5, <2>6, <2>7, StepOK
  <1> QED
    BY <1>1, <1>3, <1>4

\* A bundle is looked for and read, or the task is solved without.
LEMMA SolvesOK ==
    ASSUME IInv, NEW p \in Procs,
           UseSkill(p) \/ SolveAfresh(p) \/ RegistryRaises(p) \/ ReadFile(p) \/ ReadRaises(p) \/ TakeProgram(p)
    PROVE  IInv'
  <1> USE DEF Goes, history
  <1>1. /\ UNCHANGED <<disk, history, number, task, made, saved, copy, admitted>>
        /\ at[p] \in {"try", "read", "reread", "register"}
        /\ at' = [at EXCEPT ![p] = at'[p]] /\ at'[p] \in {"read", "reread", "judge", "raised"}
    BY DEF UseSkill, SolveAfresh, RegistryRaises, ReadFile, ReadRaises, TakeProgram, Reading,
           episode, IInv, Typed, TypedProcs
  <1>2. Busy(p) /\ Busy(p)'
    BY <1>1 DEF Busy, Resting
  <1>3. admitted[p] = NoBundle
    BY <1>1 DEF IInv, Local
  <1>4. AdmittedStay'
    BY <1>1 DEF IInv, AdmittedStay, disk
  <1>5. TypedDisk' /\ TypedHistory'
    BY <1>1 DEF IInv, Typed, TypedDisk, TypedHistory, disk
  <1>6. CASE UseSkill(p)
    <2> USE <1>6 DEF UseSkill
    <2>1. used'[p] \in Names /\ used' = [used EXCEPT ![p] = used'[p]]
      <3>1. Matching(task[p]) \in SUBSET Names /\ Matching(task[p]) # {}
        BY DEF IInv, Typed, TypedDisk, Matching
      <3>2. FirstName(Matching(task[p])) \in Names
        BY <3>1, FirstAssumption
      <3> QED
        BY <3>2 DEF IInv, Typed, TypedProcs
    <2>2. Typed'
      BY <1>1, <1>5, <2>1 DEF IInv, Typed, TypedProcs, Stages
    <2>3. at[p] = "try" /\ at'[p] = "read" /\ got'[p] = <<>> /\ saved'[p] = 0 /\ got' = got /\ program' = program
      BY <1>1 DEF IInv, Typed, TypedProcs, Local, Admitting
    <2>4. Local(p)'
      BY <1>1, <1>2, <1>3, <2>1, <2>3 DEF IInv, Local, Admitting, Reading, Busy
    <2>5. Solo(p)'
      BY <1>1, <1>3, <2>3 DEF Solo, Reading
    <2>6. Frame(p)
      BY <1>1, <2>1, <2>3 DEF IInv, Typed, TypedProcs, Frame
    <2> QED
      BY <1>1, <1>2, <1>4, <2>2, <2>4, <2>5, <2>6, OnlyOne, StepOK
  <1>7. CASE SolveAfresh(p)
    <2> USE <1>7 DEF SolveAfresh
    <2>1. program' = [program EXCEPT ![p] = Answer(task[p])] /\ Answer(task[p]) \in Programs
      BY TaskAssumption DEF IInv, Typed, TypedProcs
    <2>2. Typed'
      BY <1>1, <1>5, <2>1 DEF IInv, Typed, TypedProcs, Stages
    <2>3. at[p] = "try" /\ at'[p] = "judge" /\ got' = got /\ used' = used /\ used[p] = NoName
      BY <1>1 DEF IInv, Typed, TypedProcs, Local
    <2>4. Local(p)'
      BY <1>1, <1>2, <1>3, <2>3 DEF IInv, Local, Admitting, Reading, Busy
    <2>5. Solo(p)'
      BY <1>1, <1>3, <2>3 DEF Solo, Reading
    <2>6. Frame(p)
      BY <1>1, <2>1, <2>3 DEF IInv, Typed, TypedProcs, Frame
    <2> QED
      BY <1>1, <1>2, <1>4, <2>2, <2>4, <2>5, <2>6, OnlyOne, StepOK
  <1>8. CASE RegistryRaises(p) \/ ReadRaises(p)
    <2> USE <1>8 DEF RegistryRaises, ReadRaises, episode
    <2>1. at'[p] = "raised" /\ UNCHANGED <<got, used, program>>
      BY DEF IInv, Typed, TypedProcs
    <2>2. Typed'
      BY <1>1, <1>5, <2>1 DEF IInv, Typed, TypedProcs, Stages
    <2>4. Local(p)'
      BY <1>1, <1>2, <1>3, <2>1 DEF IInv, Local, Admitting, Reading, Busy
    <2>5. Solo(p)'
      BY <1>1, <1>3, <2>1 DEF Solo, Reading
    <2>6. Frame(p)
      BY <1>1, <2>1 DEF IInv, Typed, TypedProcs, Frame
    <2> QED
      BY <1>1, <1>2, <1>4, <2>2, <2>4, <2>5, <2>6, OnlyOne, StepOK
  <1>9. CASE ReadFile(p)
    <2> USE <1>9 DEF ReadFile
    <2>1. /\ at[p] \in Reading /\ at' = at /\ used[p] \in Names
          /\ UNCHANGED <<used, program>>
          /\ got[p] \in Seq(Values)
      BY DEF IInv, Typed, TypedProcs, Local
    <2> DEFINE v == NextFile(p).value
    <2>2. Len(got[p]) + 1 \in 1..4 /\ Files[Len(got[p]) + 1] \in FileSet
      BY <2>1 DEF Files, FileSet
    <2>3. NextFile(p) = Whole(v) /\ v \in Values
      <3>1. NextFile(p) \in Content
        BY <2>1, <2>2 DEF NextFile, IInv, Typed, TypedDisk
      <3> QED
        BY <3>1 DEF Content, Absent, Torn, Whole
    <2> HIDE DEF v
    <2>4. got' = [got EXCEPT ![p] = Append(got[p], v)] /\ got'[p] = Append(got[p], v)
      BY DEF v, IInv, Typed, TypedProcs
    <2>5. /\ Append(got[p], v) \in Seq(Values)
          /\ Len(Append(got[p], v)) = Len(got[p]) + 1
          /\ \A i \in 1..Len(got[p]) : Append(got[p], v)[i] = got[p][i]
          /\ Append(got[p], v)[Len(got[p]) + 1] = v
      BY <2>1, <2>3
    <2>6. Typed'
      BY <1>1, <1>5, <2>1, <2>4, <2>5 DEF IInv, Typed, TypedProcs
    <2>7. Len(got'[p]) >= 2 => got'[p][2] \in Programs
      <3>1. CASE Len(got[p]) + 1 = 2
        <4>1. NextFile(p) = file[used[p]]["program"]
          BY <3>1 DEF NextFile, Files
        <4>2. v \in Programs
          BY <2>1, <2>3, <4>1 DEF IInv, Typed, TypedDisk, Whole
        <4> QED
          BY <2>4, <2>5, <3>1, <4>2
      <3>2. CASE Len(got[p]) + 1 # 2
        BY <2>1, <2>2, <2>4, <2>5, <3>2 DEF IInv, Local
      <3> QED
        BY <3>1, <3>2
    <2>8. Local(p)'
      BY <1>1, <1>2, <1>3, <2>1, <2>7 DEF IInv, Local, Admitting, Reading, Busy
    <2>9. ~overlap => Solo(p)'
      <3> SUFFICES ASSUME ~overlap PROVE Solo(p)'
        OBVIOUS
      <3>1. Solo(p)
        BY DEF IInv
      <3>2. \A i \in 1..4 : i <= Len(got'[p]) => file[used[p]][Files[i]] = Whole(got'[p][i])
        <4>1. file[used[p]][Files[Len(got[p]) + 1]] = Whole(v)
          BY <2>3 DEF NextFile
        <4> QED
          BY <2>1, <2>2, <2>4, <2>5, <3>1, <4>1 DEF Solo
      <3> QED
        BY <1>1, <1>3, <2>1, <3>1, <3>2 DEF Solo, Reading, disk
    <2>10. Frame(p)
      BY <1>1, <2>1, <2>4 DEF IInv, Typed, TypedProcs, Frame
    <2> QED
      BY <1>1, <1>2, <1>4, <2>6, <2>8, <2>9, <2>10, OnlyOne, StepOK
  <1>10. CASE TakeProgram(p)
    <2> USE <1>10 DEF TakeProgram
    <2>1. /\ at[p] = "read" /\ at'[p] = "judge" /\ UNCHANGED <<used, got>>
          /\ Len(got[p]) = 4 /\ used[p] \in Names
      BY DEF IInv, Typed, TypedProcs, Local, Reading
    <2>2. program' = [program EXCEPT ![p] = got[p][2]] /\ got[p][2] \in Programs /\ program'[p] = got[p][2]
      <3>1. Loaded(p).program = got[p][2]
        BY DEF Loaded
      <3>2. got[p][2] \in Programs
        BY <2>1 DEF IInv, Local
      <3> QED
        BY <3>1, <3>2 DEF IInv, Typed, TypedProcs
    <2>3. Typed'
      BY <1>1, <1>5, <2>1, <2>2 DEF IInv, Typed, TypedProcs, Stages
    <2>4. Local(p)'
      BY <1>1, <1>2, <1>3, <2>1 DEF IInv, Local, Admitting, Reading, Busy
    <2>5. ~overlap => Solo(p)'
      <3>1. Files[2] = "program"
        BY DEF Files
      <3>2. ~overlap => file[used[p]]["program"] = Whole(got[p][2])
        BY <2>1, <3>1 DEF IInv, Solo, Reading
      <3> QED
        BY <1>1, <1>3, <2>1, <2>2, <3>2 DEF Solo, Reading, disk
    <2>6. Frame(p)
      BY <1>1, <2>1, <2>2 DEF IInv, Typed, TypedProcs, Frame
    <2> QED
      BY <1>1, <1>2, <1>4, <2>3, <2>4, <2>5, <2>6, OnlyOne, StepOK
  <1> QED
    BY <1>6, <1>7, <1>8, <1>9, <1>10

\* The lanes have judged; the bundle is read again, admitted before or now.
LEMMA AdmitsOK ==
    ASSUME IInv, NEW p \in Procs, Admits(p)
    PROVE  IInv'
  <1> USE DEF Goes, history, Admits
  <1>1. /\ UNCHANGED <<disk, number, task, used, program, saved, copy, promised, episodes, faults, overlap>>
        /\ at[p] \in {"judge", "reread", "compile"}
        /\ at' = [at EXCEPT ![p] = at'[p]] /\ at'[p] \in {"reread", "compile", "save", "done"}
    BY DEF EndPlain, Reload, NotUsed, KeepAdmission, Readmit, Reject, Admit, episode, IInv, Typed,
           TypedProcs
  <1>2. Busy(p) /\ Busy(p)'
    BY <1>1 DEF Busy, Resting
  <1>3. admitted[p] = NoBundle /\ saved[p] = 0
    BY <1>1 DEF IInv, Local, Admitting
  <1>4. AdmittedStay'
    BY <1>1 DEF IInv, AdmittedStay, disk
  <1>5. CASE EndPlain(p) \/ NotUsed(p) \/ Readmit(p) \/ Reject(p)
    <2> USE <1>5 DEF EndPlain, NotUsed, Readmit, Reject, episode
    <2>1. at'[p] \in {"compile", "done"} /\ UNCHANGED <<got, made, admitted, passed>>
      BY DEF IInv, Typed, TypedProcs
    <2>2. Typed'
      BY <1>1, <2>1 DEF IInv, Typed, TypedDisk, TypedProcs, TypedHistory, Stages, disk
    <2>3. Local(p)'
      BY <1>1, <1>2, <1>3, <2>1 DEF IInv, Local, Admitting, Reading, Busy
    <2>4. Solo(p)'
      BY <1>1, <1>3, <2>1 DEF Solo, Reading
    <2>5. Frame(p)
      BY <1>1, <2>1 DEF IInv, Typed, TypedProcs, Frame
    <2> QED
      BY <1>1, <1>2, <1>4, <2>2, <2>3, <2>4, <2>5, OnlyOne, StepOK
  <1>6. CASE Reload(p)
    <2> USE <1>6 DEF Reload
    <2>1. /\ at[p] = "judge" /\ at'[p] = "reread" /\ UNCHANGED <<made, admitted, passed>>
          /\ used[p] \in Names /\ used[p] # NoName
          /\ got' = [got EXCEPT ![p] = <<>>] /\ got'[p] = <<>>
      BY DEF IInv, Typed, TypedProcs
    <2>2. Typed'
      <3>1. got' \in [Procs -> Seq(Values)]
        BY <2>1 DEF IInv, Typed, TypedProcs
      <3> QED
        BY <1>1, <2>1, <3>1 DEF IInv, Typed, TypedDisk, TypedProcs, TypedHistory, Stages, disk
    <2>3. Local(p)'
      BY <1>1, <1>2, <1>3, <2>1 DEF IInv, Local, Admitting, Reading, Busy
    <2>4. ~overlap => Solo(p)'
      BY <1>1, <1>3, <2>1 DEF IInv, Solo, Reading, disk
    <2>5. Frame(p)
      BY <1>1, <2>1 DEF IInv, Typed, TypedProcs, Frame
    <2> QED
      BY <1>1, <1>2, <1>4, <2>2, <2>3, <2>4, <2>5, OnlyOne, StepOK
  <1>7. CASE KeepAdmission(p)
    <2> USE <1>7 DEF KeepAdmission
    <2>1. /\ at[p] = "reread" /\ at'[p] = "done" /\ UNCHANGED <<made, got, passed>>
          /\ used[p] \in Names /\ Len(got[p]) = 4
      BY DEF IInv, Typed, TypedProcs, Local, Reading
    <2>2. Loaded(p) \in passed
      <3>1. /\ verdict[used[p]] = Whole(Loaded(p))
            /\ verdict[used[p]] \in {Absent, Torn} \cup {Whole(b) : b \in passed}
        BY <2>1 DEF AdmittedBefore, IInv, Typed, TypedDisk
      <3>2. \A b, c : Whole(b) = Whole(c) => b = c
        BY DEF Whole
      <3>3. \A b : Whole(b) # Absent /\ Whole(b) # Torn
        BY DEF Whole, Absent, Torn
      <3> QED
        BY <3>1, <3>2, <3>3
    <2>3. admitted' = [admitted EXCEPT ![p] = Loaded(p)] /\ admitted'[p] = Loaded(p)
      BY DEF IInv, Typed, TypedProcs
    <2>4. Typed'
      BY <1>1, <2>1, <2>2, <2>3 DEF IInv, Typed, TypedDisk, TypedProcs, TypedHistory, Stages, disk
    <2>5. Local(p)'
      BY <1>1, <1>2, <1>3, <2>1, <2>2, <2>3 DEF IInv, Local, Admitting, Reading, Busy
    <2>6. ~overlap => Solo(p)'
      <3>1. Files[2] = "program" /\ Loaded(p).program = got[p][2]
        BY DEF Files, Loaded
      <3>2. ~overlap => Whole(program[p]) = Whole(got[p][2])
        BY <2>1, <3>1 DEF IInv, Solo, Reading
      <3>3. ~overlap => Loaded(p).program = program[p]
        BY <3>1, <3>2 DEF Whole
      <3> QED
        BY <1>1, <2>1, <2>3, <3>3 DEF Solo, Reading
    <2>7. Frame(p)
      BY <1>1, <2>1, <2>3 DEF IInv, Typed, TypedProcs, Frame
    <2> QED
      BY <1>1, <1>2, <1>4, <2>4, <2>5, <2>6, <2>7, OnlyOne, StepOK
  <1>8. CASE Admit(p)
    <2> USE <1>8 DEF Admit
    <2> DEFINE b == Compiled(task[p], program[p], number[p])
    <2>1. /\ at[p] = "compile" /\ at'[p] = "save" /\ UNCHANGED <<got, admitted>>
          /\ number[p] \in 1..MaxEpisodes
      BY <1>2 DEF IInv, Typed, TypedProcs, Local
    <2>2. b \in Bundles
      BY <2>1, CompiledOK DEF IInv, Typed, TypedProcs
    <2>3. /\ made' = [made EXCEPT ![p] = b] /\ made'[p] = b
          /\ passed' = passed \cup {b}
      BY DEF IInv, Typed, TypedProcs
    <2>4. b = Compiled(task[p], program[p], number[p])'
      BY <1>1 DEF Compiled
    <2> HIDE DEF b
    <2>5. Typed'
      <3>1. TypedDisk'
        BY <1>1, <2>3 DEF IInv, Typed, TypedDisk, disk
      <3>2. TypedProcs'
        BY <1>1, <2>1, <2>2, <2>3 DEF IInv, Typed, TypedProcs, Stages
      <3>3. TypedHistory'
        BY <1>1, <2>2, <2>3 DEF IInv, Typed, TypedHistory
      <3> QED
        BY <3>1, <3>2, <3>3 DEF Typed
    <2>6. Local(p)'
      BY <1>1, <1>2, <1>3, <2>1, <2>3, <2>4 DEF IInv, Local, Admitting, Reading, Busy
    <2>7. Solo(p)'
      BY <1>1, <1>3, <2>1 DEF Solo, Reading
    <2>8. Frame(p)
      BY <1>1, <2>1, <2>3 DEF IInv, Typed, TypedProcs, Frame
    <2> QED
      BY <1>1, <1>2, <1>4, <2>5, <2>6, <2>7, <2>8, OnlyOne, StepOK
  <1> QED
    BY <1>5, <1>6, <1>7, <1>8

\* The bundle, the registry and the verdict are written.
LEMMA WritesOK ==
    ASSUME IInv, NEW p \in Procs, Writes(p)
    PROVE  IInv'
  <1> USE DEF Goes, history, Writes
  <1>1. /\ UNCHANGED <<number, task, used, got, program, made, passed, episodes, faults, overlap>>
        /\ at[p] \in Admitting /\ at' = [at EXCEPT ![p] = at'[p]] /\ at'[p] \in Admitting \cup {"done"}
        /\ saved' \in [Procs -> 0..4] /\ copy' \in [Procs -> SUBSET Names]
        /\ \A q \in Procs \ {p} : saved'[q] = saved[q] /\ copy'[q] = copy[q]
        /\ made[p] \in passed /\ made[p] \in Bundles
        /\ task[p] \in Specs /\ Name(p) \in Names /\ Name(p)' = Name(p)
        /\ \A q \in Procs \ {p} : at'[q] = at[q]
    <2>1. made[p] \in passed /\ made[p] \in Bundles /\ task[p] \in Specs
      <3>1. at[p] \in Admitting
        BY DEF SaveOpen, SaveFill, Saved, Register, RegistryOpen, RegistryFill, VerdictOpen,
               VerdictFill, Admitting
      <3> QED
        BY <3>1 DEF IInv, Typed, TypedProcs, TypedHistory, Local
    <2>2. Name(p) \in Names
      BY <2>1 DEF Name, Names
    <2>3. UNCHANGED <<number, task, used, got, program, made, passed, episodes, faults, overlap>>
      BY DEF SaveOpen, SaveFill, Saved, Register, RegistryOpen, RegistryFill, VerdictOpen,
             VerdictFill, episode
    <2>4. /\ at[p] \in Admitting /\ at' = [at EXCEPT ![p] = at'[p]]
          /\ at'[p] \in Admitting \cup {"done"}
      BY DEF SaveOpen, SaveFill, Saved, Register, RegistryOpen, RegistryFill, VerdictOpen,
             VerdictFill, Admitting, IInv, Typed, TypedProcs
    <2>5. /\ saved' \in [Procs -> 0..4]
          /\ \A q \in Procs \ {p} : saved'[q] = saved[q]
      <3>1. CASE SaveFill(p)
        <4>1. saved[p] + 1 \in 0..4
          <5>1. saved[p] < 4
            BY <3>1 DEF SaveFill, IInv, Local
          <5>2. saved[p] \in 0..4
            BY DEF IInv, Typed, TypedProcs
          <5> QED
            BY <5>1, <5>2
        <4> QED
          BY <3>1, <4>1 DEF SaveFill, IInv, Typed, TypedProcs
      <3>2. CASE ~SaveFill(p)
        BY <3>2 DEF SaveOpen, Saved, Register, RegistryOpen, RegistryFill, VerdictOpen,
                    VerdictFill, episode, IInv, Typed, TypedProcs
      <3> QED
        BY <3>1, <3>2
    <2>6. /\ copy' \in [Procs -> SUBSET Names]
          /\ \A q \in Procs \ {p} : copy'[q] = copy[q]
      <3>1. CASE Register(p)
        <4>1. registry.names \cup {Name(p)} \in SUBSET Names
          BY <2>2 DEF IInv, Typed, TypedDisk
        <4> QED
          BY <3>1, <4>1 DEF Register, IInv, Typed, TypedProcs
      <3>2. CASE ~Register(p)
        <4>1. copy' = copy
          BY <3>2 DEF SaveOpen, SaveFill, Saved, RegistryOpen, RegistryFill, VerdictOpen,
                      VerdictFill, episode
        <4> QED
          BY <4>1 DEF IInv, Typed, TypedProcs
      <3> QED
        BY <3>1, <3>2
    <2>7. Name(p)' = Name(p)
      BY <2>3 DEF Name
    <2> QED
      BY <2>1, <2>2, <2>3, <2>4, <2>5, <2>6, <2>7 DEF IInv, Typed, TypedProcs
  <1>2. Busy(p) /\ Busy(p)'
    BY <1>1 DEF Busy, Resting, Admitting
  <1>3. admitted[p] = NoBundle /\ at'[p] \notin Reading /\ at[p] # "done"
    BY <1>1 DEF IInv, Local, Admitting, Reading
  <1> USE DEF SaveOpen, SaveFill, Saved, Register, RegistryOpen, RegistryFill, VerdictOpen, VerdictFill
  <1>4. CASE ~VerdictFill(p)
    <2> USE <1>4
    <2>1. UNCHANGED <<promised, admitted>> /\ at'[p] \in Admitting
      BY DEF episode, Admitting, IInv, Typed, TypedProcs
    <2>2. Local(p)'
      <3>1. at'[p] = "fill" => saved'[p] < 4
        <4>1. at'[p] = "fill" => SaveOpen(p)
          BY DEF IInv, Typed, TypedProcs
        <4>2. SaveOpen(p) => saved[p] < 4 /\ saved' = saved
          BY DEF episode
        <4> QED
          BY <4>1, <4>2
      <3> HIDE DEF SaveOpen, SaveFill, Saved, Register, RegistryOpen, RegistryFill, VerdictOpen,
                   VerdictFill
      <3> QED
        BY <1>1, <1>2, <1>3, <2>1, <3>1 DEF IInv, Local, Compiled, Reading, Admitting, Busy
    <2>3. Frame(p)
      BY <1>1, <2>1 DEF Frame
    <2>4. TypedProcs' /\ TypedHistory'
      BY <1>1, <2>1 DEF IInv, Typed, TypedProcs, TypedHistory, Admitting, Stages
    <2>5. TypedDisk'
      <3>1. CASE SaveOpen(p) \/ SaveFill(p)
        <4>1. PICK f \in FileSet, c \in Content :
                 /\ file' = [file EXCEPT ![Name(p)][f] = c]
                 /\ f = "program" /\ c.state = "whole" => c.value \in Programs
          <5>1. CASE SaveOpen(p)
            <6>1. NextSave(p) \in FileSet
              <7>1. saved[p] \in 0..3
                BY <5>1 DEF IInv, Typed, TypedProcs
              <7> QED
                BY <7>1, FilesNamed DEF NextSave
            <6> QED
              BY <5>1, <6>1 DEF Content, Torn
          <5>2. CASE SaveFill(p)
            <6>1. saved[p] < 4
              BY <5>2 DEF IInv, Local
            <6>2. NextSave(p) \in FileSet
              <7>1. saved[p] \in 0..3
                BY <6>1 DEF IInv, Typed, TypedProcs
              <7> QED
                BY <7>1, FilesNamed DEF NextSave
            <6>3. made[p][NextSave(p)] \in Values
              BY <1>1, <6>2 DEF Values
            <6>4. made[p]["program"] \in Programs
              BY <1>1 DEF Bundles, Compiled
            <6>5. /\ file' = [file EXCEPT ![Name(p)][NextSave(p)] = Whole(made[p][NextSave(p)])]
                  /\ Whole(made[p][NextSave(p)]) \in Content
              BY <5>2, <6>3 DEF Content
            <6>6. Whole(made[p][NextSave(p)]).value = made[p][NextSave(p)]
              BY DEF Whole
            <6> QED
              BY <6>2, <6>4, <6>5, <6>6
          <5> QED
            BY <3>1, <5>1, <5>2
        <4>2. file' \in [Names -> [FileSet -> Content]]
          BY <4>1 DEF IInv, Typed, TypedDisk
        <4>3. \A n \in Names : file'[n]["program"].state = "whole" =>
                                  file'[n]["program"].value \in Programs
          BY <4>1, <1>1 DEF IInv, Typed, TypedDisk, FileSet
        <4> QED
          BY <1>1, <3>1, <4>2, <4>3 DEF IInv, Typed, TypedDisk
      <3>2. CASE Saved(p) \/ Register(p) \/ RegistryOpen(p) \/ RegistryFill(p) \/ VerdictOpen(p)
        <4>1. /\ file' = file
              /\ registry' \in [state : {"torn", "whole"}, names : SUBSET Names]
              /\ verdict' \in [Names -> {Absent, Torn} \cup {Whole(b) : b \in passed}]
          <5>1. CASE Saved(p) \/ Register(p)
            BY <5>1 DEF IInv, Typed, TypedDisk, disk
          <5>2. CASE RegistryOpen(p)
            BY <5>2 DEF IInv, Typed, TypedDisk
          <5>3. CASE RegistryFill(p)
            <6>1. copy[p] \in SUBSET Names
              BY DEF IInv, Typed, TypedProcs
            <6> QED
              BY <5>3, <6>1 DEF IInv, Typed, TypedDisk
          <5>4. CASE VerdictOpen(p)
            BY <5>4 DEF IInv, Typed, TypedDisk
          <5> QED
            BY <3>2, <5>1, <5>2, <5>3, <5>4
        <4> QED
          BY <1>1, <4>1 DEF IInv, Typed, TypedDisk
      <3> QED
        BY <3>1, <3>2
    <2>6. ~overlap => AdmittedStay' /\ Solo(p)'
      <3> SUFFICES ASSUME ~overlap PROVE AdmittedStay' /\ Solo(p)'
        OBVIOUS
      <3>1. Solo(p) /\ AdmittedStay
        BY DEF IInv
      <3>2. AdmittedStay'
        BY <1>1, <2>1, <3>1 DEF AdmittedStay, Solo, disk
      <3>3. at'[p] \in {"regopen", "regfill"} => promised \cup {Name(p)} \subseteq copy'[p]
        BY <1>1, <3>1 DEF AdmittedStay, Solo, disk, episode, IInv, Typed, TypedProcs
      <3>4. at'[p] \in {"verdict", "verdictfill"} =>
               registry'.state = "whole" /\ Name(p) \in registry'.names
        BY <1>1, <3>1 DEF Solo, disk, episode, IInv, Typed, TypedProcs
      <3>5. at'[p] \notin Reading \cup {"judge"}
        BY <2>1 DEF Admitting, Reading
      <3> QED
        BY <1>1, <1>3, <2>1, <3>2, <3>3, <3>4, <3>5 DEF Solo, Reading
    <2>7. AdmittedStay'
      BY <1>1, <2>6 DEF AdmittedStay
    <2> QED
      BY <1>1, <1>2, <2>2, <2>3, <2>4, <2>5, <2>6, <2>7, OnlyOne, StepOK DEF Typed
  <1>5. CASE VerdictFill(p)
    <2> USE <1>5
    <2>1. /\ at[p] = "verdictfill" /\ at'[p] = "done" /\ UNCHANGED <<registry, file>>
          /\ admitted' = [admitted EXCEPT ![p] = made[p]] /\ admitted'[p] = made[p]
          /\ promised' = promised \cup {Name(p)}
          /\ verdict' = [verdict EXCEPT ![Name(p)] = Whole(made[p])]
      BY DEF IInv, Typed, TypedProcs
    <2>2. Typed'
      <3>1. TypedDisk'
        BY <1>1, <2>1 DEF IInv, Typed, TypedDisk
      <3>2. TypedProcs'
        BY <1>1, <2>1 DEF IInv, Typed, TypedProcs, Stages
      <3>3. TypedHistory'
        BY <1>1, <2>1 DEF IInv, Typed, TypedHistory
      <3> QED
        BY <3>1, <3>2, <3>3 DEF Typed
    <2>3. Local(p)'
      BY <1>1, <1>2, <1>3, <2>1 DEF IInv, Local, Reading, Admitting, Busy
    <2>4. Frame(p)
      BY <1>1, <2>1 DEF IInv, Typed, TypedProcs, Frame
    <2>5. Solo(p)'
      <3>1. made[p].program = program[p]
        <4>1. made[p] = Compiled(task[p], program[p], number[p])
          BY <1>1 DEF IInv, Local
        <4> QED
          BY <4>1 DEF Compiled
      <3> QED
        BY <1>1, <2>1, <3>1 DEF Solo, Reading
    <2>6. AdmittedStay'
      BY <1>1, <2>1 DEF IInv, AdmittedStay, Solo
    <2> QED
      BY <1>1, <1>2, <2>2, <2>3, <2>4, <2>5, <2>6, OnlyOne, StepOK
  <1> QED
    BY <1>4, <1>5

-----------------------------------------------------------------------------
\* The invariant is inductive.
THEOREM Inductive == Spec => []IInv
  <1>1. IInv /\ [Next]_vars => IInv'
    <2> SUFFICES ASSUME IInv, [Next]_vars PROVE IInv'
      OBVIOUS
    <2>1. CASE UNCHANGED vars
      <3> USE <2>1 DEF vars, disk, episode, history
      <3>1. Typed'
        BY DEF IInv, Typed, TypedDisk, TypedProcs, TypedHistory
      <3>2. \A p \in Procs : Local(p)'
        BY DEF IInv, Local, Busy
      <3>3. ~overlap' => \A p \in Procs : Solo(p)'
        BY DEF IInv, Solo, Name
      <3>4. Alone' /\ AdmittedStay'
        BY DEF IInv, Alone, Busy, AdmittedStay
      <3> QED
        BY <3>1, <3>2, <3>3, <3>4 DEF IInv
    <2>2. CASE Next
      BY <2>2, BeginOK, SolvesOK, AdmitsOK, WritesOK, LivesOK DEF Next, Solves
    <2> QED
      BY <2>1, <2>2
  <1> QED
    BY InitOK, <1>1, PTL DEF Spec

\* The variables keep their types; a verdict is empty, half-written, or names
\* a bundle (_write_admission_verdict).
THEOREM TypeCorrect == Spec => []TypeOK
  <1>1. IInv => TypeOK
    BY DEF IInv, Typed, TypedDisk, TypedProcs, TypedHistory, TypeOK
  <1> QED
    BY Inductive, <1>1, PTL

\* No bundle is reported as admitted that did not pass the gates as a whole
\* (_maybe_auto_skill, _load_existing_admission).
THEOREM NothingMixedIsAdmitted == Spec => []AdmittedAsAWhole
  <1>1. IInv => AdmittedAsAWhole
    BY DEF IInv, Typed, TypedProcs, Solo, AdmittedAsAWhole
  <1> QED
    BY Inductive, <1>1, PTL

\* Episodes that do not overlap lose no admitted skill (register_skill).
THEOREM SkillsStay == Spec => []AdmittedStay
  <1>1. IInv => AdmittedStay
    BY DEF IInv
  <1> QED
    BY Inductive, <1>1, PTL

-----------------------------------------------------------------------------
(***************************************************************************)
(* One crash.  Until it comes, a registered skill has the verdict of its   *)
(* files, so that it is used and never saved again; after it, whoever      *)
(* saves over a registered skill finishes.                                 *)
(***************************************************************************)
IsWhole(n) == \A i \in 1..4 : file[n][Files[i]].state = "whole"

OnDisk(n) == [skill |-> file[n]["skill"].value, program |-> file[n]["program"].value,
              tests |-> file[n]["tests"].value, verify |-> file[n]["verify"].value]

Fresh(n) == IsWhole(n) /\ verdict[n] = Whole(OnDisk(n))

Judging(n) == \E p \in Procs : Name(p) = n /\ at[p] \in {"verdict", "verdictfill"}

Written(p, k) == \A i \in 1..4 : i <= k => file[Name(p)][Files[i]] = Whole(made[p][Files[i]])

\* What a process that saves a skill has brought to disk, and before a crash
\* whether the skill it uses or makes is registered.
HealsDisk(p) ==
    /\ at[p] \in {"save", "fill"} => Written(p, saved[p])
    /\ at[p] \in {"register", "regopen", "regfill", "verdict", "verdictfill"} => Written(p, 4)
    /\ at[p] \in {"regopen", "regfill"} => \A n \in copy[p] : IsWhole(n)

HealsFresh(p) ==
    /\ at[p] \in Reading \/ (at[p] = "judge" /\ used[p] # NoName) => used[p] \in registry.names
    /\ at[p] \in {"compile", "save", "fill", "register"} \/ (at[p] = "judge" /\ used[p] = NoName) =>
          Name(p) \notin registry.names
    /\ at[p] \in {"regopen", "regfill"} => \A n \in copy[p] \ {Name(p)} : Fresh(n)

Heals(p) == HealsDisk(p) /\ (faults = 0 => HealsFresh(p))

Registered ==
    /\ \A n \in registry.names : IsWhole(n) \/ Saving(n)
    /\ faults = 0 => \A n \in registry.names : Fresh(n) \/ Judging(n)

Healing == ~overlap /\ faults <= 1 /\ ~Reverify

Healthy == Healing => Registered /\ \A p \in Procs : Heals(p)

Others(p) == \A q \in Procs \ {p} : at[q] \in Resting

\* A step of p that writes no file and is no crash.
Quiet(p) ==
    /\ Frame(p) /\ UNCHANGED <<disk, faults>>
    /\ at[p] \notin {"save", "fill", "verdict", "verdictfill"}

\* The registered skills are what they were if no file changes.
LEMMA RegisteredKept ==
    ASSUME Registered, NEW p \in Procs, Quiet(p)
    PROVE  Registered'
  <1>1. \A n : /\ IsWhole(n)' = IsWhole(n)
               /\ Fresh(n)' = Fresh(n)
    BY DEF Quiet, disk, IsWhole, Fresh, OnDisk
  <1>2. \A n : Saving(n) => Saving(n)'
    <2> SUFFICES ASSUME NEW n, Saving(n) PROVE Saving(n)'
      OBVIOUS
    <2>1. PICK q \in Procs : Name(q) = n /\ at[q] \in {"save", "fill"}
      BY DEF Saving
    <2>2. q # p
      BY <2>1 DEF Quiet
    <2>3. at'[q] = at[q] /\ Name(q)' = Name(q)
      BY <2>2 DEF Quiet, Frame, Name
    <2> QED
      BY <2>1, <2>3 DEF Saving
  <1>3. \A n : Judging(n) => Judging(n)'
    <2> SUFFICES ASSUME NEW n, Judging(n) PROVE Judging(n)'
      OBVIOUS
    <2>1. PICK q \in Procs : Name(q) = n /\ at[q] \in {"verdict", "verdictfill"}
      BY DEF Judging
    <2>2. q # p
      BY <2>1 DEF Quiet
    <2>3. at'[q] = at[q] /\ Name(q)' = Name(q)
      BY <2>2 DEF Quiet, Frame, Name
    <2> QED
      BY <2>1, <2>3 DEF Judging
  <1>4. registry' = registry /\ faults' = faults
    BY DEF Quiet, disk
  <1> QED
    BY <1>1, <1>2, <1>3, <1>4 DEF Registered

\* Files that nobody writes stay as they are.
LEMMA FilesStay ==
    ASSUME NEW p \in Procs, UNCHANGED <<disk, faults>>, Heals(p),
           task'[p] = task[p], made'[p] = made[p], saved'[p] = saved[p], copy'[p] = copy[p],
           used'[p] = used[p], at'[p] = at[p]
    PROVE  Heals(p)'
  <1>1. Name(p)' = Name(p)
    BY DEF Name
  <1>2. \A n : IsWhole(n)' = IsWhole(n) /\ Fresh(n)' = Fresh(n)
    BY DEF IsWhole, Fresh, OnDisk, disk
  <1>3. HealsDisk(p)'
    BY <1>1, <1>2 DEF Heals, HealsDisk, Written, disk
  <1>4. faults = 0 => HealsFresh(p)'
    BY <1>1, <1>2 DEF Heals, HealsFresh, Reading, disk
  <1> QED
    BY <1>3, <1>4 DEF Heals

\* It takes a step of one process's own to stay healthy.
LEMMA HealthyStep ==
    ASSUME IInv, Healthy, NEW p \in Procs, Frame(p),
           Healing' => /\ Healing
                       /\ Registered' /\ Heals(p)'
                       /\ Others(p) \/ UNCHANGED <<disk, faults>>
    PROVE  Healthy'
  <1> SUFFICES ASSUME Healing' PROVE Registered' /\ \A q \in Procs : Heals(q)'
    BY DEF Healthy
  <1>1. ASSUME NEW q \in Procs \ {p} PROVE Heals(q)'
    <2>1. CASE Others(p)
      <3>1. at'[q] \in Resting
        BY <2>1 DEF Others, Frame
      <3> QED
        BY <3>1 DEF Heals, HealsDisk, HealsFresh, Resting, Reading
    <2>2. CASE UNCHANGED <<disk, faults>>
      <3>1. Heals(q)
        BY DEF Healthy
      <3> QED
        BY <2>2, <3>1, FilesStay DEF Frame
    <2> QED
      BY <2>1, <2>2
  <1> QED
    BY <1>1

\* The step of an episode is its process's own.
LEMMA Framed ==
    ASSUME IInv, NEW p \in Procs, Solves(p) \/ Admits(p) \/ Writes(p) \/ Lives(p)
    PROVE  Frame(p)
  <1> USE DEF Goes, disk, episode, history, IInv, Typed, TypedProcs, Frame
  <1>1. CASE Solves(p)
    BY <1>1 DEF Solves, Begin, UseSkill, SolveAfresh, RegistryRaises, ReadFile, ReadRaises, TakeProgram
  <1>2. CASE Admits(p)
    BY <1>2 DEF Admits, EndPlain, Reload, NotUsed, KeepAdmission, Readmit, Reject, Admit
  <1>3. CASE Writes(p)
    BY <1>3 DEF Writes, SaveOpen, SaveFill, Saved, Register, RegistryOpen, RegistryFill, VerdictOpen, VerdictFill
  <1>4. CASE Lives(p)
    <2>1. ASSUME NEW a \in BOOLEAN, Start(p, a) PROVE Frame(p)
      BY <2>1 DEF Start
    <2>2. CASE Proceed(p)
      BY <2>2 DEF Proceed, Forget
    <2>3. CASE Exit(p)
      BY <2>3 DEF Exit, Forget
    <2>4. CASE Crash(p)
      BY <2>4 DEF Crash, Forget
    <2> QED
      BY <1>4, <2>1, <2>2, <2>3, <2>4 DEF Lives
  <1> QED
    BY <1>1, <1>2, <1>3, <1>4

\* A busy process that takes a step has the files to itself.
LEMMA OnItsOwn ==
    ASSUME IInv, Healthy, NEW p \in Procs, Busy(p), overlap' = overlap, Healing'
    PROVE  Others(p)
  BY DEF IInv, Alone, Busy, Others, Healing

\* Steps before the lanes.
LEMMA SolvesHealthy ==
    ASSUME IInv, Healthy, NEW p \in Procs, Solves(p)
    PROVE  Healthy'
  <1> SUFFICES ASSUME Healing'
               PROVE  Healing /\ Registered' /\ Heals(p)' /\ Others(p)
    BY Framed, HealthyStep
  <1> USE DEF Goes, IInv, Typed, TypedProcs
  <1>1. UNCHANGED <<disk, faults>> /\ Frame(p)
    <2>1. UNCHANGED <<disk, faults>>
      BY DEF Solves, Begin, UseSkill, SolveAfresh, RegistryRaises, ReadFile, ReadRaises, TakeProgram, history
    <2> QED
      BY <2>1, Framed
  <1>2. at[p] \in {"idle", "try", "read", "reread", "register"}
    BY DEF Solves, Begin, UseSkill, SolveAfresh, RegistryRaises, ReadFile, ReadRaises, TakeProgram, Reading
  <1>3. Healing /\ Others(p)
    <2>1. ASSUME NEW s \in Specs, Begin(p, s) PROVE Healing /\ Others(p)
      BY <2>1 DEF Begin, Healing, Others, TypedHistory
    <2>2. CASE ~\E s \in Specs : Begin(p, s)
      <3>1. Busy(p) /\ overlap' = overlap
        BY <2>2 DEF Solves, UseSkill, SolveAfresh, RegistryRaises, ReadFile, ReadRaises, TakeProgram,
                    history, Busy, Resting, Reading
      <3> QED
        BY <1>1, <3>1, OnItsOwn DEF Healing
    <2> QED
      BY <2>1, <2>2
  <1>4. Quiet(p)
    BY <1>1, <1>2 DEF Quiet
  <1>5. Registered /\ Heals(p)
    BY <1>3 DEF Healthy
  <1>6. Registered'
    BY <1>4, <1>5, RegisteredKept
  <1>7. Heals(p)'
    <2>1. CASE \E s \in Specs : Begin(p, s)
      BY <2>1 DEF Begin, Heals, HealsDisk, HealsFresh, Reading
    <2>2. CASE UseSkill(p)
      <3>1. used'[p] \in registry.names /\ at'[p] = "read"
        <4>1. Matching(task[p]) \in SUBSET Names /\ Matching(task[p]) # {}
          BY <2>2 DEF UseSkill, Matching, TypedDisk
        <4> QED
          BY <2>2, <4>1, FirstAssumption DEF UseSkill, Matching
      <3> QED
        BY <1>1, <3>1 DEF Heals, HealsDisk, HealsFresh, Reading, disk
    <2>3. CASE SolveAfresh(p)
      <3>1. used[p] = NoName /\ used' = used /\ at'[p] = "judge" /\ task' = task
        BY <2>3 DEF SolveAfresh, Local
      <3>2. Name(p) \notin registry.names
        BY <2>3, TriggerAssumption DEF SolveAfresh, Matching, Name
      <3> QED
        BY <1>1, <3>1, <3>2 DEF Heals, HealsDisk, HealsFresh, Reading, disk, Name
    <2>4. CASE RegistryRaises(p) \/ ReadRaises(p)
      BY <2>4 DEF RegistryRaises, ReadRaises, Heals, HealsDisk, HealsFresh, Reading
    <2>5. CASE ReadFile(p)
      <3>1. at' = at /\ used' = used /\ at[p] \in Reading
        BY <2>5 DEF ReadFile
      <3> QED
        BY <1>1, <1>5, <3>1 DEF Heals, HealsDisk, HealsFresh, Reading, disk
    <2>6. CASE TakeProgram(p)
      <3>1. at[p] = "read" /\ at'[p] = "judge" /\ used' = used /\ used[p] # NoName
        BY <2>6, NameAssumption DEF TakeProgram, Local, Reading
      <3> QED
        BY <1>1, <1>5, <3>1 DEF Heals, HealsDisk, HealsFresh, Reading, disk
    <2> QED
      BY <2>1, <2>2, <2>3, <2>4, <2>5, <2>6 DEF Solves
  <1> QED
    BY <1>3, <1>6, <1>7

\* A registered skill that was used has its verdict, before a crash.
LEMMA UsedIsFresh ==
    ASSUME IInv, Healthy, Healing, NEW p \in Procs, at[p] = "reread", Len(got[p]) = 4, faults = 0,
           Others(p)
    PROVE  AdmittedBefore(p)
  <1>1. used[p] \in registry.names
    BY DEF Healthy, Heals, HealsFresh, Reading
  <1>2. ~Judging(used[p])
    BY DEF Judging, Others, Resting
  <1>3. Fresh(used[p])
    BY <1>1, <1>2 DEF Healthy, Registered
  <1>4. \A i \in 1..4 : file[used[p]][Files[i]] = Whole(got[p][i])
    BY DEF IInv, Solo, Reading, Healing
  <1>5. OnDisk(used[p]) = Loaded(p)
    <2>1. Files[1] = "skill" /\ Files[2] = "program" /\ Files[3] = "tests" /\ Files[4] = "verify"
      BY DEF Files
    <2>2. /\ file[used[p]]["skill"] = Whole(got[p][1])
          /\ file[used[p]]["program"] = Whole(got[p][2])
          /\ file[used[p]]["tests"] = Whole(got[p][3])
          /\ file[used[p]]["verify"] = Whole(got[p][4])
      BY <1>4, <2>1
    <2> QED
      BY <2>2 DEF OnDisk, Loaded, Whole
  <1> QED
    BY <1>3, <1>5 DEF Fresh, AdmittedBefore, Healing

\* Steps between the lanes and the gates.
LEMMA AdmitsHealthy ==
    ASSUME IInv, Healthy, NEW p \in Procs, Admits(p)
    PROVE  Healthy'
  <1> SUFFICES ASSUME Healing'
               PROVE  Healing /\ Registered' /\ Heals(p)' /\ Others(p)
    BY Framed, HealthyStep
  <1> USE DEF Goes, IInv, Typed, TypedProcs
  <1>1. UNCHANGED <<disk, faults, overlap, task, used, saved, copy>> /\ Frame(p)
    <2>1. UNCHANGED <<disk, faults, overlap, task, used, saved, copy>>
      BY DEF Admits, EndPlain, Reload, NotUsed, KeepAdmission, Readmit, Reject, Admit, episode, history
    <2> QED
      BY <2>1, Framed
  <1>2. at[p] \in {"judge", "reread", "compile"}
    BY DEF Admits, EndPlain, Reload, NotUsed, KeepAdmission, Readmit, Reject, Admit
  <1>3. Healing /\ Others(p)
    BY <1>1, <1>2, OnItsOwn DEF Healing, Busy, Resting
  <1>4. Quiet(p)
    BY <1>1, <1>2 DEF Quiet
  <1>5. Registered /\ Heals(p)
    BY <1>3 DEF Healthy
  <1>6. Registered'
    BY <1>4, <1>5, RegisteredKept
  <1>7. Heals(p)'
    <2> USE DEF Heals, HealsDisk, HealsFresh, Reading, disk
    <2>1. CASE EndPlain(p) \/ KeepAdmission(p) \/ Reject(p)
      BY <2>1 DEF EndPlain, KeepAdmission, Reject
    <2>2. CASE Reload(p)
      BY <1>1, <1>5, <2>2 DEF Reload
    <2>3. CASE NotUsed(p)
      BY <1>1, <1>5, <2>3 DEF NotUsed, Name
    <2>4. CASE Readmit(p)
      <3>1. faults # 0
        BY <1>3, <2>4, UsedIsFresh DEF Readmit
      <3> QED
        BY <1>1, <2>4, <3>1 DEF Readmit
    <2>5. CASE Admit(p)
      <3>1. at[p] = "compile" /\ at'[p] = "save" /\ saved'[p] = 0
        BY <1>1, <2>5 DEF Admit, Local, Admitting
      <3>2. Written(p, saved[p])'
        BY <3>1 DEF Written
      <3> QED
        BY <1>1, <1>5, <3>1, <3>2 DEF Name
    <2> QED
      BY <2>1, <2>2, <2>3, <2>4, <2>5 DEF Admits
  <1> QED
    BY <1>3, <1>6, <1>7

\* Steps that write files; the first conjuncts say which.
LEMMA WritesHealthy ==
    ASSUME IInv, Healthy, NEW p \in Procs, Writes(p)
    PROVE  Healthy'
  <1> SUFFICES ASSUME Healing'
               PROVE  Healing /\ Registered' /\ Heals(p)' /\ Others(p)
    BY Framed, HealthyStep
  <1> USE DEF Goes, IInv, Typed, TypedProcs
  <1>1. UNCHANGED <<faults, overlap, task, made>> /\ Frame(p)
    <2>1. UNCHANGED <<faults, overlap, task, made>>
      BY DEF Writes, SaveOpen, SaveFill, Saved, Register, RegistryOpen, RegistryFill, VerdictOpen,
             VerdictFill, episode, history
    <2> QED
      BY <2>1, Framed
  <1>2. at[p] \in Admitting
    BY DEF Writes, SaveOpen, SaveFill, Saved, Register, RegistryOpen, RegistryFill, VerdictOpen,
           VerdictFill, Admitting
  <1>3. Healing /\ Others(p)
    BY <1>1, <1>2, OnItsOwn DEF Healing, Busy, Resting, Admitting
  <1>4. Registered /\ Heals(p)
    BY <1>3 DEF Healthy
  <1>5. Name(p)' = Name(p) /\ Name(p) \in Names
    BY <1>1 DEF Name, Names
  <1>6. made[p] = Compiled(task[p], program[p], number[p])
    BY <1>2 DEF Local
  <1>7. \A n : /\ Saving(n) => n = Name(p) /\ at[p] \in {"save", "fill"}
               /\ Judging(n) => n = Name(p) /\ at[p] \in {"verdict", "verdictfill"}
    BY <1>3 DEF Saving, Judging, Others, Resting
  \* A file of the bundle is emptied or filled.
  <1>8. CASE SaveOpen(p) \/ SaveFill(p)
    <2>1. /\ at[p] \in {"save", "fill"} /\ at'[p] \in {"save", "fill"}
          /\ UNCHANGED <<registry, verdict>>
          /\ \A n \in Names \ {Name(p)} : file'[n] = file[n]
      BY <1>8 DEF SaveOpen, SaveFill, TypedDisk
    <2>2. \A n \in Names \ {Name(p)} : IsWhole(n)' = IsWhole(n) /\ Fresh(n)' = Fresh(n)
      BY <2>1 DEF IsWhole, Fresh, OnDisk
    <2>3. \A n : n = Name(p) => Saving(n)'
      BY <1>5, <2>1 DEF Saving
    <2>4. registry.names \subseteq Names
      BY DEF TypedDisk
    <2>5. \A n \in registry'.names : (IsWhole(n) \/ Saving(n))'
      <3> SUFFICES ASSUME NEW n \in registry'.names PROVE IsWhole(n)' \/ Saving(n)'
        OBVIOUS
      <3>1. CASE n = Name(p)
        BY <2>3, <3>1
      <3>2. CASE n # Name(p)
        <4>1. n \in registry.names /\ n \in Names \ {Name(p)}
          BY <2>1, <2>4, <3>2
        <4>2. IsWhole(n)
          BY <1>4, <1>7, <3>2, <4>1 DEF Registered
        <4> QED
          BY <2>2, <4>1, <4>2
      <3> QED
        BY <3>1, <3>2
    <2>6. faults = 0 => Name(p) \notin registry.names
      BY <1>4, <2>1 DEF Heals, HealsFresh
    <2>7. faults' = 0 => \A n \in registry'.names : (Fresh(n) \/ Judging(n))'
      BY <1>1, <1>4, <1>7, <2>1, <2>2, <2>4, <2>6 DEF Registered
    <2>8. Registered'
      BY <2>5, <2>7 DEF Registered
    <2>9. Written(p, saved[p])'
      <3>1. CASE SaveOpen(p)
        <4>1. saved' = saved /\ saved[p] \in 0..3
          BY <3>1 DEF SaveOpen, episode
        <4>2. ASSUME NEW i \in 1..4, i <= saved[p]
              PROVE  file'[Name(p)][Files[i]] = file[Name(p)][Files[i]]
          <5>1. Files[i] # Files[saved[p] + 1]
            BY <4>1, <4>2 DEF Files
          <5> QED
            BY <1>5, <3>1, <5>1, <4>2, FilesNamed DEF SaveOpen, NextSave, TypedDisk
        <4> QED
          BY <1>1, <1>4, <1>5, <2>1, <4>1, <4>2 DEF Written, Heals, HealsDisk
      <3>2. CASE SaveFill(p)
        <4>1. at[p] = "fill" /\ saved[p] \in 0..3 /\ saved'[p] = saved[p] + 1
          BY <3>2 DEF SaveFill, Local
        <4>2. ASSUME NEW i \in 1..4, i <= saved[p]
              PROVE  file'[Name(p)][Files[i]] = file[Name(p)][Files[i]]
          <5>1. Files[i] # Files[saved[p] + 1]
            BY <4>1, <4>2 DEF Files
          <5> QED
            BY <1>5, <3>2, <5>1, <4>2, FilesNamed DEF SaveFill, NextSave, TypedDisk
        <4>3. file'[Name(p)][Files[saved[p] + 1]] = Whole(made[p][Files[saved[p] + 1]])
          BY <1>5, <3>2, <4>1, FilesNamed DEF SaveFill, NextSave, TypedDisk
        <4>4. ASSUME NEW i \in 1..4, i <= saved[p] + 1
              PROVE  file'[Name(p)][Files[i]] = Whole(made[p][Files[i]])
          <5>1. CASE i <= saved[p]
            BY <1>4, <2>1, <4>2, <5>1 DEF Written, Heals, HealsDisk
          <5>2. CASE i = saved[p] + 1
            BY <4>3, <5>2
          <5> QED
            BY <4>1, <4>4, <5>1, <5>2
        <4> QED
          BY <1>1, <1>5, <4>1, <4>4 DEF Written
      <3> QED
        BY <1>8, <3>1, <3>2
    <2>10. Heals(p)'
      BY <1>1, <1>5, <2>1, <2>6, <2>9 DEF Heals, HealsDisk, HealsFresh, Reading
    <2> QED
      BY <1>3, <2>8, <2>10
  \* The bundle is complete.
  <1>9. CASE Saved(p)
    <2>1. at[p] = "save" /\ at'[p] = "register" /\ saved[p] = 4 /\ UNCHANGED disk
      BY <1>9 DEF Saved
    <2>2. \A n : IsWhole(n)' = IsWhole(n) /\ Fresh(n)' = Fresh(n)
      BY <2>1 DEF disk, IsWhole, Fresh, OnDisk
    <2>3. Written(p, 4)
      BY <1>4, <2>1 DEF Heals, HealsDisk
    <2>4. IsWhole(Name(p))
      BY <2>3 DEF Written, IsWhole, Whole
    <2>5. Registered'
      BY <1>1, <1>4, <1>7, <2>1, <2>2, <2>4 DEF Registered, disk
    <2>6. Written(p, 4)'
      BY <1>1, <1>5, <2>1, <2>3 DEF Written, disk
    <2>7. Heals(p)'
      BY <1>1, <1>4, <1>5, <2>1, <2>6 DEF Heals, HealsDisk, HealsFresh, Reading, disk
    <2> QED
      BY <1>3, <2>5, <2>7
  \* The registry is read, emptied and filled.
  <1>10. CASE Register(p)
    <2>1. /\ at[p] = "register" /\ at'[p] = "regopen" /\ UNCHANGED disk
          /\ copy'[p] = registry.names \cup {Name(p)}
      BY <1>10 DEF Register
    <2>2. \A n : IsWhole(n)' = IsWhole(n) /\ Fresh(n)' = Fresh(n)
      BY <2>1 DEF disk, IsWhole, Fresh, OnDisk
    <2>3. Registered'
      BY <1>1, <1>4, <1>7, <2>1, <2>2 DEF Registered, disk
    <2>4. Written(p, 4) /\ Written(p, 4)'
      BY <1>1, <1>4, <1>5, <2>1 DEF Heals, HealsDisk, Written, disk
    <2>5. IsWhole(Name(p))
      BY <2>4 DEF Written, IsWhole, Whole
    <2>6. \A n \in copy'[p] : IsWhole(n)'
      BY <1>4, <1>7, <2>1, <2>2, <2>5 DEF Registered
    <2>7. faults = 0 => \A n \in copy'[p] \ {Name(p)} : Fresh(n)'
      BY <1>4, <1>7, <2>1, <2>2 DEF Registered
    <2>8. Heals(p)'
      BY <1>1, <1>5, <2>1, <2>4, <2>6, <2>7 DEF Heals, HealsDisk, HealsFresh, Reading
    <2> QED
      BY <1>3, <2>3, <2>8
  <1>11. CASE RegistryOpen(p) \/ RegistryFill(p)
    <2>1. UNCHANGED <<file, verdict, copy>> /\ at[p] \in {"regopen", "regfill"}
      BY <1>11 DEF RegistryOpen, RegistryFill, episode
    <2>2. \A n : IsWhole(n)' = IsWhole(n) /\ Fresh(n)' = Fresh(n)
      BY <2>1 DEF IsWhole, Fresh, OnDisk
    <2>3. Written(p, 4)'
      BY <1>1, <1>4, <1>5, <2>1 DEF Heals, HealsDisk, Written
    <2>4. CASE RegistryOpen(p)
      <3>1. registry'.names = {} /\ at'[p] = "regfill"
        BY <2>4 DEF RegistryOpen
      <3>2. Heals(p)'
        BY <1>1, <1>4, <1>5, <2>1, <2>2, <2>3, <3>1 DEF Heals, HealsDisk, HealsFresh, Reading
      <3> QED
        BY <1>3, <3>1, <3>2 DEF Registered
    <2>5. CASE RegistryFill(p)
      <3>1. registry'.names = copy[p] /\ at'[p] = "verdict"
        BY <2>5 DEF RegistryFill
      <3>2. \A n : n = Name(p) => Judging(n)'
        BY <1>5, <3>1 DEF Judging
      <3>3. Registered'
        <4>1. \A n \in copy[p] : IsWhole(n)'
          BY <1>4, <2>1, <2>2 DEF Heals, HealsDisk
        <4>2. faults = 0 => \A n \in copy[p] \ {Name(p)} : Fresh(n)'
          BY <1>4, <2>1, <2>2 DEF Heals, HealsFresh
        <4>3. faults' = 0 => \A n \in copy[p] : Fresh(n)' \/ Judging(n)'
          BY <1>1, <3>2, <4>2
        <4> QED
          BY <3>1, <4>1, <4>3 DEF Registered
      <3>4. Heals(p)'
        BY <2>3, <3>1 DEF Heals, HealsDisk, HealsFresh, Reading
      <3> QED
        BY <1>3, <3>3, <3>4
    <2> QED
      BY <1>11, <2>4, <2>5
  \* The verdict is emptied and filled.
  <1>12. CASE VerdictOpen(p) \/ VerdictFill(p)
    <2>1. /\ UNCHANGED <<file, registry>> /\ at[p] \in {"verdict", "verdictfill"}
          /\ at'[p] \in {"verdictfill", "done"}
          /\ \A n \in Names \ {Name(p)} : verdict'[n] = verdict[n]
      BY <1>12 DEF VerdictOpen, VerdictFill, TypedDisk
    <2>2. /\ \A n : IsWhole(n)' = IsWhole(n) /\ OnDisk(n)' = OnDisk(n)
          /\ \A n \in Names \ {Name(p)} : Fresh(n)' = Fresh(n)
      BY <2>1 DEF IsWhole, Fresh, OnDisk
    <2>3. Written(p, 4) /\ Written(p, 4)'
      BY <1>1, <1>4, <1>5, <2>1 DEF Heals, HealsDisk, Written
    <2>4. (Fresh(Name(p)) \/ Judging(Name(p)))'
      <3>1. CASE VerdictOpen(p)
        BY <1>5, <3>1 DEF VerdictOpen, Judging
      <3>2. CASE VerdictFill(p)
        <4>1. verdict'[Name(p)] = Whole(made[p])
          BY <1>5, <3>2 DEF VerdictFill, TypedDisk
        <4>2. Files[1] = "skill" /\ Files[2] = "program" /\ Files[3] = "tests" /\ Files[4] = "verify"
          BY DEF Files
        <4>3. /\ file[Name(p)]["skill"] = Whole(made[p]["skill"])
              /\ file[Name(p)]["program"] = Whole(made[p]["program"])
              /\ file[Name(p)]["tests"] = Whole(made[p]["tests"])
              /\ file[Name(p)]["verify"] = Whole(made[p]["verify"])
          BY <2>3, <4>2 DEF Written
        <4>4. OnDisk(Name(p)) = made[p]
          BY <1>6, <4>3 DEF OnDisk, Whole, Compiled
        <4>5. IsWhole(Name(p))
          BY <2>3 DEF Written, IsWhole, Whole
        <4>6. IsWhole(Name(p))' /\ OnDisk(Name(p))' = made[p] /\ verdict'[Name(p)'] = Whole(made[p])
          BY <1>5, <2>1, <4>1, <4>4, <4>5 DEF IsWhole, OnDisk
        <4> QED
          BY <4>6 DEF Fresh
      <3> QED
        BY <1>12, <3>1, <3>2
    <2>5. registry.names \subseteq Names
      BY DEF TypedDisk
    <2>6. Registered'
      BY <1>1, <1>4, <1>5, <1>7, <2>1, <2>2, <2>4, <2>5 DEF Registered
    <2>7. Heals(p)'
      BY <2>1, <2>3 DEF Heals, HealsDisk, HealsFresh, Reading
    <2> QED
      BY <1>3, <2>6, <2>7
  <1> QED
    BY <1>8, <1>9, <1>10, <1>11, <1>12 DEF Writes

\* Starts, ends and the crash.
LEMMA LivesHealthy ==
    ASSUME IInv, Healthy, NEW p \in Procs, Lives(p)
    PROVE  Healthy'
  <1> SUFFICES ASSUME Healing'
               PROVE  /\ Healing /\ Registered' /\ Heals(p)'
                      /\ Others(p) \/ UNCHANGED <<disk, faults>>
    BY Framed, HealthyStep
  <1> USE DEF Goes, IInv, Typed, TypedProcs
  <1>1. UNCHANGED <<disk, overlap>> /\ Frame(p) /\ at'[p] \in Resting
    <2>1. UNCHANGED <<disk, overlap>> /\ at'[p] \in Resting
      BY DEF Lives, Start, Proceed, Exit, Crash, history, Resting
    <2> QED
      BY <2>1, Framed
  <1>2. Heals(p)'
    BY <1>1 DEF Heals, HealsDisk, HealsFresh, Resting, Reading
  <1>3. CASE ~Crash(p)
    <2>1. Quiet(p)
      BY <1>1, <1>3 DEF Quiet, Lives, Start, Proceed, Exit, history
    <2>2. Healing
      BY <1>1, <2>1 DEF Healing, Quiet
    <2>3. Registered'
      BY <2>1, <2>2, RegisteredKept DEF Healthy
    <2> QED
      BY <1>2, <2>1, <2>2, <2>3 DEF Quiet
  <1>4. CASE Crash(p)
    <2>1. faults = 0 /\ faults' = 1
      BY <1>4 DEF Crash, Healing, TypedHistory
    <2>2. Healing /\ Others(p)
      BY <1>1, <1>4, <2>1, OnItsOwn DEF Crash, Busy, Resting, Healing
    <2>3. Registered /\ Heals(p)
      BY <2>2 DEF Healthy
    <2>4. \A n \in registry.names : ~Saving(n)
      BY <2>1, <2>2, <2>3 DEF Saving, Others, Resting, Heals, HealsFresh
    <2>5. \A n \in registry'.names : IsWhole(n)'
      BY <1>1, <2>3, <2>4 DEF Registered, IsWhole, disk
    <2> QED
      BY <1>2, <2>1, <2>2, <2>5 DEF Registered
  <1> QED
    BY <1>3, <1>4

\* While registry.json is not JSON, in a write or after a crash in it, the
\* bundles reported as admitted are complete and nobody comes as far as to
\* write one.
Sunk == Healing /\ registry.state = "torn" =>
    /\ \A n \in promised : IsWhole(n)
    /\ \A p \in Procs : at[p] \in Resting \cup {"try", "raised", "regfill"}

\* Every step keeps it so.
LEMMA SunkStep ==
    ASSUME IInv, Healthy, Sunk, [Next]_vars
    PROVE  Sunk'
  <1> SUFFICES ASSUME Healing', registry'.state = "torn"
               PROVE  /\ \A n \in promised' : IsWhole(n)'
                      /\ \A q \in Procs : at'[q] \in Resting \cup {"try", "raised", "regfill"}
    BY DEF Sunk
  <1> USE DEF IInv, Typed, TypedProcs
  <1>1. CASE UNCHANGED vars
    BY <1>1 DEF vars, disk, episode, history, Healing, Sunk, IsWhole, Resting
  <1>2. ASSUME NEW p \in Procs, RegistryOpen(p)
        PROVE  /\ \A n \in promised' : IsWhole(n)'
               /\ \A q \in Procs : at'[q] \in Resting \cup {"try", "raised", "regfill"}
    <2>1. at[p] = "regopen" /\ at' = [at EXCEPT ![p] = "regfill"] /\ UNCHANGED <<file, promised, overlap, faults>>
      BY <1>2 DEF RegistryOpen, Goes, history
    <2>2. Others(p) /\ Healing
      BY <2>1, OnItsOwn DEF Busy, Resting, Healing
    <2>3. promised \subseteq copy[p] /\ \A n \in copy[p] : IsWhole(n)
      BY <2>1, <2>2 DEF Solo, Healthy, Healing, Heals, HealsDisk
    <2> QED
      BY <2>1, <2>2, <2>3 DEF IsWhole, Others
  <1>3. ASSUME NEW p \in Procs, Solves(p) \/ Admits(p) \/ Writes(p) \/ Lives(p), ~RegistryOpen(p)
        PROVE  /\ \A n \in promised' : IsWhole(n)'
               /\ \A q \in Procs : at'[q] \in Resting \cup {"try", "raised", "regfill"}
    <2> USE DEF Goes, disk, episode, history
    <2>1. registry' = registry
      <3>1. CASE Solves(p)
        BY <3>1 DEF Solves, Begin, UseSkill, SolveAfresh, RegistryRaises, ReadFile, ReadRaises, TakeProgram
      <3>2. CASE Admits(p)
        BY <3>2 DEF Admits, EndPlain, Reload, NotUsed, KeepAdmission, Readmit, Reject, Admit
      <3>3. CASE Writes(p)
        BY <1>3, <3>3 DEF Writes, SaveOpen, SaveFill, Saved, Register, RegistryFill, VerdictOpen, VerdictFill
      <3>4. CASE Lives(p)
        BY <3>4 DEF Lives, Start, Proceed, Exit, Crash
      <3> QED
        BY <1>3, <3>1, <3>2, <3>3, <3>4
    <2>2. Healing
      <3>1. overlap => overlap'
        BY <1>3 DEF Solves, Begin, UseSkill, SolveAfresh, RegistryRaises, ReadFile, ReadRaises, TakeProgram,
             Admits, EndPlain, Reload, NotUsed, KeepAdmission, Readmit, Reject, Admit,
             Writes, SaveOpen, SaveFill, Saved, Register, RegistryOpen, RegistryFill, VerdictOpen,
             VerdictFill, Lives, Start, Proceed, Exit, Crash
      <3>2. faults' = faults \/ faults' = faults + 1
        BY <1>3 DEF Solves, Begin, UseSkill, SolveAfresh, RegistryRaises, ReadFile, ReadRaises, TakeProgram,
             Admits, EndPlain, Reload, NotUsed, KeepAdmission, Readmit, Reject, Admit,
             Writes, SaveOpen, SaveFill, Saved, Register, RegistryOpen, RegistryFill, VerdictOpen,
             VerdictFill, Lives, Start, Proceed, Exit, Crash
      <3> QED
        BY <3>1, <3>2 DEF Healing, TypedHistory
    <2>3. /\ \A n \in promised : IsWhole(n)
          /\ \A q \in Procs : at[q] \in Resting \cup {"try", "raised", "regfill"}
      BY <2>1, <2>2 DEF Sunk
    <2>4. ~Admits(p) /\ ~Writes(p)
      <3>1. at[p] \in Resting \cup {"try", "raised", "regfill"}
        BY <2>3
      <3>2. Admits(p) => at[p] \in {"judge", "reread", "compile"}
        BY DEF Admits, EndPlain, Reload, NotUsed, KeepAdmission, Readmit, Reject, Admit
      <3>3. SaveOpen(p) \/ SaveFill(p) \/ Saved(p) \/ Register(p) \/ VerdictOpen(p) \/ VerdictFill(p)
              => at[p] \in {"save", "fill", "register", "verdict", "verdictfill"}
        BY DEF SaveOpen, SaveFill, Saved, Register, VerdictOpen, VerdictFill
      <3>4. ~RegistryFill(p)
        BY DEF RegistryFill
      <3> QED
        BY <1>3, <3>1, <3>2, <3>3, <3>4 DEF Writes, Resting
    <2>5. UNCHANGED <<file, promised>> /\ at'[p] \in Resting \cup {"try", "raised"}
      <3>1. CASE Solves(p)
        <4>1. UNCHANGED <<file, promised>>
          BY <3>1 DEF Solves, Begin, UseSkill, SolveAfresh, RegistryRaises, ReadFile, ReadRaises, TakeProgram
        <4> QED
          BY <2>1, <2>3, <3>1, <4>1 DEF Solves, Begin, UseSkill, SolveAfresh, RegistryRaises, ReadFile,
             ReadRaises, TakeProgram, Reading, Resting
      <3>2. CASE Lives(p)
        BY <3>2 DEF Lives, Start, Proceed, Exit, Crash, Resting
      <3> QED
        BY <1>3, <2>4, <3>1, <3>2
    <2>6. ASSUME NEW q \in Procs \ {p} PROVE at'[q] = at[q]
      BY <1>3, Framed DEF Frame
    <2> QED
      BY <2>3, <2>5, <2>6 DEF IsWhole
  <1> QED
    BY <1>1, <1>2, <1>3 DEF Next

\* One crash, wherever it comes, leaves the bundle of every skill that is
\* registered or was reported as admitted complete, or about to be
\* (_maybe_auto_skill, save_bundle, register_skill); after a crash in the
\* registry's own write the bundles are complete, but no lookup reaches them.
THEOREM CrashSparesBundles == Spec => []OneCrashSparesBundles
  <1>1. Init => Healthy
    BY DEF Init, Healthy, Registered, Heals, HealsDisk, HealsFresh, Reading
  <1>2. IInv /\ Healthy /\ [Next]_vars => Healthy'
    <2> SUFFICES ASSUME IInv, Healthy, [Next]_vars PROVE Healthy'
      OBVIOUS
    <2>1. CASE UNCHANGED vars
      <3> USE <2>1 DEF vars, disk, episode, history
      <3>1. ASSUME Healing' PROVE Registered'
        <4>1. Registered
          BY <3>1 DEF Healing, Healthy
        <4>2. \A n : /\ IsWhole(n)' = IsWhole(n) /\ Fresh(n)' = Fresh(n)
                     /\ Saving(n)' = Saving(n) /\ Judging(n)' = Judging(n)
          BY DEF IsWhole, Fresh, OnDisk, Saving, Judging, Name
        <4> QED
          BY <4>1, <4>2 DEF Registered
      <3>2. ASSUME Healing', NEW p \in Procs PROVE Heals(p)'
        <4>1. Heals(p)
          BY <3>2 DEF Healing, Healthy
        <4> QED
          BY <4>1, FilesStay
      <3> QED
        BY <3>1, <3>2 DEF Healthy
    <2>2. CASE Next
      BY <2>2, SolvesHealthy, AdmitsHealthy, WritesHealthy, LivesHealthy DEF Next
    <2> QED
      BY <2>1, <2>2
  <1>3. Init => Sunk
    BY DEF Init, Sunk
  <1>4. IInv /\ Healthy /\ Sunk => OneCrashSparesBundles
    <2> SUFFICES ASSUME IInv, Healthy, Sunk, Healing, NEW n \in registry.names \cup promised
                 PROVE  Saving(n) \/ Complete(n)
      BY DEF OneCrashSparesBundles, Healing
    <2>1. IsWhole(n) => Complete(n)
      BY DEF IsWhole, Complete
    <2>2. CASE n \in registry.names
      BY <2>1, <2>2 DEF Healthy, Registered
    <2>3. CASE n \in promised /\ registry.state = "torn"
      BY <2>1, <2>3 DEF Sunk
    <2>4. CASE n \in promised /\ registry.state # "torn"
      <3>1. registry.state = "whole"
        BY <2>4 DEF IInv, Typed, TypedDisk
      <3>2. n \in registry.names
        BY <2>4, <3>1 DEF IInv, AdmittedStay, Healing
      <3> QED
        BY <2>2, <3>2
    <2> QED
      BY <2>2, <2>3, <2>4
  <1> QED
    BY Inductive, SunkStep, <1>1, <1>2, <1>3, <1>4, PTL DEF Spec
=============================================================================
