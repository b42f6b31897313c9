------------------------------- MODULE Skills -------------------------------
(***************************************************************************)
(* Skills: a BVPS episode looks for a registered skill before it searches, *)
(* and with EIDOLON_AUTO_SKILLS one that ends with a good program compiles *)
(* it, puts it through the gates, and saves and registers it for the       *)
(* episodes to come.  A bundle is four files, the registry one file of all *)
(* skills and the admission verdict one file per name; each is written in  *)
(* place, emptied first, and processes take no lock.                       *)
(***************************************************************************)
EXTENDS Naturals, Sequences

CONSTANTS Procs,          \* processes that run episodes
          Specs,          \* BVPS tasks, records with a name
          Programs,
          Triggered(_),   \* the names that a task's name and prompt contain
          FirstName(_),   \* the one of some names that sorts first
          Answer(_),      \* the program found for a task without a skill
          Accepts(_, _),  \* the lanes pass a program for a task
          Gates(_, _),    \* the admission gates pass a task's program
          Reverify,       \* EIDOLON_ADMISSION_REVERIFY = "1"
          NoName,
          MaxFaults, MaxEpisodes   \* bounds on crashes and on episodes

Names == {s.name : s \in Specs}

ASSUME NameAssumption  == NoName \notin Names
ASSUME FirstAssumption == \A S \in SUBSET Names : S # {} => FirstName(S) \in S
ASSUME LimitAssumption == /\ MaxFaults \in Nat /\ MaxEpisodes \in Nat
                          /\ Reverify \in BOOLEAN
ASSUME TriggerAssumption == \A s \in Specs : s.name \in Triggered(s)
ASSUME TaskAssumption  == Specs # {} /\ \A s \in Specs : Answer(s) \in Programs

\* The files of a bundle, in the order in which save_bundle writes them and
\* read_skill_bundle reads them.
Files == <<"skill", "program", "tests", "verify">>

\* What compile_skill_from_bvps makes of a task in episode n.
Compiled(s, program, n) ==
    [skill   |-> [spec |-> s, program |-> program, episode |-> n],
     program |-> program,
     tests   |-> s,
     verify  |-> "require_all"]

Bundles == {Compiled(s, g, n) : s \in Specs, g \in Programs, n \in 1..MaxEpisodes}

\* A file that is not there, is half-written, or holds a value.
Absent   == [state |-> "absent"]
Torn     == [state |-> "torn"]
Whole(v) == [state |-> "whole", value |-> v]

NoBundle == [state |-> "none"]

VARIABLES registry,   \* skills/registry.json: the names registered
          file,       \* the files of each name's bundle
          verdict,    \* skills/<name>/admission_verdict.json: the bundle admitted
          at,         \* where each process is in its episode
          auto,       \* EIDOLON_AUTO_SKILLS = "1"
          task, number,   \* the episode's task and its id
          used,       \* the skill it uses
          got,        \* what it has read of the bundle
          program,    \* its program
          made,       \* the bundle compiled
          saved,      \* how many of its files are written
          copy,       \* the registry in memory
          admitted,   \* the bundle that the episode reports as admitted
          passed,     \* history: bundles that passed the gates
          promised,   \* history: names reported as admitted
          episodes, faults,
          overlap     \* history: two episodes have run at the same time

disk    == <<registry, file, verdict>>
episode == <<auto, task, number, used, got, program, made, saved, copy, admitted>>
history == <<passed, promised, episodes, faults, overlap>>
vars    == <<disk, at, episode, history>>

Resting == {"down", "idle"}

Idle == CHOOSE s \in Specs : TRUE

Init ==
    /\ registry = [state |-> "whole", names |-> {}]
    /\ file = [n \in Names |-> [f \in {Files[i] : i \in 1..4} |-> Absent]]
    /\ verdict = [n \in Names |-> Absent]
    /\ at = [p \in Procs |-> "down"]
    /\ auto = [p \in Procs |-> FALSE]
    /\ task = [p \in Procs |-> Idle]
    /\ number = [p \in Procs |-> 0]
    /\ used = [p \in Procs |-> NoName]
    /\ got = [p \in Procs |-> <<>>]
    /\ program = [p \in Procs |-> Answer(Idle)]
    /\ made = [p \in Procs |-> NoBundle]
    /\ saved = [p \in Procs |-> 0]
    /\ copy = [p \in Procs |-> {}]
    /\ admitted = [p \in Procs |-> NoBundle]
    /\ passed = {} /\ promised = {}
    /\ episodes = 0 /\ faults = 0
    /\ overlap = FALSE

Goes(p, from, to) ==
    /\ at[p] = from
    /\ at' = [at EXCEPT ![p] = to]

Start(p, a) ==
    /\ Goes(p, "down", "idle")
    /\ auto' = [auto EXCEPT ![p] = a]
    /\ UNCHANGED <<disk, task, number, used, got, program, made, saved, copy, admitted, history>>

Begin(p, s) ==
    /\ episodes < MaxEpisodes
    /\ Goes(p, "idle", "try")
    /\ episodes' = episodes + 1
    /\ task' = [task EXCEPT ![p] = s]
    /\ number' = [number EXCEPT ![p] = episodes + 1]
    /\ overlap' = (overlap \/ \E q \in Procs \ {p} : at[q] \notin Resting)
    /\ UNCHANGED <<disk, auto, used, got, program, made, saved, copy, admitted,
                   passed, promised, faults>>

-----------------------------------------------------------------------------
\* _skill_matches: the trigger of a skill is its name.
Matching(s) == registry.names \cap Triggered(s)

\* _try_skill_for_bvps: the first match by name is taken.  A registered bundle
\* has its directory; what an earlier admission says only decides what is
\* recorded as an artifact.
UseSkill(p) ==
    /\ registry.state = "whole"
    /\ Matching(task[p]) # {}
    /\ Goes(p, "try", "read")
    /\ used' = [used EXCEPT ![p] = FirstName(Matching(task[p]))]
    /\ UNCHANGED <<disk, auto, task, number, got, program, made, saved, copy, admitted, history>>

\* No skill matches: _solve_bvps.
SolveAfresh(p) ==
    /\ registry.state = "whole"
    /\ Matching(task[p]) = {}
    /\ Goes(p, "try", "judge")
    /\ program' = [program EXCEPT ![p] = Answer(task[p])]
    /\ UNCHANGED <<disk, auto, task, number, used, got, made, saved, copy, admitted, history>>

\* The registry is read, again before it is changed: one that is not JSON
\* raises out of the episode.
RegistryRaises(p) ==
    /\ registry.state = "torn"
    /\ at[p] \in {"try", "register"}
    /\ at' = [at EXCEPT ![p] = "raised"]
    /\ UNCHANGED <<disk, episode, history>>

Reading == {"read", "reread"}

NextFile(p) == file[used[p]][Files[Len(got[p]) + 1]]

\* read_skill_bundle, file by file.
ReadFile(p) ==
    /\ at[p] \in Reading /\ Len(got[p]) < 4
    /\ NextFile(p).state = "whole"
    /\ got' = [got EXCEPT ![p] = Append(@, NextFile(p).value)]
    /\ UNCHANGED <<disk, at, auto, task, number, used, program, made, saved, copy, admitted, history>>

ReadRaises(p) ==
    /\ at[p] \in Reading /\ Len(got[p]) < 4
    /\ NextFile(p).state # "whole"
    /\ at' = [at EXCEPT ![p] = "raised"]
    /\ UNCHANGED <<disk, episode, history>>

Loaded(p) == [skill |-> got[p][1], program |-> got[p][2], tests |-> got[p][3], verify |-> got[p][4]]

\* The skill's program is the solution.
TakeProgram(p) ==
    /\ Len(got[p]) = 4
    /\ Goes(p, "read", "judge")
    /\ program' = [program EXCEPT ![p] = Loaded(p).program]
    /\ UNCHANGED <<disk, auto, task, number, used, got, made, saved, copy, admitted, history>>

-----------------------------------------------------------------------------
\* The lanes have judged the program; without EIDOLON_AUTO_SKILLS that is all.
EndPlain(p) ==
    /\ ~auto[p]
    /\ Goes(p, "judge", "done")
    /\ UNCHANGED <<disk, episode, history>>

\* _maybe_auto_skill loads the bundle of the used skill a second time.
Reload(p) ==
    /\ auto[p] /\ used[p] # NoName
    /\ Goes(p, "judge", "reread")
    /\ got' = [got EXCEPT ![p] = <<>>]
    /\ UNCHANGED <<disk, auto, task, number, used, program, made, saved, copy, admitted, history>>

NotUsed(p) ==
    /\ auto[p] /\ used[p] = NoName
    /\ Goes(p, "judge", "compile")
    /\ UNCHANGED <<disk, episode, history>>

\* Fault: only the hash of skill.json is compared.
AdmittedBySpec(p) ==
    /\ ~Reverify
    /\ verdict[used[p]].state = "whole"
    /\ verdict[used[p]].value.skill = Loaded(p).skill

\* _load_existing_admission: the verdict names the bundle, whole, by its hash.
AdmittedBefore(p) ==
    /\ ~Reverify
    /\ verdict[used[p]] = Whole(Loaded(p))

\* The bundle is reported as admitted; no gate runs.
KeepAdmission(p) ==
    /\ Len(got[p]) = 4
    /\ AdmittedBefore(p)
    /\ Goes(p, "reread", "done")
    /\ admitted' = [admitted EXCEPT ![p] = Loaded(p)]
    /\ UNCHANGED <<disk, auto, task, number, used, got, program, made, saved, copy, history>>

Readmit(p) ==
    /\ Len(got[p]) = 4
    /\ ~AdmittedBefore(p)
    /\ Goes(p, "reread", "compile")
    /\ UNCHANGED <<disk, episode, history>>

\* compile_skill_from_bvps wants the lanes' PASS; admit_skill runs the gates.
Reject(p) ==
    /\ ~Accepts(task[p], program[p]) \/ ~Gates(task[p], program[p])
    /\ Goes(p, "compile", "done")
    /\ UNCHANGED <<disk, episode, history>>

Admit(p) ==
    /\ Accepts(task[p], program[p]) /\ Gates(task[p], program[p])
    /\ Goes(p, "compile", "save")
    /\ made' = [made EXCEPT ![p] = Compiled(task[p], program[p], number[p])]
    /\ passed' = passed \cup {Compiled(task[p], program[p], number[p])}
    /\ UNCHANGED <<disk, auto, task, number, used, got, program, saved, copy, admitted,
                   promised, episodes, faults, overlap>>

-----------------------------------------------------------------------------
Name(p) == task[p].name

NextSave(p) == Files[saved[p] + 1]

\* save_bundle: each file is emptied, then filled.
SaveOpen(p) ==
    /\ saved[p] < 4
    /\ Goes(p, "save", "fill")
    /\ file' = [file EXCEPT ![Name(p)][NextSave(p)] = Torn]
    /\ UNCHANGED <<registry, verdict, episode, history>>

SaveFill(p) ==
    /\ Goes(p, "fill", "save")
    /\ file' = [file EXCEPT ![Name(p)][NextSave(p)] = Whole(made[p][NextSave(p)])]
    /\ saved' = [saved EXCEPT ![p] = @ + 1]
    /\ UNCHANGED <<registry, verdict, auto, task, number, used, got, program, made, copy,
                   admitted, history>>

\* Fault: the skill is registered before its bundle is there.
SavedEarly(p) ==
    /\ saved[p] < 4
    /\ Goes(p, "save", "register")
    /\ UNCHANGED <<disk, episode, history>>

Saved(p) ==
    /\ saved[p] = 4
    /\ Goes(p, "save", "register")
    /\ UNCHANGED <<disk, episode, history>>

\* Fault: the registry is written from nothing.
RegisterAlone(p) ==
    /\ registry.state = "whole"
    /\ Goes(p, "register", "regopen")
    /\ copy' = [copy EXCEPT ![p] = {Name(p)}]
    /\ UNCHANGED <<disk, auto, task, number, used, got, program, made, saved, admitted, history>>

\* register_skill: load and register ...
Register(p) ==
    /\ registry.state = "whole"
    /\ Goes(p, "register", "regopen")
    /\ copy' = [copy EXCEPT ![p] = registry.names \cup {Name(p)}]
    /\ UNCHANGED <<disk, auto, task, number, used, got, program, made, saved, admitted, history>>

\* ... and save.
RegistryOpen(p) ==
    /\ Goes(p, "regopen", "regfill")
    /\ registry' = [state |-> "torn", names |-> {}]
    /\ UNCHANGED <<file, verdict, episode, history>>

RegistryFill(p) ==
    /\ Goes(p, "regfill", "verdict")
    /\ registry' = [state |-> "whole", names |-> copy[p]]
    /\ UNCHANGED <<file, verdict, episode, history>>

\* _write_admission_verdict
VerdictOpen(p) ==
    /\ Goes(p, "verdict", "verdictfill")
    /\ verdict' = [verdict EXCEPT ![Name(p)] = Torn]
    /\ UNCHANGED <<registry, file, episode, history>>

VerdictFill(p) ==
    /\ Goes(p, "verdictfill", "done")
    /\ verdict' = [verdict EXCEPT ![Name(p)] = Whole(made[p])]
    /\ admitted' = [admitted EXCEPT ![p] = made[p]]
    /\ promised' = promised \cup {Name(p)}
    /\ UNCHANGED <<registry, file, auto, task, number, used, got, program, made, saved, copy,
                   passed, episodes, faults, overlap>>

-----------------------------------------------------------------------------
\* What an episode held in memory goes with it.
Forget(p) ==
    /\ task' = [task EXCEPT ![p] = Idle]
    /\ number' = [number EXCEPT ![p] = 0]
    /\ used' = [used EXCEPT ![p] = NoName]
    /\ got' = [got EXCEPT ![p] = <<>>]
    /\ program' = [program EXCEPT ![p] = Answer(Idle)]
    /\ made' = [made EXCEPT ![p] = NoBundle]
    /\ saved' = [saved EXCEPT ![p] = 0]
    /\ copy' = [copy EXCEPT ![p] = {}]
    /\ admitted' = [admitted EXCEPT ![p] = NoBundle]

\* The process goes on with its next episode ...
Proceed(p) ==
    /\ Goes(p, "done", "idle")
    /\ Forget(p)
    /\ UNCHANGED <<disk, auto, history>>

\* ... or ends between two, or with the exception that ended one.
Exit(p) ==
    /\ at[p] \in {"idle", "done", "raised"}
    /\ at' = [at EXCEPT ![p] = "down"]
    /\ auto' = [auto EXCEPT ![p] = FALSE]
    /\ Forget(p)
    /\ UNCHANGED <<disk, history>>

\* It dies in the middle of an episode.
Crash(p) ==
    /\ at[p] \notin {"down", "idle", "done", "raised"}
    /\ faults < MaxFaults
    /\ faults' = faults + 1
    /\ at' = [at EXCEPT ![p] = "down"]
    /\ auto' = [auto EXCEPT ![p] = FALSE]
    /\ Forget(p)
    /\ UNCHANGED <<disk, passed, promised, episodes, overlap>>

Solves(p) ==
    \/ \E s \in Specs : Begin(p, s)
    \/ UseSkill(p) \/ SolveAfresh(p) \/ RegistryRaises(p)
    \/ ReadFile(p) \/ ReadRaises(p) \/ TakeProgram(p)

Admits(p) ==
    \/ EndPlain(p) \/ Reload(p) \/ NotUsed(p)
    \/ KeepAdmission(p) \/ Readmit(p) \/ Reject(p) \/ Admit(p)

Writes(p) ==
    \/ SaveOpen(p) \/ SaveFill(p) \/ Saved(p)
    \/ Register(p) \/ RegistryOpen(p) \/ RegistryFill(p)
    \/ VerdictOpen(p) \/ VerdictFill(p)

Lives(p) == (\E a \in BOOLEAN : Start(p, a)) \/ Proceed(p) \/ Exit(p) \/ Crash(p)

Next == \E p \in Procs : Solves(p) \/ Admits(p) \/ Writes(p) \/ Lives(p)

Spec == Init /\ [][Next]_vars

-----------------------------------------------------------------------------
\* Types of the variables that the properties below are about.
TypeOK ==
    /\ registry \in [state : {"torn", "whole"}, names : SUBSET Names]
    /\ \A n \in Names : verdict[n] \in {Absent, Torn} \cup {Whole(b) : b \in Bundles}
    /\ task \in [Procs -> Specs]
    /\ number \in [Procs -> 0..MaxEpisodes]
    /\ used \in [Procs -> Names \cup {NoName}]
    /\ program \in [Procs -> Programs]
    /\ made \in [Procs -> Bundles \cup {NoBundle}]
    /\ saved \in [Procs -> 0..4]
    /\ copy \in [Procs -> SUBSET Names]

\* A bundle that an episode reports as admitted passed the gates as a whole:
\* no interleaving of savers and readers, and no crash, passes off a bundle
\* mixed of two under the verdict of one.  If episodes run one after the other
\* the program reported is the one the episode answered with.
AdmittedAsAWhole ==
    \A p \in Procs : admitted[p] # NoBundle =>
        /\ admitted[p] \in passed
        /\ ~overlap => admitted[p].program = program[p]

Saving(n) ==
    \E p \in Procs : Name(p) = n /\ at[p] \in {"save", "fill"}

Complete(n) == \A i \in 1..4 : file[n][Files[i]].state = "whole"

\* One crash, wherever it comes, leaves no half-written bundle behind a skill
\* that is registered or was reported as admitted: what was cut short is saved
\* again before it is registered, or was complete.  It does not keep every skill
\* within reach: a crash in the write of registry.json leaves a file that is not
\* JSON, and although the bundles are complete every later lookup raises
\* (RegistryRaises).
OneCrashSparesBundles ==
    ~overlap /\ faults <= 1 /\ ~Reverify =>
        \A n \in registry.names \cup promised : Saving(n) \/ Complete(n)

\* Episodes that run one after the other keep each other's skills: whoever was
\* told that a skill is admitted finds it registered, unless a crash damaged
\* the registry itself.
AdmittedStay == ~overlap /\ registry.state = "whole" => promised \subseteq registry.names
=============================================================================
