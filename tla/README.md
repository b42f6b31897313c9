# EIDOLON v16: specification and proofs

EIDOLON v16 runs *episodes*: a task is interpreted and solved by a kernel, a search or
a skill, the solution is verified by four lanes, and the episode leaves a UCR (its
record), a witness packet, content-addressed artifacts and one event in each of two
hash-chained ledgers.  This directory holds TLA+ modules of that machinery, TLC runs
that check them on small instances, and TLAPS proofs of the properties that matter most
for every value of the constants.  Paths below are relative to `src/eidolon_v16/`.

    tlc -workers 2 -config LedgerDb.cfg LedgerDb.tla      # a run
    tlapm LedgerDbProofs.tla                              # the proofs of a module

`PROJECT.json` is the index: components, runs, the code lines each definition stands
for, hazards, findings, theorems, and for every checked property a *mutant*: a
plausible bug (operators marked `\* Fault:` in the modules) under which the run must
report that property violated.

## 1. Inventory

| Component | State it keeps | Operations | What makes it correct | Modelled by |
|---|---|---|---|---|
| SQLite ledger, `ledger/db.py` | table `events(seq, prev_hash, hash, ...)` | `append_event`, `verify_chain` | the chain verifies whoever appends; no event overwritten or shared | `LedgerDb`, `AppendLog` |
| JSON-lines ledger, `ledger/chain.py` | `ledger.chain.jsonl` | `append_event`, `verify_chain` | sequential appends verify; a lost event is always noticed | `LedgerChain` |
| Artifact store, `artifacts/store.py` | blobs, metadata, `manifest.json`; per object a manifest cache, dirty flag, flush mode | `put_bytes`, `put_json`, `load_manifest`, `flush_manifest`, `set_manifest_flush_mode` | a listing has its artifact; one entry per hash; nothing stored is unlisted | `ArtifactStore` |
| Evaluation drivers, `eval/open_eval.py`, `sealed_eval.py`, `suite.py` | a store object, the episodes' outputs, a report | one command: episodes, report, flush | outputs of finished episodes stay listed | `EvalDrivers` (not the reports' statistics) |
| Episode controller, `orchestrator/controller.py` | run directory, UCR, artifacts, ledger events | `run` | fail-closed answers; events backed by files and artifacts; records final | `Episode`, `Solve`, `BvpsCache`, `Skills` |
| BVPS synthesis, `bvps/cegis.py`, `interp.py`, `enumerate.py`, `ast.py` | examples, counterexamples, budget | `try_fastpath`, `synthesize`, `enumerate_programs`, `evaluate` | returns the first program that satisfies the specification; enumeration overlooks none | `Bvps`, `Expressions`, `Semantics`, `Enumerate`, `Solve` |
| BVPS caches, `bvps/cache.py` | memory map, persistent store | preload, lookup, put | a hit is a program that the search would find for the same specification and macros | `BvpsCache` |
| Verification lanes, `verify/lanes.py` | evidence artifacts | recompute, translation, consequence, anchors | what passes is right; what is right is not refused | `Kernel` (arith, list, world), `Bvps` (BVPS), `Solve` (types) |
| Kernels, `kernel/`, `kernels/` | a service | interpret, propose | the stub's proposals are right; a model may propose anything | `Kernel` |
| Legacy list synthesis, `bvps/synth.py`, `interpreter.py` | examples, extended in place | `synthesize_program` | a template consistent with its examples; the same one again in the lane | `Kernel` |
| World lab, `worldlab/` | agent's cell | `step`, `run_rollout` | a plan that passes reaches the goal | `Kernel` |
| Skills, `skills/` | registry JSON, bundle files, admission verdicts | save, register, match, load, admit | what is reported as admitted passed its gates as a whole; nothing admitted is lost | `Skills` (gates are a parameter) |
| Language patches, `language/` | registry JSON | register, load, expand | expansion ends; an episode's macros are those of one registry | `BvpsCache`, `Semantics` |
| UCR models and canonical JSON, `ucr/`, `json_canon.py` | none | canonical bytes | equal data, equal bytes | no: taken as injective hashing |
| Run artifact manifest, capsules runner, task generators, runtime and command line, scripts and tools | none of their own | listing, packing, set-up, reporting | | no: pure I/O or pure functions |

How they interact.  A driver (or the command line) calls `EpisodeController.run`; the
controller calls a skill, the BVPS caches and search, or the kernel for a solution, puts
artifacts into the store, hands the solution to the lanes (which put evidence), decides,
may compile, admit and register a skill, puts the UCR, flushes the store's manifest,
writes `ucr.json` and `witness.json`, then appends to the SQLite ledger and to the
JSON-lines ledger.  Everything in one process is a plain call sequence.  What is shared
is the file system: several processes may work on one store, one ledger, one set of
registries and one `runs/` directory, and only SQLite locks.  Inside one process several
store objects may exist on one directory.

Behaviours that are hard to test: two appends that overlap; writes cut off by a crash
and what the next call makes of the rest; caches and registries that were read before
somebody else wrote; bundles of several files, loaded twice in one episode; the pipeline
stopping between two records that should agree; directory names tested and then taken; a
search whose memory (counterexamples) must prune without changing its answer; oracles and
macros that raise where nobody catches; examples that are changed in place and used
again; a planner that may plan for ever.  Each is listed under `hazards` in
`PROJECT.json` at its line, with the properties that cover it.

## 2. Modules and the code

**`LedgerDb`** (`ledger/db.py`).  `append_event` is `SelectLatest` (autocommit read and
computation of the new row), `Insert` (opens the transaction and takes SQLite's write
lock), `Commit`, `Return`; `InsertConflict` is the IntegrityError of a key that was
taken in between, `InsertBusy` the busy timeout, `Crash` a process that dies, with
rollback.  `VerifyChain` is `verify_chain`.  SQLite itself (lock, atomic commit,
PRIMARY KEY) is taken at its documented behaviour.  `AppendLog` is the abstract
specification: a sequence and a set of receipts; one step appends one body, and
receipts are given once for what is in the log.  `LedgerDb` implements it with
`log <- [s \in DOMAIN events |-> events[s].body]`.

**`LedgerChain`** (`ledger/chain.py`).  `ReadLast` reads the last hash out of the last
4096 bytes (a damaged or wide last line raises: the guard `LastLineParses`), `Write`
appends one line, `Crash` leaves nothing, a piece, a line without newline or all of it.
`AppendText` says what append mode does to a file that does not end in a newline.

**`ArtifactStore`** (`artifacts/store.py`).  One program counter per store object; a
write is two steps, opening (which empties the file) and filling.  `PutBytes` /
`OpenBlob` / `FillBlob` / `WriteMeta` / `ListDeferred` or `ListNow` are `put_bytes`,
then `OpenManifest` / `FillManifest` are `write_manifest`; `FlushManifest`,
`FlushNothing`, `SetManifestFlushMode`, `Open`, `Close` the other calls;
`ListRaises`, `WriteFails` (before or after a file was opened), `Crash` the failures.  History variables record what puts
returned for (`owed`), where faults hit blobs and whether objects were ever open at once.

**`EvalDrivers`** extends `ArtifactStore` and runs its objects through the three
evaluation commands: `Outer` is the driver's object, `Inner` the one
`controller.run` makes for an episode (a suite passes its own instead).  Both are made in
the flush mode of the environment (`envMode`, one of `FlushModes`), which `run_suite`
replaces for its own.  The steps named after store calls start them; `StoreStep` lets them
go on.

**`Episode`** (`orchestrator/controller.py`).  The pipeline of `run`, by several
processes and again after failures: `TryNextName` / `TakeName` / `MakeDir` are
`_run_dir`; `OpenSolution` / `FillSolution` or `KeepSolution` put the solution (a blob
that exists is kept, whole or `torn`, and sinks other than the disk put none), or
`SolveRaises`; `Verify` (the lanes' verdicts are arbitrary) or `VerifyRaises`;
`SkipRepair` / `RepairRaises` (`_maybe_bvps_autorepair`), `DecideAndPack`, `PutUcr`,
`WriteUcr`, `WriteWitness`, `AppendDb`, `AppendChain`.  Whether a search or a lane raises
is `Bvps`'s matter; here the sets `Unsolvable` and `Unjudgeable` of tasks may, with no fault
of the surroundings.  Store and ledgers appear by what their own modules say of them:
artifacts are never removed, a torn blob is never repaired, and an append extends the ledger
or raises (`Fault`).  An episode's order of effects is its code's; artifacts that no
property tells apart are put in one step.  An episode that returned is `done`, one whose
own code raised `raised`, one that a fault stopped `failed`.

**`Expressions`** (`bvps/ast.py`, the operator orders of `bvps/enumerate.py`): expressions as
records, and the constants of a run's language.
**`Semantics`** (`bvps/interp.py`, `language/apply.py`, the type inference of
`verify/lanes.py`): what expressions mean.  `Eval` counts steps against the budget as the
interpreter does; `InferType`; `Expand` substitutes macro calls, to `Broken` where a macro is
unknown, takes other arguments or calls itself for ever; `Depth` and the sort key
`ExprKey`.  All are RECURSIVE operators, and only TLC uses the module.
**`Enumerate`** (`bvps/enumerate.py`): `Levels` lists the expressions of each depth in the
code's order: seeds first, then by rank, conditions and branches filtered, duplicates
dropped.  It uses no RECURSIVE operator: loops are functions of a position, a
concatenation of many lists puts neighbours together until one is left (`Joined`), and depth
and sort key are the parameters `DepthOf` and `KeyOf`.  `Grammar` is the unordered,
unfiltered reference.

**`Bvps`** (`bvps/cegis.py`, `bvps/interp.py`, the BVPS branches of `verify/lanes.py`, the
order of templates and enumeration from `_solve_bvps`).  A program is known by the
function `Run` that interpreting it gives; what is enumerated and what the seed draws are
arbitrary, so that its proofs hold for any order and any draws.  `Prepare` builds the
examples, `Reject`, `Refute`, `Accept`, `FuzzRaises`, `ExpandRaises` are the outcomes for
one candidate, `Exhausted` goes from templates to the enumeration or fails, `Verify` and
`VerifyRaises` are the recompute and consequence lanes on drawn inputs and their variants
(two values swapped, integers negated).  Python's `True == 1` and the interpreter's
refusal of a bool for an Int are modelled, as the variants meet both.

**`Kernel`** (`kernel/stub.py`, `kernel/http.py`, `kernels/llamacpp_kernel.py`,
`bvps/synth.py`, `worldlab/`, the other branches of `verify/lanes.py`, and
`_solve_task`, `_build_solution_payload`, `_decide` of the controller).  One arith, list
or world task.  `SolveDirectly` is the controller's own arithmetic or script,
`SolveByModel` a service that proposes anything of its kind, `ServiceFails` one that does
not answer, `SolveByStub` the stub, whose loops run action by action: `RejectTemplate`,
`RefuteTemplate`, `AcceptTemplate`, `FallBack` for `synthesize_program`, `PlanStep` and
`PlanDone` for the planner.  `Recompute`, `Translate` (which runs the same loops again, on
examples the first run has extended), `Consequence` and `Decide` are the lanes and the
decision; `GivesUp` is an exception that nobody catches.

**`Solve`** extends `Bvps`, `Kernel` and `Enumerate` and composes them: `route` says which
of the two an episode takes.  What expressions mean is a parameter (`Evaluates`, `Expands`,
`Infers`), which the run gives by the operators of `Semantics`.  Its assumptions tie the
abstract programs of `Bvps` to expressions: the order is what `Enumerate` lists with macros
expanded, the templates are `_fastpath_templates`, `Run` is what the interpreter computes,
`Translates` what type inference accepts.  TLC evaluates them for every task of the run.

**`BvpsCache`** (`bvps/cache.py`, the lookups and puts of `_solve_bvps`,
`_load_language_macros`, `language/registry.py`).  Each process has a memory cache and a
store object, `Store == INSTANCE ArtifactStore`, so that a put goes through every file
operation of that module.  `Preload`, `HitMem`, `HitPersist`, `Miss`, `LookupRaises`,
`Solve`, `Put`, `PutRaises` follow the code's lookup order; `AddLoad`, `AddOpen`, `AddFill`,
`AddDies` are a command that registers a language patch while episodes run.
The abstract specification is `CacheTransparent`: whatever the caches hold, the answer is
one of synthesis.

**`Skills`** (`skills/`, `_try_skill_for_bvps` and `_maybe_auto_skill` of the controller).
Every file is empty before it is full.  `UseSkill`, `ReadFile` (four times), `TakeProgram`
use a skill; `Reload` and `ReadFile` load it again after the lanes, `KeepAdmission` and
`Readmit` decide by the stored verdict whether the gates run again; `Admit`, `SaveOpen` /
`SaveFill` (four files), `Register`, `RegistryOpen` / `RegistryFill`, `VerdictOpen` /
`VerdictFill` compile, save and register.  `RegistryRaises`, `ReadRaises` are files that are
not JSON, `Crash` a process that dies anywhere.

**`*Proofs`** modules extend their module (`AnswerProofs`: `Solve`, and so `Bvps`, `Kernel` and
`Enumerate`) and hold the theorems; **`MC*`** modules give constants that a `.cfg` cannot.
Only `Semantics` and `MCSolve`, which extends it, use RECURSIVE operators.

## 3. Runs

| Run | Checks | Bounds and why they suffice |
|---|---|---|
| `ledger_db` | chain verifies; refinement of `AppendLog`; every append ends | 3 writers, 2 bodies, 3 rows: one in the transaction, one that will conflict, one that times out; equal bodies included |
| `ledger_chain` | sequential appends verify; no silent loss; damage is last; fail-stop | 2 writers, 3 lines, 2 crashes, one body wider than the window: a crash, an append on its remains, one more |
| `ledger_chain_fork` (finding) | `ChainVerifies` fails | as above without crashes |
| `artifact_store` | listings have artifacts; one entry per hash; torn blobs explained; caches equal the file; nothing unlisted; torn manifests stay | 2 objects, 2 contents, 2 types, 1 fault, symmetric: two objects interleave at every file operation on equal and on different content |
| `eval_drivers` | listings of suites and of undeferred open evaluations survive any commands; a suite writes at its end | 3 commands of up to 2 episodes with 2 kinds of artifact in any order, each in either flush mode, a fault anywhere, batch mode on and off |
| `sealed_eval` (finding) | `OutputsListed` fails | one sealed evaluation, mode per_episode, no fault |
| `episode` | events backed; ledgers agree; fail-closed; replayable unless torn; all records or none; records final; episodes end | 2 processes, 2 tasks (one whose search and lanes may raise), 2 episodes, 2 faults, both sinks, repair on and off: overlap on one task, rerun after a failure |
| `episode_repair` (finding) | `EveryEpisodeEmits` fails | one episode that is repaired, no fault |
| `solve` | the search is exact and overlooks nothing; counterexamples are new; right programs pass the lanes; answers of arith, list and world tasks are right; the stub's ordinary answers are not refused; every episode ends | expressions over `sub`, `lt`, 0 up to depth 2 with one or two parameters, with macros that are ill-typed or call themselves; integers -1..2 (an asymmetric range), step budget 7, 0 to 2 trials, search budgets of nothing, of less than is listed and of more; lists of up to 3 numbers with `MaxSteps` 2, so that loops run out; grids up to 3 by 2 with a blocked cell, goals outside and on the start; models that propose wrong, lucky and raising programs |
| `bvps_mixed` (finding) | `FoundIsJudged` fails | a task with an Int and a Bool parameter |
| `cache` | caches are transparent; a process alone is not harmed; answers persist | 2 processes in 2 workspaces whose registries hold the same patches in opposite order, one command adding patches, 2 specifications of one name, 1 fault, 2 episodes: fill by one and hit by the other, with each file operation in between |
| `skills` | admitted bundles passed whole; one crash spares bundles; admitted skills stay | 2 processes, 3 episodes, 1 crash, three tasks: two of one name that want different programs, one whose name contains theirs; a second episode saves over a first's skill and a third reads |

Bounds in guards: `MaxEvents`, `MaxLines`, `MaxCrashes`, `MaxFaults`, `MaxEpisodes`,
`MaxRuns`, `MaxPatches` stop new calls, never calls in progress.  Where a run has
`CHECK_DEADLOCK FALSE` the system stops at such a bound, after damage (a damaged
JSON-lines ledger refuses every append) or because the task is decided.

`artifact_store` and `skills` have symmetry sets and no liveness; the temporal property of
`artifact_store` is an action property, for which TLC's use of symmetry is sound.

### Fairness

`LedgerDb` and `Episode`: weak fairness of each writer's or process's own next step
(`Progress`), because Python goes on with a call it has begun and SQLite answers or
times out after its busy timeout; kernels and solvers are assumed to return or raise.  Beginning
an append or an episode, crashes and faults are not fair.  `Solve`: weak fairness of the
next step as a whole, since the episode runs in one thread; interpretation of a program is
bounded by the step budget, and the HTTP client by its timeout.  The planner of a world
whose path is blocked or whose goal is outside the grid does loop for ever in the code, and
`EpisodeEnds` says so (`Unplannable`).  The other modules state safety only.

## 4. Findings

Four places where the code does something else than a test or the documentation says;
each has a run in which TLC finds it.

* `ledger/chain.py:13` reads the last hash without a lock: overlapping appends fork the
  chain, and `verify_chain` fails although nobody touched the file.
* `eval/sealed_eval.py:124`: the report's put writes back the manifest that the driver's
  store object had cached before the episodes ran; their entries disappear.
* `orchestrator/controller.py:1771`: the auto-repair takes the pairs that lanes return
  for verdicts and raises; the episode leaves neither UCR nor witness packet.
* `verify/lanes.py:783`: the consequence lane swaps values between parameters of different
  types and evaluates the oracle on them outside its `try`; an episode whose program was
  found ends without a verdict.

Three more are stated as the exceptions of properties that hold:

* `artifacts/store.py:172`: with `EIDOLON_STORE_MANIFEST_FLUSH_MODE=per_suite` in the
  environment the flush of an open evaluation's episode returns at once, and nothing it
  stored is ever listed (`OthersStayListed` counts what is `Flushed`).
* `artifacts/store.py:214`: a blob that a crash cut off is kept by every later put of the
  same content and read unchecked; a task whose solution it is ends, run again, with a
  complete `ucr.json` on which `episode replay` raises (`ReplayableUnlessTorn`).
* `bvps/cegis.py:121`: a search that finds nothing within its budget raises, and nothing in
  `run` catches it; the episode leaves neither UCR nor witness packet, as those of
  `lanes.py:783` and of the auto-repair (`AllRecordsOrNone`).

What holds in spite of all of them is checked beside them: `AckedOrDetected` (a fork never loses
an event silently), `OthersStayListed` for suites and for open evaluations that do not defer,
`ReplayableUnlessTorn` (only an earlier run of the same task, stopped before its UCR, spoils a
replay), `AllRecordsOrNone` (an episode that raises leaves none of its records rather than
some), and `CorrectIsAnswered` for specifications whose parameters have one type.

## 5. Theorems

Each is `Spec => []P` (or an action property) for every value of the constants under the
named assumptions of the module: null values outside their sets, bounds that are numbers,
finite sets of processes, and for `Bvps` that lists are sequences and that interpretation
gives an output or raises.  Each proof has the same shape: `Init => IInv`,
`IInv /\ [Next]_vars => IInv'` with one lemma or case per action, `IInv => P`, combined
by PTL.

* **`LedgerDbProofs`**: `Inductive`, `TypeCorrect`, `CallsCorrect`, `AlwaysVerifies`, `Refines`.  The
  invariant is `TypeOK /\ CallsOK /\ ChainVerifies`.  `ChainVerifies` alone is not
  inductive: a commit is safe only because a writer inside its transaction
  still has the successor of the last row (`CallOK`: `Fresh`), which holds because the
  key was free when the lock was taken and nobody else commits while it is held.
  `Refines` maps every step to an append, a receipt or a stutter.
* **`LedgerChainProofs`**: `Inductive`, `TypeCorrect`, `NothingLostSilently`,
  `SequentialIsSafe`, `DamageStaysLast`, `DamageStops`.  The invariant adds `AckedOrDamaged` (an
  acknowledged event has a line, or the file is damaged: an append may destroy an unended
  line, and then damages it), `CrashMarks` (no damage without a crash) and
  `WriterFollowsLast` (a lone writer still names the last line).  `DamageStops` follows from the
  last: once the file is damaged nobody is in the middle of an append, and none starts one.
* **`ArtifactStoreProofs`**: `Inductive`, `TypeCorrect`, `ListingsHaveArtifacts`, `OneEntry`,
  `TornExplained`, `WithoutFaults`, `TurnByTurn`, `PutsAreListed`, `CacheAgrees`, `TornStops`.  The invariant says at each point of a put what is already on disk
  (`PutOf`) and splits the listings by where they are: the file, the caches, the puts that
  returned.  `WithoutFaults` says what readers may rely on before the first fault (`Unharmed`).
  The last four are about objects used one after the other, under the invariant
  `InTurn`: the one open object that has loaded the manifest lists in memory whatever a put
  returned for and all that the file lists, and until it is dirty the file lists what puts
  returned for, too; an object that has not loaded it leaves the file as the one before closed
  it.  Memory and file are equal before the first fault; a write that could not open the
  file leaves in memory an entry of a put that raised (`CacheAgrees`).
* **`EvalDriversProofs`**: `DriversUseStore`, `DriversCorrect`, `OneCallEver`, `StayListed`,
  `SuiteDefers`.  `DriversUseStore` is a refinement: every step of a command is one of
  `ArtifactStore` or leaves the store alone, so that the theorems about the store hold of its
  objects.  `InPhase` says which object is open, and which may be in a call, at each point of
  a command; then one call at a time is in progress (`OneCallEver`).  `OthersStayListed` is
  not inductive: what is in the file must also be in whatever memory may be written over
  it.  `AllHave(OthersDue)` says that the memory of every object that has loaded the manifest
  lists what `Flushed` holds, the outputs of suites and of open evaluations in per_episode mode; a sealed evaluation's own
  object is loaded before its episodes, and an episode that defers takes its listings with its
  object, which is why these two lose theirs.
  `EpisodeKept` follows the puts of the episode that runs until they are counted, through the
  memory of a suite, which writes nothing before its end (`Deferring`, from which
  `SuiteDefers` follows).
* **`AnswerProofs`** is about `Bvps`, `Kernel`, `Enumerate` and `Solve`.  For `Bvps`: `Inductive`, `TypeCorrect`,
  `SearchIsExact`, `RefutationsAreNew`, `CorrectAnswered`, `SearchAdvances`.  The invariant adds `Kept` (while the search runs the examples are those of the
  specification and the counterexamples, no more and no less) and `PassedOver` (no candidate
  left behind satisfies the specification).  From `Kept`, passing the examples and the
  trials is the same as satisfying the specification, so pruning by counterexamples cannot
  change the answer.  `CorrectAnswered` adds `Found` (the program is one of the candidates, and
  nothing fails before the lanes).  It needs that all inputs the consequence lane tests,
  the swapped and negated ones included, have the types of the specification (`TestedTyped`),
  which is where one type for all parameters comes in; the oracle then raises on none.
  For `Kernel`: `KernelInductive`, `AnswersAreRight`, `StubAnswered`, `TaskAdvances`.  `KernelInv` records what
  each lane has shown: `RecomputeShown` and `TranslationShown` hold from the lane on because
  nothing changes the proposal any more.  For a list task the translation lane's comparison says something only if its
  own synthesis ends with the right template: `FirstStays` says that on true examples the
  operation's own template, tried first, is never left.  `StubAnswered` is the converse:
  `StubInv` says what the stub proposes for each kind of ordinary task (`StubProposal`) and
  where the planner is in between (`OnPath`: on the path along the first row and then down).
  `PathStep` shows that each step of that path is the planner's choice and moves the agent,
  `PathReaches` that the rollout of the lanes ends at the goal.
  `SearchAdvances` and `TaskAdvances` are what can be proved here of the end of a task:
  each step lowers a natural number (`StepsLeft`, `TaskLeft`).  They need where the loops are:
  no further than the end of their lists (`InList`, `InLoop`), and the planner on its path.
  For `Enumerate`: `EnumerationComplete`, for any language, variables, macros and depth: what
  the code lists, in whatever order, contains every expression of `Grammar`.  A
  list is known by its items, and one lemma per helper says which they are (`JoinedHolds`,
  `SortedHolds`, `DedupedHolds`).  The filters are the delicate part: they drop
  conditionals from the conditions and the branches, unless nothing else is left.  Depth 0 has
  neither operations nor conditionals and every other depth has nothing else (`Uniform`), so
  what is left after filtering still has all that may stand there.  `Whole` says this of all
  depths at once, and that each holds what can be put together of those before.
  `OperationReached` and `ConditionalReached` find the depth at which an expression is listed,
  the one after that of its deepest part.
  For `Solve`: `EpisodeComposes` (an episode is a behaviour of `Bvps` and one of
  `Kernel`, so what is proved of either holds of it), `AnswerIsTheFirst` and
  `NothingIsOverlooked`.  The last joins the two halves: `OrderKept` says that a search looks
  through its specification's own list and leaves behind only what it tried, so with
  `PassedOver` none of the listed programs satisfies the specification when it fails;
  `ExpressionDecides` says that a program satisfies it exactly if its expression does, and
  `EnumerationComplete` that any expression of the language has a program in the list.
* **`BvpsCacheProofs`**: `TypeCorrect`, `Transparent`, `StoreIsUsedWell`, `Harmless`, `Persist`.  The invariant says
  that whatever is in memory, in a blob, in a put or in a listing is an `Entry` of its key
  (`StoreKnows`), so that any hit, however stale, answers for the same specification and
  the same macros (`AnswerKnown`).  `StoreIsUsedWell` is a refinement: every step of the
  caches is one of `ArtifactStore` or leaves it alone.  The last two use it: an instance of
  `ArtifactStoreProofs` gives the processes' objects its theorems (`StoreHolds`: among them
  `WithoutFaults` and `TurnByTurn`).  `Remembers` says that the memory of a process
  holds the answer it goes on with, and is empty while it is down.  `CalmInv` says that while no
  processes share the store and nothing has failed none has raised, and that what a process
  that does not defer its manifest remembers is listed in the file, or is being put (`Kept`).
* **`EpisodeProofs`**: `Inductive`, `TypeCorrect`, `EventsAreBacked`, `AnswersFailClosed`,
  `UcrsCanBeReplayed`, `AllOrNone`, `FinalRecords`, `ChainFollows`, `NamesAreFew`,
  `EpisodeAdvances`.  `EpisodeOK` says what
  an episode has done when it is at each step; `DirOK` says what is in its directory, which
  holds only while no two episodes overlap (`Alone`), because `_run_dir` tests and takes a
  name in two steps.  `ChainFollows` needs in addition that serial numbers tell episodes
  apart, and counts: a row without a line belongs to an episode between the two appends or to a
  fault.  `AllOrNone` adds `RaisedOK`: the directory of an episode that raised is empty,
  and no other episode is in it or takes it.  `UcrsCanBeReplayed` adds `TornOK`: a torn
  solution has an episode that tears, or tore, it in a directory without a UCR (`TornBy`),
  before those of all who come later, because directories of a task are numbered without gaps
  (`Gapless`) and a new one is the last.
  `NamesAreFew` and `EpisodeAdvances` are about the end of an episode: `NameInv` counts
  the directories, each made by an episode that looks for one no longer, so that the loop of
  `_run_dir` meets fewer taken names than episodes were begun, and `EpisodeLeft`, for
  any number `MaxEpisodes` of episodes, is a bound that each step of the episode lowers and
  no other one raises.
* **`SkillsProofs`**: `Inductive`, `TypeCorrect`, `NothingMixedIsAdmitted`, `SkillsStay`,
  `CrashSparesBundles`.
  `Local` says what a process knows at each point; `Solo`, while no episodes overlap, what
  the files still hold of what it has read or written.  A reported bundle is one in
  `passed` because a verdict is only ever written for such a bundle and is compared with
  all four files read, however they were mixed.  `CrashSparesBundles` adds `Healthy`: before the crash a
  registered skill has the verdict of its files, so that whoever uses it keeps it and nobody
  saves over it; after it, whoever does is still there to finish.  `Sunk` is the crash in the
  write of the registry itself: bundles reported as admitted stay whole, and nobody comes as
  far as to write one, since every lookup raises.

`EnumerationComplete` uses that the language's operators and constants are given as lists
(`LanguageAssumption`); `NothingIsOverlooked` the shape of specifications (`ShapeAssumption`), that the
order is what the enumeration lists (`EnumerationAssumption`) and that programs run as the
interpreter does (`InterpreterAssumption`), and nothing of what evaluation, expansion, depth
and sort keys compute.  The assumptions of `Bvps` that `CorrectAnswered` uses are that a specification has one or two
parameters in a list and that its lists are sequences; `StubAnswered` uses that sizes and goals of
grids are integers (`WorldAssumption`), that the templates' step limit covers the lists that the
lanes draw (`StepsAssumption`) and that the examples the code adds for a task without any are
right (`DefaultAssumption`); `BvpsCacheProofs` what
`ArtifactStore` assumes of its constants (`StoreAssumption`); `EvalDriversProofs` that the bounds of a run are
natural numbers (`BoundsAssumption`).

A recursive function (`Tested` in `Bvps`, the rollout `at` in `Kernel`, the rounds of `Joined`,
the levels and the grammar in `Enumerate`) is reasoned about with
`Least`, `SetInduction` and `Recursion` of `AnswerProofs`: induction over a *set* of natural
numbers, by the well-foundedness of `<`, needs no operator as a parameter.

Only model-checked.  Liveness (`EveryCallEnds`, `EpisodesEnd`, `EpisodeEnds`): the prover
does not reach fairness and ENABLED; that episodes and tasks have a bounded number of steps
is proved (`EpisodeAdvances`, `SearchAdvances`, `TaskAdvances`), that there is a step to take
until they end is checked.  What the RECURSIVE operators of `Semantics` compute (evaluation,
macro expansion, type inference, sort keys): the prover does not take such operators, and the
theorems hold for any operators in their place.  Every invariant and every action property
of the passing runs is stated by a theorem.

## 6. Not modelled, and why

* Wording, logging, timings, cost counters and cache statistics: no property is about them.
* Hashing and canonical JSON: hashes are taken as injective, so equal data are equal.
* The run artifact manifest: a listing of a directory when the run is over.
* What the admission gates compute (`skills/admission.py`): a parameter of `Skills`, since
  they only read.  `language/admission.py` is called by nobody.
* How the HTTP and llama.cpp kernels talk to their service, and how a model's text is
  parsed: a service fails or proposes any value of the right kind.
* The capsule runner (a subprocess no episode starts), the command line and configuration,
  the task generators (pure functions of a seed), statistics of evaluation reports, and the
  scripts, which report over finished runs.
* In sinks of solutions other than the disk the store holds no solution, and replay raises by
  construction of the code; `ReplayableUnlessTorn` is about the disk.
* A crash in the write of the skills' `registry.json` leaves a file that is not JSON: every
  later BVPS episode with skills raises until somebody mends it (`RegistryRaises`);
  `OneCrashSparesBundles` speaks of the bundles behind it, `AdmittedStay` of a registry that
  is whole.
* In `Episode` the test whether a solution's blob exists and its opening are one step;
  two puts of one content in every interleaving are `ArtifactStore`'s.
* A put of the suite's report after its forced flush is stored and never listed, by
  construction of the code.
* Of `Bvps`: more than two parameters.  Of the cache: the switch that turns the persistent
  cache off.
* Reading a JSON-lines file while another process is in the middle of its single `write` is
  not distinguished from reading before or after it.
* A planner that stands still appends the same action for ever; the growing list is left
  out.

## 7. Plan and what is left

The order was by weight in the program: the records first, then what decides an answer,
then what is reused between episodes.

1. *(done)* Ledgers: `LedgerDb` refining `AppendLog`, `LedgerChain`; proofs.
2. *(done)* `ArtifactStore`, its proofs; `EvalDrivers` composing it with the commands, its proofs.
3. *(done)* `Episode`, composing what the store and ledgers promise; proofs.
4. *(done)* `Bvps`, `Kernel` and their proofs; `Expressions`, `Semantics` and `Enumerate`;
   `Solve`, which composes them; proofs of the enumeration and of the composition.
5. *(done)* `BvpsCache` over an instance of `ArtifactStore`, with the language registry; proofs.
6. *(done)* `Skills`; proofs of its properties.

Left: the statistics of evaluation reports; a refinement of `Episode`'s view of the store and
the ledgers by instances of their modules, whose product is too large for TLC.
