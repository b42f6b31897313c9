------------------------------- MODULE Kernel -------------------------------
(***************************************************************************)
(* One arith, list or world task: what its kernel proposes, a stub that    *)
(* computes (kernel/stub.py) or a model that may propose anything          *)
(* (kernel/http.py, kernels/llamacpp_kernel.py), and what the lanes of     *)
(* verify/lanes.py make of the proposal.  The list templates of            *)
(* bvps/synth.py and the planner of the grid world run in the stub, and    *)
(* once more in the translation lane.                                      *)
(***************************************************************************)
EXTENDS Integers, Sequences, SequencesExt

CONSTANTS Jobs,            \* tasks without a BVPS specification
          Exprs, Worth,    \* expressions, and what safe_eval_arith makes of them
          Absent, Blank,   \* no expression in the data, or an empty one
          NoInput,         \* no input list
          Proposals,       \* outputs that a model may propose for a kind of task
          Written,         \* list programs that it may write
          Behaves(_, _),   \* what such a program computes on a list
          Samples,         \* lists that a lane or the synthesis may draw
          MaxSteps         \* max_steps of the loops in the list templates

\* Values; a Python bool is a number here.
Num(k)  == <<"number", k>>
List(s) == <<"list", s>>
Nothing == <<"none">>
Raised  == <<"raises">>
Complex == <<"complex">>
Unasked == <<"unasked">>      \* an example without an output

IsNum(v)  == v[1] = "number"
IsList(v) == v[1] = "list"

ASSUME WorthAssumption  == \A e \in Exprs : Worth[e] \in {Raised, Complex} \/ IsNum(Worth[e])
ASSUME NamesAssumption  == Absent # Blank /\ {Absent, Blank} \cap Exprs = {}
ASSUME StepsAssumption  == MaxSteps \in Nat /\ \A x \in Samples : Len(x) <= MaxSteps

\* GridWorld: sizes and cells are integers.
ASSUME WorldAssumption ==
    \A j \in Jobs : j.kind = "world" => /\ j.width \in Int /\ j.height \in Int
                                       /\ j.goal \in Int \X Int

Templates == {"sum", "max", "reverse", "is_sorted"}

ASSUME WrittenAssumption == Written \cap Templates = {}

VARIABLES job,        \* the task
          kernel,     \* "stub" or "model"
          phase,      \* what the episode does next
          by,         \* who runs the stub: the "kernel" or the translation "lane"
          output,     \* the solution's output
          written,    \* its program
          given,      \* the examples, extended in place while synthesizing
          tried,      \* position of the template to try
          agent,      \* where the planner is
          planned,    \* the actions it has planned
          failing     \* lanes that do not pass: BORDERLINE and FAIL both refuse

proposal   == <<output, written>>
loops      == <<by, given, tried, agent, planned>>
kernelVars == <<job, kernel, phase, proposal, loops, failing>>

-----------------------------------------------------------------------------
\* spec_function
Right(op, xs) ==
    CASE op = "sum"       -> Num(FoldLeft(LAMBDA a, b : a + b, 0, xs))
      [] op = "max"       -> Num(IF xs = <<>> THEN 0 ELSE Max(ToSet(xs)))
      [] op = "reverse"   -> List(Reverse(xs))
      [] op = "is_sorted" -> Num(IF \A i \in 1..(Len(xs) - 1) : xs[i] <= xs[i + 1] THEN 1 ELSE 0)
      [] OTHER            -> Nothing

\* What a template's loop reads before its iterations run out.
Seen(op, xs) ==
    IF Len(xs) <= MaxSteps THEN xs
    ELSE CASE op = "reverse"   -> SubSeq(xs, Len(xs) - MaxSteps + 1, Len(xs))
           [] op = "is_sorted" -> SubSeq(xs, 1, MaxSteps + 1)
           [] OTHER            -> SubSeq(xs, 1, MaxSteps)

\* Interpreter.run
Outcome(p, xs) == IF p \in Written THEN Behaves(p, xs) ELSE Right(p, Seen(p, xs))

Asked == IF job.input = NoInput THEN <<1, 2, 3>> ELSE job.input

\* The solution's payload has an empty list where the task has none.
Recorded == IF job.input = NoInput THEN <<>> ELSE job.input

\* Fault: the templates are tried in one order, whatever is asked for.
LikelyAlways(op) ==
    IF op \in Templates THEN <<"sum", "max", "reverse", "is_sorted">> ELSE <<"sum">>

\* _candidate_programs
Likely(op) ==
    CASE op = "max"       -> <<"max", "sum", "reverse", "is_sorted">>
      [] op = "reverse"   -> <<"reverse", "sum", "max", "is_sorted">>
      [] op = "is_sorted" -> <<"is_sorted", "sum", "max", "reverse">>
      [] op = "sum"       -> <<"sum", "max", "reverse", "is_sorted">>
      [] OTHER            -> <<"sum">>

Template == Likely(job.op)[tried]

Sample(xs, v) == [in |-> xs, out |-> v]

\* The example for a list task that has none, by _spec_function's operation.
Default(op) ==
    CASE op = "sum"       -> Sample(<<1, 2>>, Num(3))
      [] op = "max"       -> Sample(<<1, 5, 2>>, Num(5))
      [] op = "reverse"   -> Sample(<<1, 2>>, List(<<2, 1>>))
      [] op = "is_sorted" -> Sample(<<1, 2, 2>>, Num(1))

ASSUME DefaultAssumption ==
    \A op \in Templates : Right(op, Seen(op, Default(op).in)) = Default(op).out

\* _normalize_examples: only a list that the task gave is extended in place.
Normalized ==
    IF job.examples # <<>> THEN given
    ELSE IF job.op \in Templates THEN <<Default(job.op)>> ELSE <<>>

\* _passes_examples
PassesGiven(p) ==
    \A i \in DOMAIN given :
        Outcome(p, given[i].in) =
            (IF given[i].out = Unasked THEN Right(job.op, given[i].in) ELSE given[i].out)

-----------------------------------------------------------------------------
\* GridWorld.step
Toward(cell, action) ==
    CASE action = "up"    -> <<cell[1], Max({0, cell[2] - 1})>>
      [] action = "down"  -> <<cell[1], Min({job.height - 1, cell[2] + 1})>>
      [] action = "left"  -> <<Max({0, cell[1] - 1}), cell[2]>>
      [] action = "right" -> <<Min({job.width - 1, cell[1] + 1}), cell[2]>>
      [] OTHER            -> cell

Moved(cell, action) ==
    IF Toward(cell, action) \in job.blocked THEN cell ELSE Toward(cell, action)

\* run_rollout: it stops at the goal, and is not done where it starts.
Reaches(actions) ==
    LET at[k \in 0..Len(actions)] ==
            IF k = 0 THEN <<0, 0>> ELSE Moved(at[k - 1], actions[k])
    IN  \E k \in 1..Len(actions) : at[k] = job.goal

\* _plan_world_actions: the next action.
Greedy ==
    IF agent[1] < job.goal[1] THEN "right"
    ELSE IF agent[2] < job.goal[2] THEN "down"
    ELSE IF agent[1] > job.goal[1] THEN "left" ELSE "up"

Scripted == job.kind = "world" /\ job.script # Nothing

-----------------------------------------------------------------------------
KernelInit ==
    /\ job \in Jobs
    /\ kernel \in {"stub", "model"}
    /\ phase = "interpret"
    /\ by = "kernel"
    /\ output = Nothing
    /\ written = "sum"
    /\ given = IF job.kind = "list" THEN job.examples ELSE <<>>
    /\ tried = 1
    /\ agent = <<0, 0>>
    /\ planned = <<>>
    /\ failing = {}

\* The episode ends without a solution or without verdicts.
GivesUp == phase' = "raised" /\ UNCHANGED <<job, kernel, proposal, loops, failing>>

\* Interpretations are proposed and the first one is taken.
Interpret ==
    /\ phase = "interpret"
    /\ phase' = "solve"
    /\ UNCHANGED <<job, kernel, proposal, loops, failing>>

\* The controller computes an expression, and takes a script, without a kernel.
KernelAsked == ~(job.kind = "arith" /\ job.expr \in Exprs) /\ ~Scripted

\* A model's service fails, or proposes no interpretation.
ServiceFails ==
    /\ kernel = "model"
    /\ phase = "interpret" \/ (phase = "solve" /\ KernelAsked)
    /\ GivesUp

Propose(v, p) ==
    /\ phase' = "recompute"
    /\ output' = v
    /\ written' = p
    /\ UNCHANGED <<job, kernel, loops, failing>>

\* _solve_task: an error is a solution without output.
SolveDirectly ==
    /\ phase = "solve" /\ ~KernelAsked
    /\ Propose(IF Scripted THEN List(job.script)
               ELSE IF IsNum(Worth[job.expr]) THEN Worth[job.expr] ELSE Nothing, written)

\* A model proposes anything; _build_solution_payload wants a number for arith.
SolveByModel ==
    /\ phase = "solve" /\ KernelAsked /\ kernel = "model"
    /\ \E v \in Proposals[job.kind], p \in Written :
          IF job.kind = "arith" /\ ~IsNum(v) THEN GivesUp ELSE Propose(v, p)

\* The stub's loops begin.
BeginSynthesis(who) ==
    /\ phase' = "synthesize"
    /\ by' = who
    /\ given' = Normalized
    /\ tried' = 1
    /\ UNCHANGED <<job, kernel, proposal, agent, planned, failing>>

BeginPlan(who) ==
    /\ phase' = "plan"
    /\ by' = who
    /\ agent' = <<0, 0>>
    /\ planned' = <<>>
    /\ UNCHANGED <<job, kernel, proposal, given, tried, failing>>

\* StubKernel.propose_solution
SolveByStub ==
    /\ phase = "solve" /\ KernelAsked /\ kernel = "stub"
    /\ CASE job.kind = "arith" -> IF job.expr = Absent THEN Propose(Num(0), written) ELSE GivesUp
         [] job.kind = "list"  -> BeginSynthesis("kernel")
         [] job.kind = "world" -> BeginPlan("kernel")
         [] OTHER              -> Propose(Nothing, written)

-----------------------------------------------------------------------------
\* The outcome of a lane, and what comes after it.
Judged(lane, passes, following) ==
    /\ phase' = following
    /\ failing' = IF passes THEN failing ELSE failing \cup {lane}

\* Fault: the proposed program is run instead of the alternative one.
CompareWithItself(v) ==
    Judged("translation", output = IF job.kind = "list" THEN Outcome(written, Asked) ELSE v,
           "consequence")

\* run_translation compares outputs with the alternative solution's.
CompareWith(v) ==
    Judged("translation", output = v /\ (job.kind = "world" => job.exact), "consequence")

\* What the stub's loops end with: the kernel's proposal, or the alternative.
Concluded(v, p) ==
    IF by = "kernel"
    THEN Propose(v, p)
    ELSE CompareWith(v) /\ UNCHANGED <<job, kernel, proposal, loops>>

TryingTemplate == phase = "synthesize" /\ tried \in DOMAIN Likely(job.op)

NextTemplate ==
    tried' = tried + 1 /\ UNCHANGED <<job, kernel, phase, proposal, by, agent, planned, failing>>

\* synthesize_program: the template fails an example.
RejectTemplate ==
    /\ TryingTemplate
    /\ ~PassesGiven(Template)
    /\ NextTemplate
    /\ UNCHANGED given

\* _find_counterexample draws one, which becomes an example.
RefuteTemplate(x) ==
    /\ TryingTemplate
    /\ PassesGiven(Template)
    /\ Outcome(Template, x) # Right(job.op, x)
    /\ given' = Append(given, Sample(x, Right(job.op, x)))
    /\ NextTemplate

\* It draws only lists on which the template is right.
AcceptTemplate ==
    /\ TryingTemplate
    /\ PassesGiven(Template)
    /\ \E x \in Samples : Outcome(Template, x) = Right(job.op, x)
    /\ Concluded(Outcome(Template, Asked), Template)

\* No template is left: the first one is used.
FallBack ==
    /\ phase = "synthesize" /\ tried \notin DOMAIN Likely(job.op)
    /\ Concluded(Outcome(Likely(job.op)[1], Asked), Likely(job.op)[1])

\* An action that does not move the agent is planned again, for ever; the
\* growing list is left out.
PlanStep ==
    /\ phase = "plan" /\ agent # job.goal
    /\ agent' = Moved(agent, Greedy)
    /\ planned' = IF agent' = agent THEN planned ELSE Append(planned, Greedy)
    /\ UNCHANGED <<job, kernel, phase, proposal, by, given, tried, failing>>

PlanDone ==
    /\ phase = "plan" /\ agent = job.goal
    /\ Concluded(List(planned), written)

-----------------------------------------------------------------------------
\* The lanes evaluate "0" where the data have no expression.
WorthOf(e) == IF e = Absent THEN Num(0) ELSE IF e = Blank THEN Raised ELSE Worth[e]

\* run_recompute catches what an expression raises, and no other exception.
RecomputeBreaks ==
    \/ job.kind = "arith" /\ WorthOf(job.expr) = Complex
    \/ job.kind = "list" /\ Outcome(written, Recorded) = Raised
    \/ job.kind = "world" /\ ~IsList(output)

\* run_recompute
Recomputes ==
    CASE job.kind = "arith" -> IsNum(WorthOf(job.expr)) /\ output = WorthOf(job.expr)
      [] job.kind = "list"  -> output = Outcome(written, Recorded)
      [] job.kind = "world" -> Reaches(output[2])
      [] OTHER              -> FALSE

Recompute ==
    /\ phase = "recompute"
    /\ IF RecomputeBreaks THEN GivesUp
       ELSE Judged("recompute", Recomputes, "translate") /\ UNCHANGED <<job, kernel, proposal, loops>>

\* run_translation: it wants an expression, and runs the stub for a list and for
\* a world without a script.
Translate ==
    /\ phase = "translate"
    /\ CASE job.kind = "list" -> BeginSynthesis("lane")
         [] job.kind = "world" /\ ~Scripted -> BeginPlan("lane")
         [] OTHER ->
              /\ CompareWith(IF job.kind = "arith"
                             THEN IF job.expr \in Exprs THEN Worth[job.expr] ELSE Raised
                             ELSE IF Scripted THEN List(job.script) ELSE Nothing)
              /\ UNCHANGED <<job, kernel, proposal, loops>>

\* run_consequence: x is the drawn list that decides.
Consequence(x) ==
    /\ phase = "consequence"
    /\ IF job.kind = "list" /\ Outcome(written, x) = Raised THEN GivesUp
       ELSE /\ Judged("consequence",
                      IF job.kind = "list" THEN Outcome(written, x) = Right(job.op, x) ELSE Recomputes,
                      "decide")
            /\ UNCHANGED <<job, kernel, proposal, loops>>

\* _decide: the anchors lane passes, every lane having stored its evidence.
Decide ==
    /\ phase = "decide"
    /\ phase' = IF failing = {} THEN "answered" ELSE "refused"
    /\ UNCHANGED <<job, kernel, proposal, loops, failing>>

KernelNext ==
    \/ Interpret \/ ServiceFails \/ SolveDirectly \/ SolveByModel \/ SolveByStub
    \/ RejectTemplate \/ AcceptTemplate \/ FallBack \/ PlanStep \/ PlanDone
    \/ Recompute \/ Translate \/ Decide
    \/ \E x \in Samples : RefuteTemplate(x)
    \/ \E x \in Samples : Consequence(x)

KernelSpec == KernelInit /\ [][KernelNext]_kernelVars

-----------------------------------------------------------------------------
\* Types of the variables.
KernelTypeOK ==
    /\ job \in Jobs /\ kernel \in {"stub", "model"} /\ by \in {"kernel", "lane"}
    /\ phase \in {"interpret", "solve", "synthesize", "plan", "recompute", "translate",
                  "consequence", "decide", "answered", "refused", "raised"}
    /\ written \in Templates \cup Written
    /\ tried \in Nat \ {0}
    /\ failing \subseteq {"recompute", "translation", "consequence"}

\* A list task whose examples, if any, are true of its operation, and short.
Sound ==
    /\ job.op \in Templates
    /\ Len(Asked) <= MaxSteps
    /\ \A i \in DOMAIN job.examples :
          /\ Len(job.examples[i].in) <= MaxSteps
          /\ job.examples[i].out \in {Unasked, Right(job.op, job.examples[i].in)}

\* An answer is right, whatever the kernel proposed: a number is what the
\* expression is worth, a list's result what the operation gives, a plan leads
\* to the goal.
PassMeansRight ==
    phase = "answered" =>
        CASE job.kind = "arith" -> job.expr \in Exprs /\ IsNum(output) /\ output = Worth[job.expr]
          [] job.kind = "list"  -> Sound => output = Right(job.op, Asked)
          [] job.kind = "world" -> IsList(output) /\ Reaches(output[2])
          [] OTHER              -> FALSE

\* The cells that the planner crosses: along the first row, then down.
Clear ==
    /\ job.goal[1] \in 0..(job.width - 1) /\ job.goal[2] \in 0..(job.height - 1)
    /\ \A c \in job.blocked :
          /\ ~(c[2] = 0 /\ c[1] \in 1..job.goal[1])
          /\ ~(c[1] = job.goal[1] /\ c[2] \in 1..job.goal[2])

\* A task that asks for something the stub can do.
Ordinary ==
    CASE job.kind = "arith" -> job.expr \in Exprs /\ IsNum(Worth[job.expr])
      [] job.kind = "list"  -> Sound /\ job.input # NoInput
      [] job.kind = "world" ->
            job.exact /\ IF Scripted THEN Reaches(job.script) ELSE Clear /\ job.goal # <<0, 0>>
      [] OTHER              -> FALSE

\* What the stub proposes for an ordinary task is not refused: its lanes, which
\* draw lists of their own and run the stub again on examples it has extended,
\* agree with it.
StubIsAnswered == kernel = "stub" /\ Ordinary => phase \notin {"refused", "raised"}

\* The planner meets no end.
Unplannable == job.kind = "world" /\ ~Scripted /\ ~Clear

\* The task has been decided or given up.
TaskEnded == phase \in {"answered", "refused", "raised"}
=============================================================================
