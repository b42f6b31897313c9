------------------------------- MODULE Solve -------------------------------
(***************************************************************************)
(* How an episode solves and judges its task (controller.py): a task with  *)
(* a BVPS specification by the search of Bvps, over the programs that      *)
(* Enumerate lists, any other by the kernel of Kernel.  What expressions   *)
(* mean is a parameter, which Semantics gives.                             *)
(***************************************************************************)
EXTENDS Bvps, Kernel, Enumerate

CONSTANTS Evaluates(_, _, _),  \* Interpreter.evaluate: expression, values, step budget
          Expands(_, _),       \* expand_program: expression, macros
          Infers(_, _),        \* _bvps_infer_type: expression, types of the variables
          Body,                \* the expression of each program, its macros expanded
          OrderOf,             \* what is enumerated for each specification
          StepBudget           \* bounds.step_budget

\* A specification has a result of one of the two types, a depth and macros.
ASSUME ShapeAssumption ==
    \A s \in Specs : /\ s.output \in {"Int", "Bool"} /\ s.depth \in Nat
                     /\ Listed(s.macros)

VARIABLE route             \* "bvps" or "kernel"

solveVars == <<route, vars, kernelVars>>

-----------------------------------------------------------------------------
\* Interpreter.evaluate on the values of the parameters.
Interpreted(e, in) ==
    LET r == Evaluates(e, [i \in DOMAIN in |-> in[i].n], StepBudget)
    IN  IF r.ok THEN Value(r.n) ELSE Raises

\* The bodies that synthesize tries, macro calls expanded: s gives the types of
\* the parameters and of the output, the macros and the depth.
Enumerated(s) ==
    LET bodies == EnumeratePrograms(s.output, s.params, s.depth, s.macros)
    IN  Computed([i \in DOMAIN bodies |-> Expands(bodies[i], s.macros)])

\* _fastpath_templates, by the name of the specification.
Fastpath(s) ==
    LET x == Var(1)
        y == Var(2)
        Has(type, types) == s.output = type /\ s.params = types
    IN  CASE s.name = "abs" /\ Has("Int", <<"Int">>) ->
                <<IfThenElse(BinOp("lt", x, IntConst(0)), BinOp("sub", IntConst(0), x), x)>>
          [] s.name = "even" /\ Has("Bool", <<"Int">>) ->
                <<BinOp("eq", BinOp("mod", x, IntConst(2)), IntConst(0))>>
          [] s.name = "max" /\ Has("Int", <<"Int", "Int">>) ->
                <<IfThenElse(BinOp("gt", x, y), x, y)>>
          [] OTHER -> <<>>

\* The translation lane accepts a body's types and names.
WellTyped(s, e) == Infers(e, s.params) = s.output

\* The programs of an order, by their expressions.
Expression(p) == IF p = NoExpansion THEN Broken ELSE Body[p]

\* The programs that a search runs, and the inputs it runs them on.
Met(s, list) == (ToSet(list) \cup ToSet(s.templates) \cup {s.oracle}) \ {NoExpansion, NoProgram}

Given(s) == InputsOf(s) \cup {s.examples[i].in : i \in DOMAIN s.examples}

ASSUME EnumerationAssumption ==
    \A s \in Specs : /\ OrderOf[s] \in Orders
                     /\ [i \in DOMAIN OrderOf[s] |-> Expression(OrderOf[s][i])] = Enumerated(s)
                     /\ [i \in DOMAIN s.templates |-> Body[s.templates[i]]] = Fastpath(s)
ASSUME InterpreterAssumption ==
    \A s \in Specs : \A in \in Given(s), p \in Met(s, OrderOf[s]) :
        Run[p][in] = Interpreted(Body[p], in)
ASSUME TypesAssumption ==
    \A s \in Specs : \A p \in Met(s, OrderOf[s]) :
        <<s, p>> \in Translates <=> WellTyped(s, Body[p])

-----------------------------------------------------------------------------
\* EpisodeController.run: only one of the two is used.
SearchIdle == UNCHANGED vars
KernelIdle == UNCHANGED kernelVars

SolveInit ==
    \/ /\ route = "bvps"
       /\ spec \in Specs /\ order = OrderOf[spec] /\ Init
       /\ KernelInit /\ kernel = "stub" /\ job = CHOOSE j \in Jobs : TRUE
    \/ /\ route = "kernel"
       /\ KernelInit
       /\ stage = "synthesize" /\ spec = CHOOSE s \in Specs : TRUE
       /\ order = OrderOf[spec]
       /\ fuzz = CHOOSE f \in [1..spec.trials -> TypedInputs] : TRUE
       /\ Init

SolveNext ==
    \/ route = "bvps" /\ Next /\ KernelIdle /\ UNCHANGED route
    \/ route = "kernel" /\ KernelNext /\ SearchIdle /\ UNCHANGED route

\* An episode runs in one thread.
SolveSpec == SolveInit /\ [][SolveNext]_solveVars /\ WF_solveVars(SolveNext)

-----------------------------------------------------------------------------
\* What an expression gives on the inputs of an example or a trial.
Satisfies(e) ==
    LET Gives1(in) == IF \E i \in DOMAIN in : spec.params[i] = "Int" /\ in[i].bool
                      THEN Raises ELSE Interpreted(e, in)
    IN  /\ \A i \in DOMAIN spec.examples :
              LET ex == Expected(spec.examples[i]) IN ex.out # Missing /\ Gives1(ex.in) = ex.out
        /\ \A k \in Trials : ~OracleRaises(fuzz[k])
                             /\ Gives1(fuzz[k]) = Evaluate(spec.oracle, fuzz[k])

\* A search that tried everything it lists fails only where no expression of the
\* language satisfies the specification: ordering the likely ones first, and
\* leaving out conditionals in conditionals, loses nothing else.
NothingOverlooked ==
    route = "bvps" /\ pc = "failed" /\ Budget >= Len(order) =>
        \A e \in Grammar(spec.output, spec.params, spec.depth, spec.macros) :
            ~Satisfies(Expands(e, spec.macros))

\* Every task is solved and judged, or given up, in the end; the planner of a
\* world that its path does not cross is the exception.
EpisodeEnds == <>(IF route = "bvps" THEN SearchEnded ELSE Unplannable \/ TaskEnded)
=============================================================================
