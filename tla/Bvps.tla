-------------------------------- MODULE Bvps --------------------------------
(***************************************************************************)
(* One BVPS task: the counterexample-guided search of bvps/cegis.py for a  *)
(* program, by its templates (try_fastpath) and then by enumeration        *)
(* (synthesize), and the judgement of the program by the lanes of          *)
(* verify/lanes.py.  Programs are known by what they compute; which ones   *)
(* are enumerated, and in which order, is arbitrary here: Solve gives the  *)
(* programs and the orders of the enumerator.                              *)
(***************************************************************************)
EXTENDS Integers, Sequences

CONSTANTS Programs,        \* programs, oracles included
          Run,             \* what interpreting a program on typed inputs gives
          NoProgram,       \* no oracle, or no program found
          NoExpansion,     \* a candidate whose macro calls cannot be expanded
          Translates,      \* specifications and programs whose types agree
          Specs,           \* specifications of a task
          Orders,          \* sequences in which programs may be enumerated
          IntMin, IntMax   \* bounds.int_min and int_max of the specifications

ASSUME ProgramAssumption == {NoProgram, NoExpansion} \cap Programs = {}
ASSUME RangeAssumption   == IntMin \in Int /\ IntMax \in Int /\ IntMin <= IntMax

\* Inputs are sequences of values, one per parameter; a Python bool is a number
\* that an Int parameter refuses.
IntValue(k)  == [bool |-> FALSE, n |-> k]
BoolValue(k) == [bool |-> TRUE, n |-> k]

ValuesOf(type) == IF type = "Int" THEN {IntValue(k) : k \in IntMin..IntMax}
                                  ELSE {BoolValue(k) : k \in 0..1}

\* _random_inputs
InputsOf(s) ==
    {in \in [DOMAIN s.params -> ValuesOf("Int") \cup ValuesOf("Bool")] :
        \A i \in DOMAIN in : in[i] \in ValuesOf(s.params[i])}

\* Results are compared as numbers: True == 1.
Value(k) == [kind |-> "value", n |-> k]
Raises   == [kind |-> "raises", n |-> 0]
Missing  == [kind |-> "missing", n |-> 0]

\* Lists are sequences, and the enumeration yields programs.
Listed(list) == list \in Seq({list[i] : i \in DOMAIN list})

ASSUME SpecAssumption ==
    \A s \in Specs : /\ Listed(s.examples) /\ s.templates \in Seq(Programs)
                     /\ s.trials \in Int /\ s.maxPrograms \in Int
                     /\ s.oracle \in Programs \cup {NoProgram}
                     /\ Listed(s.params) /\ Len(s.params) \in 1..2
ASSUME RunAssumption ==
    \A s \in Specs, p \in Programs : \A in \in InputsOf(s) : Run[p][in] # Missing
ASSUME OrderAssumption == Orders \subseteq Seq(Programs \cup {NoExpansion})

VARIABLES spec,             \* the task's specification
          order,            \* what enumerate_programs yields for it
          fuzz,             \* what random.Random(seed) draws, the same in every trial
          pc,               \* "prepare", "search", "verify", "done", "failed" or "raised"
          stage,            \* "fastpath" or "synthesize"
          next,             \* position of the candidate to try
          examples,         \* the examples a candidate must pass
          counterexamples,  \* those that fuzzing added
          program,          \* the program found
          failed            \* the lanes that fail

task   == <<spec, order, fuzz>>
search == <<stage, next, examples, counterexamples, program>>
vars   == <<task, pc, search, failed>>

-----------------------------------------------------------------------------
TypedInputs == InputsOf(spec)

\* Interpreter.evaluate: _coerce_value refuses a bool for an Int parameter.
Evaluate(p, in) ==
    IF \E i \in DOMAIN in : spec.params[i] = "Int" /\ in[i].bool THEN Raises ELSE Run[p][in]

OracleRaises(in) == spec.oracle # NoProgram /\ Evaluate(spec.oracle, in) = Raises

\* The output that a program must give; Missing asks for none.
Expected(ex) ==
    IF ex.out = Missing /\ spec.oracle # NoProgram
    THEN [in |-> ex.in, out |-> Evaluate(spec.oracle, ex.in)]
    ELSE ex

\* _prepare_examples
Prepared == [i \in DOMAIN spec.examples |-> Expected(spec.examples[i])]

Agrees(p, ex) == ex.out # Missing /\ Evaluate(p, ex.in) = ex.out

\* Fault: only the newest example is looked at.
PassesNewest(p) == examples # <<>> => Agrees(p, examples[Len(examples)])

\* _passes_examples
Passes(p) == \A i \in DOMAIN examples : Agrees(p, examples[i])

\* No oracle, or fuzz_trials <= 0: nothing is drawn.
Trials == IF spec.oracle = NoProgram THEN {} ELSE DOMAIN fuzz

Differs(p, k) == Evaluate(p, fuzz[k]) # Evaluate(spec.oracle, fuzz[k])

\* The trial that ends fuzz_counterexample early.
Stops(p, k) ==
    /\ k \in Trials
    /\ OracleRaises(fuzz[k]) \/ Differs(p, k)
    /\ \A j \in 1..(k - 1) : ~OracleRaises(fuzz[j]) /\ ~Differs(p, j)

\* fuzz_counterexample returns None.
Survives(p) == \A k \in Trials : ~OracleRaises(fuzz[k]) /\ ~Differs(p, k)

Candidates == IF stage = "fastpath" THEN spec.templates ELSE order

Candidate == Candidates[next]

-----------------------------------------------------------------------------
Init ==
    /\ spec \in Specs
    /\ order \in Orders
    /\ fuzz \in [1..spec.trials -> TypedInputs]
    /\ pc = "prepare"
    /\ stage \in {"fastpath", "synthesize"}
    /\ next = 1
    /\ examples = <<>>
    /\ counterexamples = <<>>
    /\ program = NoProgram
    /\ failed = {}

\* Fault: positions count from zero.
PrepareAtZero ==
    /\ pc = "prepare"
    /\ pc' = "search"
    /\ examples' = Prepared
    /\ counterexamples' = <<>>
    /\ next' = 0
    /\ UNCHANGED <<task, stage, program, failed>>

\* try_fastpath and synthesize begin: each has its own list of examples.
Prepare ==
    /\ pc = "prepare"
    /\ \A i \in DOMAIN spec.examples : Prepared[i].out # Raises
    /\ pc' = "search"
    /\ examples' = Prepared
    /\ counterexamples' = <<>>
    /\ next' = 1
    /\ UNCHANGED <<task, stage, program, failed>>

\* The oracle raises on an example that has no output.
PrepareRaises ==
    /\ pc = "prepare"
    /\ \E i \in DOMAIN spec.examples : Prepared[i].out = Raises
    /\ pc' = "raised"
    /\ UNCHANGED <<task, search, failed>>

Trying == pc = "search" /\ next \in DOMAIN Candidates /\ Candidate # NoExpansion

\* candidates_tried >= max_programs; templates are not counted.
OutOfBudget == stage = "synthesize" /\ next >= spec.maxPrograms

TryNext ==
    /\ pc' = IF OutOfBudget THEN "failed" ELSE "search"
    /\ next' = next + 1
    /\ UNCHANGED <<task, stage, program, failed>>

\* expand_program raises: the macro is unknown, called wrongly or calls itself.
ExpandRaises ==
    /\ pc = "search" /\ next \in DOMAIN Candidates
    /\ Candidate = NoExpansion
    /\ pc' = "raised"
    /\ UNCHANGED <<task, search, failed>>

\* The candidate fails an example or a counterexample found earlier.
Reject ==
    /\ Trying
    /\ ~Passes(Candidate)
    /\ TryNext
    /\ UNCHANGED <<examples, counterexamples>>

Counterexample(k) == [in |-> fuzz[k], out |-> Evaluate(spec.oracle, fuzz[k])]

\* Fault: the counterexample is reported and not kept.
RefuteUnkept(k) ==
    /\ Trying
    /\ Passes(Candidate)
    /\ Stops(Candidate, k) /\ ~OracleRaises(fuzz[k])
    /\ counterexamples' = Append(counterexamples, Counterexample(k))
    /\ TryNext
    /\ UNCHANGED examples

\* Fuzzing finds an input on which it differs from the oracle.
Refute(k) ==
    /\ Trying
    /\ Passes(Candidate)
    /\ Stops(Candidate, k) /\ ~OracleRaises(fuzz[k])
    /\ examples' = Append(examples, Counterexample(k))
    /\ counterexamples' = Append(counterexamples, Counterexample(k))
    /\ TryNext

\* The oracle raises on an input before any difference shows.
FuzzRaises(k) ==
    /\ Trying
    /\ Passes(Candidate)
    /\ Stops(Candidate, k) /\ OracleRaises(fuzz[k])
    /\ pc' = "raised"
    /\ UNCHANGED <<task, search, failed>>

\* The candidate passes the examples and all trials.
Accept ==
    /\ Trying
    /\ Passes(Candidate)
    /\ Survives(Candidate)
    /\ pc' = "verify"
    /\ program' = Candidate
    /\ UNCHANGED <<task, stage, next, examples, counterexamples, failed>>

\* Fault: the templates are tried again.
RetryTemplates ==
    /\ pc = "search"
    /\ next \notin DOMAIN Candidates
    /\ pc' = IF stage = "fastpath" THEN "prepare" ELSE "failed"
    /\ UNCHANGED <<task, stage, next, examples, counterexamples, program, failed>>

\* No candidate is left: after the templates come the enumerated programs.
Exhausted ==
    /\ pc = "search"
    /\ next \notin DOMAIN Candidates
    /\ pc' = IF stage = "fastpath" THEN "prepare" ELSE "failed"
    /\ stage' = "synthesize"
    /\ UNCHANGED <<task, next, examples, counterexamples, program, failed>>

-----------------------------------------------------------------------------
\* Two values change places, whatever the types of their parameters, unless that
\* makes no difference to Python.
Swapped(in) ==
    IF Len(in) = 2 /\ in[1].n # in[2].n THEN <<<<in[2], in[1]>>>> ELSE <<>>

Negated(in) ==
    [i \in DOMAIN in |-> IF spec.params[i] = "Int" THEN IntValue(-in[i].n) ELSE in[i]]

\* Fault: negated values may leave the range of the specification.
FlippedAnyhow(in) ==
    IF spec.output = "Int" /\ Negated(in) # in THEN <<Negated(in)>> ELSE <<>>

\* For Int outputs all integers are negated, if they stay in range.
Flipped(in) ==
    IF /\ spec.output = "Int" /\ IntMin < 0 /\ 0 < IntMax
       /\ Negated(in) \in TypedInputs
       /\ Negated(in) # in
    THEN <<Negated(in)>>
    ELSE <<>>

\* _bvps_variants
Variants(in) == Swapped(in) \o Flipped(in)

\* The inputs of the consequence lane, in order: each drawn one is followed by
\* its variants.
Tested(drawn) ==
    LET upTo[k \in 0..Len(drawn)] ==
            IF k = 0 THEN <<>> ELSE upTo[k - 1] \o <<drawn[k]>> \o Variants(drawn[k])
    IN  upTo[Len(drawn)]

\* _bvps_eval_input returns a counterexample: without an oracle only a program
\* that raises is one.
Refuted(in) ==
    IF spec.oracle = NoProgram
    THEN Evaluate(program, in) = Raises
    ELSE Evaluate(program, in) # Evaluate(spec.oracle, in)

\* Its oracle raises, in a lane that has found no counterexample yet.
LaneRaises(tested) ==
    \E k \in DOMAIN tested :
        /\ OracleRaises(tested[k])
        /\ \A j \in 1..(k - 1) : ~Refuted(tested[j])

\* evaluate_examples, which does not use what the search has kept.
Recomputed == \A i \in DOMAIN spec.examples : Agrees(program, Expected(spec.examples[i]))

Failures(tested) ==
    (IF Recomputed THEN {} ELSE {"recompute"})
        \cup (IF <<spec, program>> \in Translates THEN {} ELSE {"translation"})
        \cup (IF \E k \in DOMAIN tested : Refuted(tested[k]) THEN {"consequence"} ELSE {})

\* max(1, fuzz_trials) inputs, drawn with the episode's seed.
Draws == [1..(IF spec.trials < 1 THEN 1 ELSE spec.trials) -> TypedInputs]

\* The lanes judge the program.
Verify(drawn) ==
    /\ pc = "verify"
    /\ ~LaneRaises(Tested(drawn))
    /\ pc' = "done"
    /\ failed' = Failures(Tested(drawn))
    /\ UNCHANGED <<task, search>>

\* Nothing catches what the oracle raises: the episode ends without a verdict.
VerifyRaises(drawn) ==
    /\ pc = "verify"
    /\ LaneRaises(Tested(drawn))
    /\ pc' = "raised"
    /\ UNCHANGED <<task, search, failed>>

Next ==
    \/ Prepare \/ PrepareRaises
    \/ ExpandRaises \/ Reject \/ Accept \/ Exhausted
    \/ \E k \in Trials : Refute(k)
    \/ \E k \in Trials : FuzzRaises(k)
    \/ \E drawn \in Draws : Verify(drawn)
    \/ \E drawn \in Draws : VerifyRaises(drawn)

Spec == Init /\ [][Next]_vars

-----------------------------------------------------------------------------
\* Types of the variables.
TypeOK ==
    /\ pc \in {"prepare", "search", "verify", "done", "failed", "raised"}
    /\ stage \in {"fastpath", "synthesize"}
    /\ next \in Nat \ {0}
    /\ program \in Programs \cup {NoProgram}
    /\ failed \subseteq {"recompute", "translation", "consequence"}

\* What a program has to satisfy: all examples, and the oracle on all draws.
Consistent(p) ==
    /\ \A i \in DOMAIN spec.examples : Agrees(p, Expected(spec.examples[i]))
    /\ Survives(p)

Budget == IF spec.maxPrograms < 1 THEN 1 ELSE spec.maxPrograms

\* The counterexamples prune the search and change nothing else: synthesize
\* returns the first enumerated program that satisfies the specification, and
\* fails only if there is none within the budget.
FindsFirst ==
    /\ program # NoProgram => Consistent(program)
    /\ stage = "synthesize" /\ pc \in {"verify", "done"} =>
          \A i \in 1..(next - 1) : ~Consistent(order[i])
    /\ pc = "failed" =>
          \A i \in DOMAIN order : i <= Budget => ~Consistent(order[i])

\* An input refutes at most one candidate, and one that is already an example
\* does so only where the specification contradicts its own oracle.
CounterexamplesNew ==
    /\ \A i, j \in DOMAIN counterexamples :
          counterexamples[i].in = counterexamples[j].in => i = j
    /\ \A i \in DOMAIN counterexamples, j \in DOMAIN spec.examples :
          counterexamples[i].in = spec.examples[j].in
              => spec.examples[j].out # Missing /\ counterexamples[i].out # spec.examples[j].out

\* An oracle that raises on none of the inputs the specification allows.
Total == spec.oracle # NoProgram /\ \A in \in TypedInputs : ~OracleRaises(in)

OneType == \A i, j \in DOMAIN spec.params : spec.params[i] = spec.params[j]

\* The lanes agree with the search, where all parameters have one type: they
\* judge what it found, and pass it if it computes what the oracle does and no
\* macro gives the enumeration ill-typed programs.
CorrectIsAnswered ==
    Total /\ OneType /\ program # NoProgram =>
        /\ pc # "raised"
        /\ /\ \A in \in TypedInputs : Evaluate(program, in) = Evaluate(spec.oracle, in)
           /\ \A i \in DOMAIN Candidates : <<spec, Candidates[i]>> \in Translates
           => failed = {}

\* README: every episode emits its witness packet with lane verdicts.  A
\* program that was found for a total oracle is judged.
FoundIsJudged == Total /\ program # NoProgram => pc # "raised"

\* The search has ended, with a program or without.
SearchEnded == pc \in {"done", "failed", "raised"}
=============================================================================
