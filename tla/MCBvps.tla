------------------------------- MODULE MCBvps -------------------------------
(***************************************************************************)
(* Bvps on small tasks: integers from -1 to 2, one or two parameters, a    *)
(* handful of programs: one raises at zero, one differs from abs on        *)
(* negative numbers only and one just beyond the range.                    *)
(***************************************************************************)
EXTENDS Bvps

MCIntMin == -1

MCPrograms == {"first", "second", "abs", "zero", "invert", "near"}

\* What the programs compute on the values of their parameters.
Compute(p, in) ==
    CASE p = "first"  -> Value(in[1].n)
      [] p = "second" -> Value(in[Len(in)].n)
      [] p = "abs"    -> Value(IF in[1].n < 0 THEN -in[1].n ELSE in[1].n)
      [] p = "near"   -> Value(IF in[1].n = -2 THEN 0 ELSE IF in[1].n < 0 THEN 1 ELSE in[1].n)
      [] p = "zero"   -> Value(0)
      [] p = "invert" -> IF in[1].n = 0 THEN Raises ELSE Value(1)

AllInputs == UNION {[1..n -> {IntValue(k) : k \in -2..2} \cup {BoolValue(k) : k \in 0..1}]
                        : n \in 1..2}

MCRun == [p \in MCPrograms |-> [in \in AllInputs |-> Compute(p, in)]]

\* Enumerations that reach a right program first, late or never.
MCOrders ==
    {<<"zero", "first", "abs", "second">>, <<"first", "invert", "near", "second">>,
     <<"invert", "abs", "first">>, <<"second", "zero">>}

Task(params, output, given, oracle, templates, trials, budget) ==
    [params |-> params, output |-> output, examples |-> given, oracle |-> oracle,
     templates |-> templates, trials |-> trials, maxPrograms |-> budget]

Unary == <<"Int">>

\* Examples: with an output, without one, and one that contradicts the oracle.
At(k, out) == [in |-> <<IntValue(k)>>, out |-> out]
Pair(a, b, out) == [in |-> <<IntValue(a), IntValue(b)>>, out |-> out]

MCSpecs ==
    {Task(Unary, "Int", <<At(1, Value(1))>>, "abs", <<"first">>, t, b) : t \in 0..2, b \in {0, 2, 3, 9}}
    \cup
    {Task(Unary, "Int", <<At(2, Missing)>>, o, <<>>, 2, 9) : o \in {"abs", "invert", NoProgram}}
    \cup
    {Task(Unary, "Int", <<At(k, Value(1)), At(0, Value(0))>>, o, <<"abs">>, 2, 9)
        : k \in {-1, 2}, o \in {"abs", NoProgram}}
    \cup
    {Task(Unary, "Int", <<At(0, Missing)>>, "invert", <<>>, 1, 9)}
    \cup
    {Task(<<"Int", "Int">>, "Int", <<Pair(1, 1, Missing)>>, o, <<"first">>, 1, b)
        : o \in {"second", "abs", "invert"}, b \in {2, 9}}
    \cup
    {Task(<<"Bool", "Bool">>, "Bool", <<>>, "second", <<>>, 2, 9)}
    \cup
    {Task(<<"Int", "Bool">>, "Int", <<[in |-> <<IntValue(2), BoolValue(1)>>, out |-> Value(2)]>>,
          o, <<>>, 1, 9) : o \in {"first", NoProgram}}

\* No task has macros, and the types of all programs agree.
MCTranslates == MCSpecs \X MCPrograms
=============================================================================
