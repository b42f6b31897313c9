------------------------------ MODULE MCSolve ------------------------------
(***************************************************************************)
(* Solve on small tasks.  The language of the searches has the operators   *)
(* sub and lt and the constant 0, integers go from -1 to 2.  Programs are  *)
(* numbers, their positions in a catalog of expressions.                   *)
(***************************************************************************)
EXTENDS Solve, Semantics

MCIntOps  == <<"sub">>
MCBoolOps == <<"lt">>
MCConsts  == <<0>>

MCIntMin    == -1
MCNoProgram == -1

X == Var(1)
Y == Var(2)

\* Macros: one that negates, one that is not of the type it declares, and one
\* that calls itself.
Macro(name, body) == [name |-> name, params |-> <<1>>, types |-> <<"Int">>, returns |-> "Int", body |-> body]
Negate == Macro(1, BinOp("sub", IntConst(0), X))
Below  == Macro(2, BinOp("lt", X, IntConst(0)))
Itself == Macro(3, BinOp("sub", MacroCall(3, <<X>>), X))

Enumeration(type, types, depth, macros) ==
    [output |-> type, params |-> types, depth |-> depth, macros |-> macros]

Shallow   == Enumeration("Int", <<"Int">>, 1, <<>>)
Deep      == Enumeration("Int", <<"Int">>, 2, <<>>)
TwoInts   == Enumeration("Int", <<"Int", "Int">>, 1, <<>>)
TwoBools  == Enumeration("Bool", <<"Bool", "Bool">>, 0, <<>>)
Mixed     == Enumeration("Int", <<"Int", "Bool">>, 0, <<>>)
Negating  == Enumeration("Int", <<"Int">>, 1, <<Negate>>)
IllTyped  == Enumeration("Int", <<"Int">>, 0, <<Negate, Below>>)
Recursive == Enumeration("Int", <<"Int">>, 0, <<Negate, Itself>>)

Enumerations == <<Shallow, Deep, TwoInts, TwoBools, Mixed, Negating, IllTyped, Recursive>>

\* Oracles and templates.
Extras ==
    << X, Y,
       IfThenElse(BinOp("lt", X, IntConst(0)), BinOp("sub", IntConst(0), X), X),   \* abs
       BinOp("mod", IntConst(1), X),                                               \* raises at 0
       IfThenElse(BinOp("lt", X, IntConst(-1)), IntConst(0), X),                   \* x, in range
       IfThenElse(BinOp("gt", X, Y), X, Y),                                        \* max
       BinOp("eq", BinOp("mod", X, IntConst(2)), IntConst(0)) >>                   \* even

\* What is computed here once is a definition, and a constant is given a second
\* one that names it: TLC evaluates anew what a constant stands for.  The name is
\* in a LET, where TLC's coverage does not follow it through the whole enumeration.
BlocksOf(enumerations) ==
    <<Extras>> \o Computed([k \in DOMAIN enumerations |-> Enumerated(enumerations[k])])

Blocks == BlocksOf(Enumerations)

Catalog == FlattenSeq(Blocks)

First   == 1
Second  == 2
Abs     == 3
Invert  == 4
Near    == 5
Largest == 6
Even    == 7

AllInputs == UNION {[1..n -> {IntValue(k) : k \in -2..2} \cup {BoolValue(k) : k \in 0..1}]
                        : n \in 1..2}

TableOf(c, inputs) ==
    [p \in DOMAIN c |-> ([in \in inputs |-> Interpreted(c[p], in)] @@ <<>>)]

Table == TableOf(Catalog, AllInputs)

MCBody     == LET known == Catalog IN known
MCPrograms == LET known == DOMAIN Catalog IN known
MCRun      == LET known == Table IN known

-----------------------------------------------------------------------------
Task(k, name, asked, oracle, templates, trials, budget) ==
    [search |-> k, name |-> name, examples |-> asked, oracle |-> oracle, templates |-> templates,
     trials |-> trials, maxPrograms |-> budget,
     output |-> Enumerations[k].output, params |-> Enumerations[k].params,
     depth |-> Enumerations[k].depth, macros |-> Enumerations[k].macros]

\* Examples: with an output, without one, and some that contradict the oracle.
At(k, out)      == [in |-> <<IntValue(k)>>, out |-> out]
Pair(a, b, out) == [in |-> <<IntValue(a), IntValue(b)>>, out |-> out]

Tasks ==
    {Task(1, "abs", <<At(1, Value(1))>>, o, <<Abs>>, t, b)
        : o \in {First, Abs}, t \in 0..2, b \in {0, 2, 99}}
    \cup
    {Task(1, "other", <<At(2, Missing)>>, o, <<>>, 2, 99) : o \in {Near, Invert, MCNoProgram}}
    \cup
    {Task(1, "other", <<At(k, Value(1)), At(0, Value(0))>>, o, <<>>, 2, 99)
        : k \in {-1, 2}, o \in {Abs, MCNoProgram}}
    \cup
    {Task(1, "other", <<At(0, Missing)>>, Invert, <<>>, 1, 99)}
    \cup
    {Task(1, "other", <<At(1, Value(-1)), At(2, Value(-2))>>, MCNoProgram, <<>>, 0, 99)}
    \cup
    {Task(2, "other", <<At(2, Missing)>>, Abs, <<>>, 2, 40)}
    \cup
    {Task(2, "other", <<At(-1, Value(1)), At(0, v), At(1, Value(0)), At(2, Value(2))>>,
          MCNoProgram, <<>>, 0, 999) : v \in {Value(0), Value(2)}}
    \cup
    {Task(3, "max", <<Pair(1, 1, Missing)>>, o, <<Largest>>, 1, b)
        : o \in {Second, Abs, Largest, Invert}, b \in {2, 99}}
    \cup
    {Task(4, "other", <<>>, Second, <<>>, 2, 9)}
    \cup
    {Task(5, "other", <<[in |-> <<IntValue(2), BoolValue(1)>>, out |-> Value(2)]>>, o, <<>>, 1, 9)
        : o \in {First, MCNoProgram}}
    \cup
    {Task(k, "other", <<At(2, v)>>, MCNoProgram, <<>>, 0, 99) : k \in {6, 7, 8}, v \in {Value(-2), Value(0), Value(1)}}
    \cup
    {Task(6, "other", <<At(2, Missing)>>, Abs, <<>>, 2, 99)}

\* The positions of each enumeration in the catalog.
Numbered(block, start) ==
    Computed([i \in DOMAIN block |-> IF block[i] = Broken THEN 0 ELSE start + i])

Positions(blocks) ==
    LET Earlier(k) == FoldLeft(LAMBDA a, b : a + Len(b), 0, SubSeq(blocks, 1, k))
    IN  Computed([k \in 1..(Len(blocks) - 1) |->
                    LET start == Earlier(k) IN Numbered(blocks[k + 1], start)])

Lists == Positions(Blocks)

Assigned(lists) == [s \in {t \in Tasks : t.search \in DOMAIN lists} |-> lists[s.search]]

ListOf == Assigned(Lists)

TypedIn(c, lists) ==
    LET Fits(s) == {p \in Met(s, lists[s]) : p \in DOMAIN c /\ WellTyped(s, c[p])}
    IN  UNION {{<<s, p>> : p \in Fits(s)} : s \in DOMAIN lists}

Typed == TypedIn(Catalog, ListOf)

MCSpecs      == Tasks
MCOrderOf    == LET known == ListOf IN known
MCOrders     == LET known == ToSet(Lists) IN known
MCTranslates == LET known == Typed IN known

-----------------------------------------------------------------------------
MCExprs == {"three", "div0", "root"}
MCWorth == [e \in MCExprs |-> CASE e = "three" -> Num(3) [] e = "div0" -> Raised [] OTHER -> Complex]

ShortLists(n) == UNION {[1..k -> {-1, 1}] : k \in 0..n}

ShortOnes == ShortLists(2)
MCSamples == ShortOnes

\* Programs that a model writes: one computes the operation it is asked for, one
\* only on short lists, one never, and one fails.
MCWritten == {"idle", "broken", "lucky"}
MCBehaves(p, xs) ==
    CASE p = "idle"   -> Nothing
      [] p = "broken" -> IF xs = <<>> THEN Num(0) ELSE Raised
      [] p = "lucky"  -> Num(IF Len(xs) = 1 THEN xs[1] ELSE IF Len(xs) = 3 THEN 7 ELSE 0)

Proposed ==
    [kind \in {"arith", "list", "world", "unknown"} |->
        {Nothing} \cup
        (IF kind = "world" THEN {List(s) : s \in UNION {[1..k -> {"right", "down", "wave"}] : k \in 0..2}}
         ELSE {Num(0), Num(1), Num(3), Num(7), Num(6)})]

MCProposals == Proposed

ArithJobs == {[kind |-> "arith", expr |-> e] : e \in MCExprs \cup {"absent", "blank"}}

ListJobs ==
    {[kind |-> "list", op |-> op, input |-> xs, examples |-> asked]
        : op \in {"sum", "max", "reverse", "is_sorted", "other"},
          xs \in {NoInput, <<>>, <<1>>, <<1, -1>>, <<1, -1, -1>>, <<5>>},
          asked \in {<<>>, <<Sample(<<1>>, Unasked)>>, <<Sample(<<1>>, Num(1))>>,
                     <<Sample(<<1, 1>>, Num(2)), Sample(<<>>, Unasked)>>,
                     <<Sample(<<1, 1, 1>>, Num(3))>>}}

WorldJobs ==
    {[kind |-> "world", width |-> w, height |-> 2, goal |-> goal, blocked |-> blocked,
      script |-> script, exact |-> exact]
        : w \in {1, 2, 3}, goal \in {<<0, 0>>, <<1, 1>>, <<2, 0>>, <<-1, 0>>},
          blocked \in {{}, {<<0, 0>>}, {<<1, 0>>}, {<<1, 1>>}, {<<0, 1>>}},
          script \in {Nothing, <<>>, <<"right", "down">>, <<"right", "left", "wave">>},
          exact \in BOOLEAN}

AllJobs == ArithJobs \cup ListJobs \cup WorldJobs \cup {[kind |-> "unknown"]}

MCJobs == AllJobs

====
