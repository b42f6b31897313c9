----------------------------- MODULE Enumerate -----------------------------
(***************************************************************************)
(* The programs that bvps/enumerate.py lists for a specification, in its   *)
(* order: by depth, and at each depth by the shapes it believes likely.    *)
(* The depth and the sort key of an expression, which are recursive        *)
(* operators of Semantics, are parameters.                                 *)
(***************************************************************************)
EXTENDS Expressions, TLC

CONSTANTS DepthOf(_),      \* expr_depth
          KeyOf(_)         \* _expr_sort_key

\* Sort keys, tuples of tuples in the code, are compared item by item.
Before(a, b) ==
    \E i \in DOMAIN a \cap DOMAIN b : a[i] < b[i] /\ \A j \in 1..(i - 1) : a[j] = b[j]

\* _cond_pattern_rank
PatternRank(l, r) ==
    Rank(<<<<"var", "int">>, <<"var", "var">>, <<"int", "var">>, <<"int", "int">>>>,
         <<l.node, r.node>>)

OperandKey(e) == (IF e.node \in {"var", "int"} THEN <<>> ELSE <<2>>) \o KeyOf(e)

\* _cond_sort_key: comparisons first, a variable with a constant before others.
CondKey(e) ==
    IF IsBinOp(e)
    THEN <<0, PatternRank(e.left, e.right), Rank(CondOpOrder, e.op)>>
            \o OperandKey(e.left) \o OperandKey(e.right)
    ELSE <<IF IsIf(e) THEN 2 ELSE 1>> \o KeyOf(e)

-----------------------------------------------------------------------------
\* TLC computes the items of a concatenation once, those of a function each time
\* that they are used.
Computed(s) == <<>> \o s

\* Each two neighbours of a list of lists, put together.
Halved(lists) ==
    Computed([i \in 1..((Len(lists) + 1) \div 2) |->
        IF 2 * i <= Len(lists) THEN lists[2 * i - 1] \o lists[2 * i] ELSE lists[2 * i - 1]])

\* The lists of a list, one after the other.  (FlattenSeq goes as deep as the list
\* is long, too deep for TLC.)
Joined(lists) ==
    LET round[k \in 0..Len(lists)]  == IF k = 0 THEN Computed(lists) ELSE Halved(round[k - 1])
        length[k \in 0..Len(lists)] == IF k = 0 THEN Len(lists) ELSE (length[k - 1] + 1) \div 2
        last == CHOOSE k \in 0..Len(lists) : length[k] <= 1
    IN  IF Len(lists) = 0 THEN <<>> ELSE round[last][1]

\* The items of a list that are in a set.
Only(s, keep) == Joined([i \in DOMAIN s |-> IF s[i] \in keep THEN <<s[i]>> ELSE <<>>])

\* Two and three nested loops over lists.
Pairs(s, t) == Joined([i \in DOMAIN s |-> [j \in DOMAIN t |-> <<s[i], t[j]>>]])

Triples(s, t, u) ==
    LET loops == Pairs(s, Pairs(t, u))
    IN  Computed([k \in DOMAIN loops |-> <<loops[k][1], loops[k][2][1], loops[k][2][2]>>])

\* An item takes its place in a sorted list, behind those with an equal key.
Placed(list, x) ==
    LET later == {y \in ToSet(list) : Before(x[1], y[1])}
    IN  Only(list, ToSet(list) \ later) \o <<x>> \o Only(list, later)

\* sorted: the items of a list of pairs of a key and an item.
Sorted(keyed) ==
    LET upTo[k \in 0..Len(keyed)] == IF k = 0 THEN <<>> ELSE Placed(upTo[k - 1], keyed[k])
        list == upTo[Len(keyed)]
    IN  Computed([i \in DOMAIN list |-> list[i][2]])

\* _dedupe_exprs
Deduped(s) ==
    LET first == {i \in DOMAIN s : \A j \in 1..(i - 1) : s[j] # s[i]}
        kept  == Only([i \in DOMAIN s |-> i], first)
    IN  Computed([k \in DOMAIN kept |-> s[kept[k]]])

\* "filtered or exprs"
Prefer(s, likely) == IF Only(s, likely) = <<>> THEN s ELSE Only(s, likely)

-----------------------------------------------------------------------------
VarsOf(type, types) ==
    LET indices == Only([i \in DOMAIN types |-> i], {i \in DOMAIN types : types[i] = type})
    IN  [k \in DOMAIN indices |-> Var(indices[k])]

Constants(type) ==
    IF type = "Int" THEN [i \in DOMAIN IntConstOrder |-> IntConst(IntConstOrder[i])]
                    ELSE <<BoolConst(1), BoolConst(0)>>

\* A macro is called on the variables named as its parameters.
Applicable(m, type, types) ==
    /\ m.returns = type /\ Len(m.params) = Len(m.types)
    /\ \A i \in DOMAIN m.params : m.params[i] \in DOMAIN types /\ types[m.params[i]] = m.types[i]

\* _macro_exprs
MacroExprs(type, types, macros) ==
    LET fitting == Only(macros, {m \in ToSet(macros) : Applicable(m, type, types)})
    IN  [k \in DOMAIN fitting |->
            MacroCall(fitting[k].name,
                      [i \in DOMAIN fitting[k].params |-> Var(fitting[k].params[i])])]

BaseExprs(type, types, macros) ==
    MacroExprs(type, types, macros) \o Constants(type) \o VarsOf(type, types)

\* _depth_pairs and _depth_triples: at least one part has the full depth.
Depths(depth) == [i \in 1..depth |-> i - 1]

Splits(loops, depth) ==
    LET Shallow(d) == [i \in DOMAIN d |-> Truth(d[i] # depth - 1)]
        Key(d) == <<FoldLeft(LAMBDA a, b : a + b, 0, d)>> \o Shallow(d) \o d
        full   == Only(loops, {d \in ToSet(loops) : \E i \in DOMAIN d : d[i] = depth - 1})
    IN  Sorted([k \in DOMAIN full |-> <<Key(full[k]), full[k]>>])

DepthPairs(depth)   == Splits(Pairs(Depths(depth), Depths(depth)), depth)
DepthTriples(depth) == Splits(Triples(Depths(depth), Depths(depth), Depths(depth)), depth)

\* _seed_if_exprs: conditionals in the shape of abs, max and clamp.
SeedConstants == <<IntConst(0), IntConst(1)>>

SeedConditions(vars) ==
    LET Both(f, g, p)  == <<BinOp(f, p[1], p[2]), BinOp(g, p[1], p[2])>>
        withConstants  == Pairs(vars, SeedConstants)
        withVariables  == Pairs(vars, vars)
    IN  Joined([k \in DOMAIN withConstants |-> Both("lt", "gt", withConstants[k])])
          \o Joined([k \in DOMAIN withVariables |->
                IF withVariables[k][1] = withVariables[k][2] THEN <<>>
                ELSE Both("gt", "lt", withVariables[k])])

SeedBranches(vars) ==
    LET pairs == Pairs(vars, SeedConstants)
    IN  vars \o SeedConstants
          \o Joined([k \in DOMAIN pairs |-> <<BinOp("sub", pairs[k][2], pairs[k][1]),
                                                  BinOp("sub", pairs[k][1], pairs[k][2])>>])

Conditionals(conds, yeses, noes) ==
    LET loops == Triples(conds, yeses, noes)
    IN  Computed([k \in DOMAIN loops |-> IfThenElse(loops[k][1], loops[k][2], loops[k][3])])

Seeds(conds, branches, depth) ==
    LET all == Conditionals(conds, branches, branches)
    IN  Deduped(Only(all, {e \in ToSet(all) : DepthOf(e) = depth}))

SeedIfs(vars, depth) == Seeds(SeedConditions(vars), SeedBranches(vars), depth)

-----------------------------------------------------------------------------
\* The expressions of less depth: for each depth, of type Int and of type Bool.
Of(level, type) == IF type = "Int" THEN level[1] ELSE level[2]

OfDepth(earlier, type, depth) == Of(earlier[depth + 1], type)

\* _ordered_exprs, _ordered_cond_exprs
ByKey(s)     == Sorted([i \in DOMAIN s |-> <<KeyOf(s[i]), s[i]>>])
ByPattern(s) == Sorted([i \in DOMAIN s |-> <<CondKey(s[i]), s[i]>>])

Operands(earlier, depth) == ByKey(OfDepth(earlier, "Int", depth))

\* _filter_cond_exprs, _filter_branch_exprs
Conditions(earlier, depth) ==
    LET list == ByPattern(OfDepth(earlier, "Bool", depth))
    IN  Prefer(list, {e \in ToSet(list) : IsBinOp(e)})

Branches(earlier, type, depth) ==
    LET list == ByKey(OfDepth(earlier, type, depth))
    IN  Prefer(list, {e \in ToSet(list) : ~IsIf(e)})

OpsOf(type) == IF type = "Int" THEN IntOpOrder ELSE BoolOpOrder

\* _binop_exprs
Operations(op, lefts, rights) ==
    LET loops == Pairs(lefts, rights)
    IN  [k \in DOMAIN loops |-> BinOp(op, loops[k][1], loops[k][2])]

BinOpExprs(type, depth, earlier) ==
    LET loops == Pairs(OpsOf(type), DepthPairs(depth))
    IN  Joined([k \in DOMAIN loops |->
            Operations(loops[k][1], Operands(earlier, loops[k][2][1]),
                                    Operands(earlier, loops[k][2][2]))])

\* _if_exprs
IfExprs(type, types, depth, earlier) ==
    LET loops == DepthTriples(depth)
    IN  (IF type = "Int" THEN SeedIfs(VarsOf("Int", types), depth) ELSE <<>>)
          \o Joined([k \in DOMAIN loops |->
                Conditionals(Conditions(earlier, loops[k][1]),
                             Branches(earlier, type, loops[k][2]),
                             Branches(earlier, type, loops[k][3]))])

Ordered(type, ifs, binops) == IF type = "Int" THEN ifs \o binops ELSE binops \o ifs

\* _exprs_at_depth
ExprsAtDepth(type, types, depth, earlier) ==
    Deduped(Ordered(type, IfExprs(type, types, depth, earlier), BinOpExprs(type, depth, earlier)))

BaseLevel(types, macros) == <<BaseExprs("Int", types, macros), BaseExprs("Bool", types, macros)>>

NextLevel(types, depth, earlier) ==
    <<ExprsAtDepth("Int", types, depth, earlier), ExprsAtDepth("Bool", types, depth, earlier)>>

\* What the dictionary "cache" holds of all depths: each depth uses those below.
Levels(types, macros, maxDepth) ==
    LET upTo[depth \in 0..maxDepth] ==
            IF depth = 0 THEN <<BaseLevel(types, macros)>>
            ELSE LET earlier == upTo[depth - 1]
                 IN  Append(earlier, NextLevel(types, depth, earlier))
    IN  upTo[maxDepth]

\* Fault: the last depth is left out.
EnumerateShallow(type, types, maxDepth, macros) ==
    LET levels == Levels(types, macros, maxDepth)
    IN  Joined([d \in 1..maxDepth |-> Of(levels[d], type)])

\* enumerate_programs: the bodies; their calls of macros are not yet expanded.
EnumeratePrograms(type, types, maxDepth, macros) ==
    LET levels == Levels(types, macros, maxDepth)
    IN  Joined([d \in 1..(maxDepth + 1) |-> Of(levels[d], type)])

-----------------------------------------------------------------------------
\* What the enumeration is meant to list: the expressions of a depth at most,
\* except conditionals that are directly a condition or a branch of another.
\* For each depth, the set for type Int and the set for type Bool.
Plain(exprs) == {e \in exprs : ~IsIf(e)}

Grown(type, smaller) ==
    Of(smaller, type)
      \cup {BinOp(op, l, r) : op \in ToSet(OpsOf(type)), l \in Of(smaller, "Int"), r \in Of(smaller, "Int")}
      \cup {IfThenElse(c, y, n) : c \in Plain(Of(smaller, "Bool")),
                                  y \in Plain(Of(smaller, type)), n \in Plain(Of(smaller, type))}

Grammar(type, types, maxDepth, macros) ==
    LET upTo[depth \in 0..maxDepth] ==
            IF depth = 0
            THEN <<ToSet(BaseExprs("Int", types, macros)), ToSet(BaseExprs("Bool", types, macros))>>
            ELSE LET smaller == upTo[depth - 1]
                 IN  <<Grown("Int", smaller), Grown("Bool", smaller)>>
    IN  Of(upTo[maxDepth], type)
=============================================================================
