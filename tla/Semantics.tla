----------------------------- MODULE Semantics -----------------------------
(***************************************************************************)
(* What BVPS expressions mean: what they compute (bvps/interp.py), the     *)
(* type that the translation lane infers for them (verify/lanes.py), the   *)
(* expansion of macro calls (language/apply.py), and their depth and sort  *)
(* key (bvps/ast.py, bvps/enumerate.py).  All are recursive operators on   *)
(* expressions: the modules that are reasoned about take them as           *)
(* parameters.                                                             *)
(***************************************************************************)
EXTENDS Expressions

IntOps == {"sub", "mod", "add", "mul"}

Children(e) ==
    CASE e.node = "binop" -> <<e.left, e.right>>
      [] e.node = "if"    -> <<e.cond, e.yes, e.no>>
      [] e.node = "macro" -> e.args
      [] OTHER            -> <<>>

Larger(a, b) == IF a < b THEN b ELSE a

\* expr_depth: the arguments of a macro call do not count.
RECURSIVE Depth(_)
Depth(e) ==
    IF Children(e) = <<>> \/ e.node = "macro" THEN 0
    ELSE 1 + FoldLeft(Larger, 0, [i \in DOMAIN Children(e) |-> Depth(Children(e)[i])])

RECURSIVE HasNode(_, _)
HasNode(e, node) ==
    e.node = node \/ \E i \in DOMAIN Children(e) : HasNode(Children(e)[i], node)

-----------------------------------------------------------------------------
\* A remainder has the sign of the divisor.
Modulo(a, b) == IF b > 0 THEN a % b ELSE -((-a) % (-b))

Operate(op, a, b) ==
    CASE op = "add" -> a + b
      [] op = "sub" -> a - b
      [] op = "mul" -> a * b
      [] op = "mod" -> Modulo(a, b)
      [] op = "lt"  -> Truth(a < b)
      [] op = "gt"  -> Truth(a > b)
      [] op = "eq"  -> Truth(a = b)

Gives(k, steps)  == [ok |-> TRUE, n |-> k, steps |-> steps]
Fails == [ok |-> FALSE, n |-> 0, steps |-> 0]

\* Interpreter.evaluate without its budget: a result and the steps it takes.
RECURSIVE Eval(_, _)
Eval(e, env) ==
    CASE e.node \in {"int", "bool"} -> Gives(e.value, 1)
      [] e.node = "var" -> IF e.index \in DOMAIN env THEN Gives(env[e.index], 1) ELSE Fails
      [] e.node = "binop" ->
            LET l == Eval(e.left, env)
                r == Eval(e.right, env)
            IN  IF ~l.ok \/ ~r.ok \/ (e.op = "mod" /\ r.n = 0) THEN Fails
                ELSE Gives(Operate(e.op, l.n, r.n), 1 + l.steps + r.steps)
      [] e.node = "if" ->
            LET c == Eval(e.cond, env)
                b == Eval(IF c.n # 0 THEN e.yes ELSE e.no, env)
            IN  IF ~c.ok \/ ~b.ok THEN Fails ELSE Gives(b.n, 1 + c.steps + b.steps)
      [] OTHER -> Fails

\* step_budget exceeded: it raises as for any other error.
Evaluated(e, env, budget) ==
    LET r == Eval(e, env) IN IF r.ok /\ r.steps <= budget THEN r ELSE Fails

-----------------------------------------------------------------------------
\* _bvps_infer_type: "none" where it raises.
RECURSIVE InferType(_, _)
InferType(e, types) ==
    LET Of(x) == InferType(x, types)
    IN  CASE e.node = "int"  -> "Int"
          [] e.node = "bool" -> "Bool"
          [] e.node = "var"  -> IF e.index \in DOMAIN types THEN types[e.index] ELSE "none"
          [] e.node = "binop" /\ e.op \in IntOps ->
                IF Of(e.left) = "Int" /\ Of(e.right) = "Int" THEN "Int" ELSE "none"
          [] e.node = "binop" /\ e.op \in {"lt", "gt"} ->
                IF Of(e.left) = "Int" /\ Of(e.right) = "Int" THEN "Bool" ELSE "none"
          [] e.node = "binop" /\ e.op = "eq" ->
                IF Of(e.left) = Of(e.right) /\ Of(e.left) # "none" THEN "Bool" ELSE "none"
          [] e.node = "if" ->
                IF Of(e.cond) = "Bool" /\ Of(e.yes) = Of(e.no) THEN Of(e.yes) ELSE "none"
          [] OTHER -> "none"

-----------------------------------------------------------------------------
\* _substitute: values for variables.
RECURSIVE Substitute(_, _)
Substitute(e, map) ==
    CASE e.node = "var"   -> IF e.index \in DOMAIN map THEN map[e.index] ELSE e
      [] e.node = "binop" -> BinOp(e.op, Substitute(e.left, map), Substitute(e.right, map))
      [] e.node = "if"    -> IfThenElse(Substitute(e.cond, map), Substitute(e.yes, map),
                                        Substitute(e.no, map))
      [] e.node = "macro" -> MacroCall(e.name, [i \in DOMAIN e.args |-> Substitute(e.args[i], map)])
      [] OTHER -> e

Named(macros, name) == {m \in ToSet(macros) : m.name = name}

\* _expand_expr.  Calls nested deeper than there are macros never end: Python
\* gives up, with an exception as for a macro that is unknown or called wrongly.
RECURSIVE ExpandIn(_, _, _)
ExpandIn(e, macros, nesting) ==
    LET Inner(x) == ExpandIn(x, macros, nesting)
    IN  CASE e.node = "binop" -> BinOp(e.op, Inner(e.left), Inner(e.right))
          [] e.node = "if"    -> IfThenElse(Inner(e.cond), Inner(e.yes), Inner(e.no))
          [] e.node = "macro" ->
                IF \E m \in Named(macros, e.name) : Len(m.params) = Len(e.args) /\ nesting > 0
                THEN LET m   == CHOOSE x \in Named(macros, e.name) : TRUE
                         map == [v \in ToSet(m.params) |->
                                    Inner(e.args[CHOOSE i \in DOMAIN e.args : m.params[i] = v])]
                     IN  ExpandIn(Substitute(m.body, map), macros, nesting - 1)
                ELSE Broken
          [] OTHER -> e

Expand(e, macros) == ExpandIn(e, macros, Len(macros))

\* expand_program raises if an expansion did so anywhere.
Expansion(e, macros) ==
    LET x == Expand(e, macros) IN IF HasNode(x, "broken") THEN Broken ELSE x

-----------------------------------------------------------------------------
\* _expr_sort_key; macros are named by numbers, in alphabetical order.
RECURSIVE ExprKey(_)
ExprKey(e) ==
    CASE e.node = "var"   -> <<0, e.index>>
      [] e.node = "int"   -> <<1, Rank(IntConstOrder, e.value), e.value>>
      [] e.node = "bool"  -> <<1, 1 - e.value>>
      [] e.node = "binop" ->
            <<2, Rank(IF e.op \in ToSet(BoolOpOrder) THEN BoolOpOrder ELSE IntOpOrder, e.op)>>
                \o ExprKey(e.left) \o ExprKey(e.right)
      [] e.node = "if"    -> <<3>> \o ExprKey(e.cond) \o ExprKey(e.yes) \o ExprKey(e.no)
      [] e.node = "macro" -> <<9, e.name>>
=============================================================================
