---------------------------- MODULE Expressions ----------------------------
(***************************************************************************)
(* The expressions of BVPS programs (bvps/ast.py).  The operators and the  *)
(* constants of the language are parameters.  Variables are numbers, in    *)
(* the alphabetical order of their names; the booleans are 0 and 1.        *)
(***************************************************************************)
EXTENDS Integers, Sequences, SequencesExt

CONSTANTS IntOpOrder, BoolOpOrder, CondOpOrder,   \* operators, the likely ones first
          IntConstOrder                           \* integer constants

ASSUME LanguageAssumption ==
    /\ IntOpOrder \in Seq(STRING) /\ BoolOpOrder \in Seq(STRING)
    /\ IntConstOrder \in Seq(Int)

IntConst(k)            == [node |-> "int", value |-> k]
BoolConst(k)           == [node |-> "bool", value |-> k]
Var(i)                 == [node |-> "var", index |-> i]
BinOp(op, left, right) == [node |-> "binop", op |-> op, left |-> left, right |-> right]
IfThenElse(cond, yes, no) == [node |-> "if", cond |-> cond, yes |-> yes, no |-> no]
MacroCall(name, args)  == [node |-> "macro", name |-> name, args |-> args]

\* Where an expansion raised.
Broken == [node |-> "broken"]

IsIf(e)    == e.node = "if"
IsBinOp(e) == e.node = "binop"

Truth(P) == IF P THEN 1 ELSE 0

\* The position of an item in an order; one that is not in it comes last.
Rank(list, x) ==
    IF x \in ToSet(list) THEN CHOOSE i \in DOMAIN list : list[i] = x ELSE Len(list) + 1
=============================================================================
