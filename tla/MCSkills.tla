------------------------------ MODULE MCSkills ------------------------------
(***************************************************************************)
(* Skills with three tasks: two of the same name that want different       *)
(* programs, one of which suits both, and one whose name contains theirs.  *)
(***************************************************************************)
EXTENDS Skills, TLC

MCSpecs == {[name |-> "abs", id |-> 1], [name |-> "abs", id |-> 2], [name |-> "abs_diff", id |-> 1]}

MCTriggered(s) == IF s.name = "abs" THEN {"abs"} ELSE {"abs", "abs_diff"}

MCFirstName(S) == IF "abs" \in S THEN "abs" ELSE CHOOSE n \in S : TRUE

MCAnswer(s) == IF s.name = "abs_diff" THEN "diff" ELSE IF s.id = 1 THEN "mirror" ELSE "plain"

MCAccepts(s, g) == g = MCAnswer(s) \/ (s.name = "abs" /\ g = "mirror")

\* The gates' own variants refute the program that suits both for the second.
MCGates(s, g) == s.id = 1 \/ g # "mirror"

Interchangeable == Permutations(Procs)
=============================================================================
