---------------------------- MODULE MCBvpsCache ----------------------------
(***************************************************************************)
(* BvpsCache on one scope with two specifications and two patches.  Each   *)
(* patch brings a macro; with both, the program found depends on which one *)
(* comes first; one specification has a program only with macros.          *)
(***************************************************************************)
EXTENDS BvpsCache

MCSpecs == {[name |-> "abs", id |-> 1], [name |-> "abs", id |-> 2]}

MCPatches ==
    {[name |-> "one", scope |-> "abs", macros |-> <<[name |-> "m", body |-> 1]>>],
     [name |-> "two", scope |-> "abs", macros |-> <<[name |-> "k", body |-> 2]>>]}

MCSynth(s, dict) ==
    IF dict = <<>> THEN IF s.id = 1 THEN "plain" ELSE NoProgram
                   ELSE dict[1].name

Patch(n) == CHOOSE x \in MCPatches : x.name = n

\* The second workspace has registered its patches in the opposite order.
MCHome(p)       == IF p = "p2" THEN "w2" ELSE "w1"
MCRegistries(w) == {IF w = "w1" THEN <<>> ELSE <<Patch("two"), Patch("one")>>}

Hash(e) == 10 * e.spec.id + 2 * Cardinality(e.key[2]) + (IF e.program = "m" THEN 1 ELSE 0)

MCFirst(S) == CHOOSE e \in S : \A f \in S : Hash(e) <= Hash(f)
=============================================================================
