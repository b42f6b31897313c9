---------------------------- MODULE AnswerProofs ----------------------------
(***************************************************************************)
(* What the two ways of answering a task guarantee, for any tasks.  Bvps:  *)
(* the search returns the first program that satisfies its specification,  *)
(* no input refutes two candidates, and the lanes pass what is correct.    *)
(* Enumerate: every expression of the language is listed.  Solve: a search *)
(* that fails after all of them has overlooked none.  Kernel: an answer is *)
(* right whatever the kernel proposed, and what the stub proposes for one  *)
(* it can do is answered.  Both ways come to an end: each of their steps   *)
(* lowers a bound on those that are left.                                  *)
(***************************************************************************)
EXTENDS Solve, SequenceTheorems, WellFoundedInduction, NaturalsInduction, TLAPS

-----------------------------------------------------------------------------
(* Functions that are defined by recursion on a position: there is one, and  *)
(* what holds of its values is shown by induction, over a set of numbers.    *)

\* A set of natural numbers that is not empty has a least element.
LEMMA Least ==
    ASSUME NEW S \in SUBSET Nat, S # {}
    PROVE  \E x \in S : \A y \in S : x <= y
<1> DEFINE R == {z \in Nat \X Nat : z[1] < z[2]}
<1>1. IsWellFoundedOn(R, Nat)
  BY NatLessThanWellFounded DEF OpToRel
<1> HIDE DEF R
<1>2. PICK x \in S : \A y \in S : ~(<<y, x>> \in R)
  BY <1>1, WFMin
<1>3. \A y \in S : ~(y < x)
  BY <1>2 DEF R
<1> QED
  BY <1>3

\* A set that has zero, and the successor of each of its elements, has all.
LEMMA SetInduction ==
    ASSUME NEW S \in SUBSET Nat, 0 \in S, \A n \in S : n + 1 \in S
    PROVE  S = Nat
<1> SUFFICES ASSUME Nat \ S # {} PROVE FALSE
  OBVIOUS
<1>1. PICK x \in Nat \ S : \A y \in Nat \ S : x <= y
  BY Least
<1>2. x - 1 \in Nat /\ x - 1 \notin Nat \ S
  BY <1>1
<1> QED
  BY <1>1, <1>2

\* The results of n steps that are taken one after the other from c.
Results(g, n, c, step) == g = [k \in 0..n |-> IF k = 0 THEN c ELSE step[k][g[k - 1]]]

\* Steps on a set have results.
LEMMA Recursion ==
    ASSUME NEW S, NEW c \in S, NEW n \in Nat, NEW step \in [1..n -> [S -> S]]
    PROVE  \E g \in [0..n -> S] : Results(g, n, c, step)
<1> DEFINE Good == {m \in Nat : m <= n => \E g \in [0..m -> S] : Results(g, m, c, step)}
<1>1. 0 \in Good
  <2> DEFINE g == [k \in 0..0 |-> c]
  <2>1. \A k \in 0..0 : k = 0
    OBVIOUS
  <2>2. \A k \in 0..0 : g[k] = IF k = 0 THEN c ELSE step[k][g[k - 1]]
    BY <2>1
  <2>3. g \in [0..0 -> S]
    OBVIOUS
  <2>4. g = [k \in 0..0 |-> g[k]]
    OBVIOUS
  <2> HIDE DEF g
  <2>5. Results(g, 0, c, step)
    BY <2>2, <2>4 DEF Results
  <2>6. \E h \in [0..0 -> S] : Results(h, 0, c, step)
    BY <2>3, <2>5
  <2> QED
    BY <2>6
<1>2. ASSUME NEW m \in Good PROVE m + 1 \in Good
  <2> SUFFICES ASSUME m + 1 <= n PROVE \E g \in [0..(m + 1) -> S] : Results(g, m + 1, c, step)
    OBVIOUS
  <2>1. PICK f \in [0..m -> S] : Results(f, m, c, step)
    OBVIOUS
  <2> DEFINE g == [k \in 0..(m + 1) |-> IF k = m + 1 THEN step[m + 1][f[m]] ELSE f[k]]
  <2>2. g \in [0..(m + 1) -> S]
    OBVIOUS
  <2>3. ASSUME NEW k \in 0..(m + 1) PROVE g[k] = IF k = 0 THEN c ELSE step[k][g[k - 1]]
    <3>1. CASE k = m + 1
      BY <3>1
    <3>2. CASE k # m + 1
      <4>1. f[k] = IF k = 0 THEN c ELSE step[k][f[k - 1]]
        BY <2>1, <3>2 DEF Results
      <4> QED
        BY <3>2, <4>1
    <3> QED
      BY <3>1, <3>2
  <2>4. g = [k \in 0..(m + 1) |-> g[k]]
    OBVIOUS
  <2> HIDE DEF g
  <2>5. Results(g, m + 1, c, step)
    BY <2>3, <2>4 DEF Results
  <2> QED
    BY <2>2, <2>5
<1> HIDE DEF Good
<1>3. Good = Nat
  <2>1. Good \in SUBSET Nat
    BY DEF Good
  <2> QED
    BY <1>1, <1>2, <2>1, SetInduction
<1> QED
  BY <1>3 DEF Good

-----------------------------------------------------------------------------
(* The search of Bvps.                                                       *)

\* The examples are those of the specification and the counterexamples.
Kept ==
    pc = "search" =>
        /\ \A i \in DOMAIN examples :
              \/ \E j \in DOMAIN spec.examples : examples[i] = Expected(spec.examples[j])
              \/ \E k \in Trials : examples[i] = Counterexample(k) /\ ~OracleRaises(fuzz[k])
        /\ \A j \in DOMAIN spec.examples :
              \E i \in DOMAIN examples : examples[i] = Expected(spec.examples[j])
        /\ \A j \in DOMAIN counterexamples :
              /\ \E i \in DOMAIN examples : examples[i] = counterexamples[j]
              /\ \E k \in Trials : counterexamples[j] = Counterexample(k)

\* No candidate passed over satisfies the specification.
PassedOver == pc = "search" => \A i \in 1..(next - 1) : ~Consistent(Candidates[i])

Lists ==
    /\ Listed(examples) /\ Listed(counterexamples)
    /\ spec \in Specs /\ order \in Orders
    /\ fuzz \in [1..spec.trials -> TypedInputs]

IInv ==
    /\ TypeOK
    /\ Lists
    /\ Kept
    /\ PassedOver
    /\ FindsFirst
    /\ CounterexamplesNew

-----------------------------------------------------------------------------
\* A sequence over any set is one over its own elements.
LEMMA ListedSeq ==
    ASSUME NEW S, NEW list \in Seq(S)
    PROVE  Listed(list)
<1>1. PICK n \in Nat : n = Len(list) /\ DOMAIN list = 1..n
  OBVIOUS
<1> DEFINE R == {list[i] : i \in DOMAIN list}
<1>2. \A i \in 1..n : list[i] \in R
  BY <1>1
<1>3. list = [i \in 1..n |-> list[i]]
  BY <1>1
<1> HIDE DEF R
<1>4. list \in [1..n -> R]
  BY <1>2, <1>3
<1>5. list \in Seq(R)
  BY <1>4, SeqDef
<1>6. QED
  BY <1>5 DEF R, Listed

\* The empty list is one.
LEMMA ListedEmpty == Listed(<<>>)
<1>1. <<>> \in Seq({})
  OBVIOUS
<1>2. QED
  BY <1>1, ListedSeq

\* A list has positions 1 to its length.
LEMMA ListedDomain ==
    ASSUME NEW list, Listed(list)
    PROVE  Len(list) \in Nat /\ DOMAIN list = 1..Len(list)
<1> DEFINE S == {list[i] : i \in DOMAIN list}
<1>1. list \in Seq(S)
  BY DEF Listed
<1> HIDE DEF S
<1>2. QED
  BY <1>1

\* Appending to a list adds one position and keeps the others.
LEMMA ListedAppend ==
    ASSUME NEW list, Listed(list), NEW e
    PROVE  /\ Listed(Append(list, e))
           /\ Len(list) \in Nat /\ DOMAIN list = 1..Len(list)
           /\ DOMAIN Append(list, e) = 1..(Len(list) + 1)
           /\ \A i \in DOMAIN list : Append(list, e)[i] = list[i]
           /\ Append(list, e)[Len(list) + 1] = e
<1> DEFINE S == {list[i] : i \in DOMAIN list}
<1>1. list \in Seq(S)
  BY DEF Listed
<1> HIDE DEF S
<1>2. list \in Seq(S \cup {e})
  BY <1>1, SeqMonotonic
<1>3. Append(list, e) \in Seq(S \cup {e})
  BY <1>2, AppendProperties
<1>4. Listed(Append(list, e))
  BY <1>3, ListedSeq
<1>5. /\ Len(list) \in Nat /\ DOMAIN list = 1..Len(list)
      /\ DOMAIN Append(list, e) = 1..(Len(list) + 1)
      /\ \A i \in 1..Len(list) : Append(list, e)[i] = list[i]
      /\ Append(list, e)[Len(list) + 1] = e
  BY <1>2, AppendProperties
<1>6. QED
  BY <1>4, <1>5

\* The prepared examples are a list as long as the specification's.
LEMMA PreparedListed ==
    ASSUME spec \in Specs
    PROVE  Listed(Prepared) /\ DOMAIN Prepared = DOMAIN spec.examples
<1>1. PICK n \in Nat : DOMAIN spec.examples = 1..n
  BY SpecAssumption, ListedDomain
<1> DEFINE R == {Prepared[i] : i \in 1..n}
<1>2. Prepared = [i \in 1..n |-> Prepared[i]] /\ DOMAIN Prepared = 1..n
  BY <1>1 DEF Prepared
<1>3. \A i \in 1..n : Prepared[i] \in R
  OBVIOUS
<1> HIDE DEF R
<1>4. Prepared \in [1..n -> R]
  BY <1>2, <1>3
<1>5. Prepared \in Seq(R)
  BY <1>4, SeqDef
<1>6. QED
  BY <1>1, <1>2, <1>5, ListedSeq

\* The oracle gives every drawn input an output, or raises.
LEMMA OracleAnswers ==
    ASSUME Lists, NEW k \in Trials
    PROVE  Evaluate(spec.oracle, fuzz[k]) # Missing
<1>1. spec.oracle \in Programs /\ fuzz[k] \in TypedInputs
  BY SpecAssumption DEF Lists, Trials
<1>2. Run[spec.oracle][fuzz[k]] # Missing
  BY <1>1, RunAssumption DEF Lists, TypedInputs
<1>3. Raises # Missing
  BY DEF Raises, Missing
<1>4. QED
  BY <1>2, <1>3 DEF Evaluate

\* A program that satisfies the specification passes every example kept.
LEMMA ConsistentPasses ==
    ASSUME Lists, Kept, pc = "search", NEW p, Consistent(p)
    PROVE  Passes(p)
<1> SUFFICES ASSUME NEW i \in DOMAIN examples PROVE Agrees(p, examples[i])
  BY DEF Passes
<1>1. CASE \E j \in DOMAIN spec.examples : examples[i] = Expected(spec.examples[j])
  BY <1>1 DEF Consistent
<1>2. ASSUME NEW k \in Trials, examples[i] = Counterexample(k), ~OracleRaises(fuzz[k])
      PROVE  Agrees(p, examples[i])
  <2>1. Evaluate(p, fuzz[k]) = Evaluate(spec.oracle, fuzz[k])
    BY DEF Consistent, Survives, Differs
  <2>2. QED
    BY <1>2, <2>1, OracleAnswers DEF Agrees, Counterexample
<1>3. QED
  BY <1>1, <1>2 DEF Kept

\* Conversely, one that passes them and the trials satisfies it.
LEMMA PassesConsistent ==
    ASSUME Kept, pc = "search", NEW p, Passes(p), Survives(p)
    PROVE  Consistent(p)
BY DEF Kept, Passes, Consistent

-----------------------------------------------------------------------------
\* The initial state satisfies the invariant.
LEMMA InitIInv == Init => IInv
<1> SUFFICES ASSUME Init PROVE IInv
  OBVIOUS
<1>1. TypeOK
  BY DEF Init, TypeOK
<1>2. Listed(<<>>)
  BY ListedEmpty
<1>3. Lists
  BY <1>2 DEF Init, Lists
<1>4. Kept /\ PassedOver
  BY DEF Init, Kept, PassedOver
<1>5. FindsFirst /\ CounterexamplesNew
  BY DEF Init, FindsFirst, CounterexamplesNew
<1>6. QED
  BY <1>1, <1>3, <1>4, <1>5 DEF IInv

\* Steps that leave the task alone change no verdict on a program.
LEMMA SameVerdicts ==
    ASSUME UNCHANGED task
    PROVE  /\ Trials' = Trials
           /\ \A p : Consistent(p)' = Consistent(p)
           /\ \A e : Expected(e)' = Expected(e)
           /\ \A k : OracleRaises(fuzz[k])' = OracleRaises(fuzz[k])
           /\ \A k : Counterexample(k)' = Counterexample(k)
BY DEF task, Consistent, Survives, Differs, OracleRaises, Evaluate, Expected, Agrees, Trials,
       Counterexample

\* Both searches begin with the examples of the specification.
LEMMA PrepareStep ==
    ASSUME IInv, Prepare
    PROVE  IInv'
<1> USE DEF Prepare
<1>1. TypeOK'
  BY DEF IInv, TypeOK
<1>2. Lists'
  <2>1. Listed(Prepared) /\ Listed(<<>>)
    BY PreparedListed, ListedEmpty DEF IInv, Lists
  <2>2. examples' = Prepared /\ counterexamples' = <<>> /\ TypedInputs' = TypedInputs
    BY DEF task, TypedInputs
  <2>3. QED
    BY <2>1, <2>2 DEF IInv, Lists, task
<1>3. Kept'
  <2>1. DOMAIN Prepared = DOMAIN spec.examples
    BY PreparedListed DEF IInv, Lists
  <2>2. \A j \in DOMAIN spec.examples : examples'[j] = Expected(spec.examples[j])
    BY <2>1 DEF Prepared
  <2>3. spec' = spec /\ examples' = Prepared /\ counterexamples' = <<>> /\ DOMAIN <<>> = {}
    BY DEF task
  <2>4. \A j \in DOMAIN spec.examples : Expected(spec.examples[j])' = Expected(spec.examples[j])
    BY DEF task, Expected, Evaluate
  <2>5. QED
    BY <2>1, <2>2, <2>3, <2>4 DEF Kept
<1>4. PassedOver'
  BY DEF PassedOver
<1>5. FindsFirst'
  BY SameVerdicts DEF IInv, FindsFirst, Budget, task
<1>6. CounterexamplesNew'
  BY DEF CounterexamplesNew
<1>7. QED
  BY <1>1, <1>2, <1>3, <1>4, <1>5, <1>6 DEF IInv

\* Positions in the lists of candidates.
LEMMA CandidatesListed ==
    ASSUME Lists
    PROVE  /\ Candidates \in Seq(Programs \cup {NoExpansion})
           /\ Len(Candidates) \in Nat /\ DOMAIN Candidates = 1..Len(Candidates)
<1>1. spec.templates \in Seq(Programs)
  BY SpecAssumption DEF Lists
<1>2. spec.templates \in Seq(Programs \cup {NoExpansion})
  BY <1>1, SeqMonotonic
<1>3. order \in Seq(Programs \cup {NoExpansion})
  BY OrderAssumption DEF Lists
<1>4. Candidates \in Seq(Programs \cup {NoExpansion})
  BY <1>2, <1>3 DEF Candidates
<1>5. QED
  BY <1>4

\* What a step that gives up a candidate leaves behind, if that candidate does
\* not satisfy the specification.
LEMMA TryNextStep ==
    ASSUME TypeOK, Lists, PassedOver, FindsFirst, Trying, TryNext, ~Consistent(Candidate)
    PROVE  TypeOK' /\ PassedOver' /\ FindsFirst'
<1> USE DEF TryNext, Trying
<1>1. next \in Nat /\ next >= 1 /\ next' = next + 1
  BY DEF TypeOK
<1>2. TypeOK'
  BY <1>1 DEF TypeOK
<1>3. Candidates' = Candidates
  BY DEF Candidates, task
<1>4. \A i \in 1..next : ~Consistent(Candidates[i])
  BY <1>1 DEF PassedOver, Candidate
<1>5. PassedOver'
  BY <1>1, <1>3, <1>4, SameVerdicts DEF PassedOver
<1>6. FindsFirst'
  <2>1. program' # NoProgram => Consistent(program)'
    BY SameVerdicts DEF FindsFirst
  <2>2. pc' \in {"failed", "search"} /\ order' = order /\ Budget' = Budget
    BY DEF task, Budget
  <2>3. ASSUME pc' = "failed", NEW i \in DOMAIN order, i <= Budget
        PROVE  ~Consistent(order[i])
    <3>1. stage = "synthesize" /\ next >= spec.maxPrograms
      BY <2>3 DEF OutOfBudget
    <3>2. order = Candidates
      BY <3>1 DEF Candidates
    <3>3. Budget <= next
      BY <1>1, <3>1, SpecAssumption DEF Budget, Lists
    <3>4. i \in 1..Len(Candidates) /\ Len(Candidates) \in Nat /\ Budget \in Int
      BY <3>2, CandidatesListed, SpecAssumption DEF Budget, Lists
    <3>5. i \in 1..next
      BY <1>1, <2>3, <3>3, <3>4
    <3>6. QED
      BY <1>4, <3>2, <3>5
  <2>4. QED
    BY <2>1, <2>2, <2>3, SameVerdicts DEF FindsFirst
<1>7. QED
  BY <1>2, <1>5, <1>6

\* A candidate that an example rejects does not satisfy the specification.
LEMMA RejectStep ==
    ASSUME IInv, Reject
    PROVE  IInv'
<1> USE DEF Reject
<1>1. ~Consistent(Candidate)
  BY ConsistentPasses DEF IInv, Trying
<1>2. TypeOK' /\ PassedOver' /\ FindsFirst'
  BY <1>1, TryNextStep DEF IInv
<1>3. UNCHANGED <<task, examples, counterexamples>>
  BY DEF TryNext
<1>4. Lists'
  BY <1>3 DEF IInv, Lists, task, TypedInputs
<1>5. Kept'
  <2>1. pc = "search" /\ spec' = spec /\ fuzz' = fuzz
    BY <1>3 DEF Trying, task
  <2>2. QED
    BY <1>3, <2>1 DEF IInv, Kept, Expected, Evaluate, Trials, Counterexample, OracleRaises
<1>6. CounterexamplesNew'
  BY <1>3 DEF IInv, CounterexamplesNew, task
<1>7. QED
  BY <1>2, <1>4, <1>5, <1>6 DEF IInv

\* One that fuzzing refutes differs from the oracle, on an input that none of
\* the examples had shown.
LEMMA RefuteStep ==
    ASSUME IInv, NEW k \in Trials, Refute(k)
    PROVE  IInv'
<1> USE DEF Refute
<1> DEFINE c == Counterexample(k)
<1>1. Differs(Candidate, k) /\ ~OracleRaises(fuzz[k])
  BY DEF Stops
<1>2. ~Consistent(Candidate)
  BY <1>1 DEF Consistent, Survives
<1>3. TypeOK' /\ PassedOver' /\ FindsFirst'
  BY <1>2, TryNextStep DEF IInv
<1>4. /\ examples' = Append(examples, c) /\ counterexamples' = Append(counterexamples, c)
      /\ spec' = spec /\ order' = order /\ fuzz' = fuzz /\ pc = "search"
  BY DEF TryNext, Trying, task
<1>5. Listed(examples) /\ Listed(counterexamples)
  BY DEF IInv, Lists
<1> HIDE DEF c
<1>6. /\ Listed(examples') /\ Len(examples) \in Nat
      /\ DOMAIN examples = 1..Len(examples)
      /\ DOMAIN examples' = 1..(Len(examples) + 1)
      /\ \A i \in DOMAIN examples : examples'[i] = examples[i]
      /\ examples'[Len(examples) + 1] = c
  BY <1>4, <1>5, ListedAppend
<1>7. /\ Listed(counterexamples') /\ Len(counterexamples) \in Nat
      /\ DOMAIN counterexamples = 1..Len(counterexamples)
      /\ DOMAIN counterexamples' = 1..(Len(counterexamples) + 1)
      /\ \A i \in DOMAIN counterexamples : counterexamples'[i] = counterexamples[i]
      /\ counterexamples'[Len(counterexamples) + 1] = c
  BY <1>4, <1>5, ListedAppend
<1>8. Lists'
  BY <1>4, <1>6, <1>7 DEF IInv, Lists, TypedInputs
<1>9. Kept'
  <2>1. \A i \in DOMAIN examples' :
          \/ \E j \in DOMAIN spec.examples : examples'[i] = Expected(spec.examples[j])
          \/ \E l \in Trials : examples'[i] = Counterexample(l) /\ ~OracleRaises(fuzz[l])
    <3> SUFFICES ASSUME NEW i \in DOMAIN examples'
                 PROVE  \/ \E j \in DOMAIN spec.examples : examples'[i] = Expected(spec.examples[j])
                        \/ \E l \in Trials : examples'[i] = Counterexample(l) /\ ~OracleRaises(fuzz[l])
      OBVIOUS
    <3>1. CASE i \in DOMAIN examples
      BY <1>4, <1>6, <3>1 DEF IInv, Kept
    <3>2. CASE i = Len(examples) + 1
      BY <1>1, <1>6, <3>2 DEF c
    <3>3. QED
      BY <1>6, <3>1, <3>2
  <2>2. \A j \in DOMAIN spec.examples :
          \E i \in DOMAIN examples' : examples'[i] = Expected(spec.examples[j])
    BY <1>4, <1>6 DEF IInv, Kept
  <2>3. \A j \in DOMAIN counterexamples' :
          \E i \in DOMAIN examples' : examples'[i] = counterexamples'[j]
    <3> SUFFICES ASSUME NEW j \in DOMAIN counterexamples'
                 PROVE  \E i \in DOMAIN examples' : examples'[i] = counterexamples'[j]
      OBVIOUS
    <3>1. CASE j \in DOMAIN counterexamples
      BY <1>4, <1>6, <1>7, <3>1 DEF IInv, Kept
    <3>2. CASE j = Len(counterexamples) + 1
      BY <1>6, <1>7, <3>2
    <3>3. QED
      BY <1>7, <3>1, <3>2
  <2>4. \A j \in DOMAIN counterexamples' :
          \E l \in Trials : counterexamples'[j] = Counterexample(l)
    BY <1>4, <1>7 DEF IInv, Kept, c
  <2>5. (\A i \in DOMAIN examples :
           \/ \E j \in DOMAIN spec.examples : examples[i] = Expected(spec.examples[j])
           \/ \E l \in Trials : examples[i] = Counterexample(l) /\ ~OracleRaises(fuzz[l]))'
    BY <1>4, <2>1 DEF Trials, Expected, Evaluate, Counterexample, OracleRaises
  <2>6. (\A j \in DOMAIN spec.examples :
           \E i \in DOMAIN examples : examples[i] = Expected(spec.examples[j]))'
    BY <1>4, <2>2 DEF Expected, Evaluate
  <2>7. (\A j \in DOMAIN counterexamples :
           /\ \E i \in DOMAIN examples : examples[i] = counterexamples[j]
           /\ \E l \in Trials : counterexamples[j] = Counterexample(l))'
    BY <1>4, <2>3, <2>4 DEF Trials, Counterexample, Evaluate
  <2>8. QED
    BY <2>5, <2>6, <2>7 DEF Kept
<1>10. CounterexamplesNew'
  <2>1. c.in = fuzz[k] /\ c.out = Evaluate(spec.oracle, c.in) /\ Evaluate(Candidate, c.in) # c.out
    BY <1>1 DEF c, Counterexample, Differs
  <2>2. \A i \in DOMAIN examples : Evaluate(Candidate, examples[i].in) = examples[i].out
    BY DEF Passes, Agrees
  <2>3. \A i \in DOMAIN counterexamples : counterexamples[i].in # c.in
    <3> SUFFICES ASSUME NEW i \in DOMAIN counterexamples, counterexamples[i].in = c.in
                 PROVE  FALSE
      OBVIOUS
    <3>1. PICK l \in DOMAIN examples : examples[l] = counterexamples[i]
      BY <1>4 DEF IInv, Kept
    <3>2. PICK m \in Trials : counterexamples[i] = Counterexample(m)
      BY <1>4 DEF IInv, Kept
    <3>3. QED
      BY <2>1, <2>2, <3>1, <3>2 DEF Counterexample
  <2>4. \A j \in DOMAIN spec.examples :
          c.in = spec.examples[j].in => spec.examples[j].out # Missing /\ c.out # spec.examples[j].out
    <3> SUFFICES ASSUME NEW j \in DOMAIN spec.examples, c.in = spec.examples[j].in
                 PROVE  spec.examples[j].out # Missing /\ c.out # spec.examples[j].out
      OBVIOUS
    <3>1. PICK l \in DOMAIN examples : examples[l] = Expected(spec.examples[j])
      BY <1>4 DEF IInv, Kept
    <3>2. spec.oracle # NoProgram
      BY DEF Trials
    <3>3. Evaluate(Candidate, Expected(spec.examples[j]).in) = Expected(spec.examples[j]).out
      BY <2>2, <3>1
    <3>4. CASE spec.examples[j].out = Missing
      <4>1. Expected(spec.examples[j])
              = [in |-> spec.examples[j].in, out |-> Evaluate(spec.oracle, spec.examples[j].in)]
        BY <3>2, <3>4 DEF Expected
      <4>2. Expected(spec.examples[j]).in = c.in
        BY <4>1
      <4>3. Expected(spec.examples[j]).out = Evaluate(spec.oracle, c.in)
        BY <4>1
      <4>4. Evaluate(Candidate, c.in) = Evaluate(spec.oracle, c.in)
        BY <3>3, <4>2, <4>3
      <4>5. QED
        BY <2>1, <4>4
    <3>5. CASE spec.examples[j].out # Missing
      <4>1. Expected(spec.examples[j]) = spec.examples[j]
        BY <3>5 DEF Expected
      <4>2. QED
        BY <2>1, <3>3, <3>5, <4>1
    <3>6. QED
      BY <3>4, <3>5
  <2>5. \A i, j \in DOMAIN counterexamples' :
          counterexamples'[i].in = counterexamples'[j].in => i = j
    BY <1>7, <2>3 DEF IInv, CounterexamplesNew
  <2>6. ASSUME NEW i \in DOMAIN counterexamples', NEW j \in DOMAIN spec.examples,
               counterexamples'[i].in = spec.examples[j].in
        PROVE  spec.examples[j].out # Missing /\ counterexamples'[i].out # spec.examples[j].out
    <3>1. CASE i \in DOMAIN counterexamples
      BY <1>7, <2>6, <3>1 DEF IInv, CounterexamplesNew
    <3>2. CASE i = Len(counterexamples) + 1
      BY <1>7, <2>4, <2>6, <3>2
    <3>3. QED
      BY <1>7, <3>1, <3>2
  <2>7. QED
    BY <1>4, <2>5, <2>6 DEF CounterexamplesNew
<1>11. QED
  BY <1>3, <1>8, <1>9, <1>10 DEF IInv

\* A step that takes up no candidate keeps the search's lists.
LEMMA SearchUntouched ==
    ASSUME IInv, UNCHANGED <<task, examples, counterexamples>>
    PROVE  Lists' /\ CounterexamplesNew'
<1>1. Lists'
  BY DEF IInv, Lists, task, TypedInputs
<1>2. CounterexamplesNew'
  BY DEF IInv, CounterexamplesNew, task
<1>3. QED
  BY <1>1, <1>2

\* One that passes everything satisfies the specification, and none before it
\* does.
LEMMA AcceptStep ==
    ASSUME IInv, Accept
    PROVE  IInv'
<1> USE DEF Accept
<1>1. Lists' /\ CounterexamplesNew'
  BY SearchUntouched
<1>2. next \in 1..Len(Candidates) /\ Candidate \in Programs
  BY CandidatesListed DEF IInv, Trying, Candidate
<1>3. TypeOK'
  BY <1>2 DEF IInv, TypeOK
<1>4. Kept' /\ PassedOver'
  BY DEF Kept, PassedOver
<1>5. FindsFirst'
  <2>1. Consistent(Candidate)
    BY PassesConsistent DEF IInv, Trying
  <2>2. stage = "synthesize" => \A i \in 1..(next - 1) : ~Consistent(order[i])
    BY DEF IInv, PassedOver, Trying, Candidates
  <2>3. program' = Candidate /\ pc' = "verify" /\ stage' = stage /\ next' = next /\ order' = order
    BY DEF task
  <2>4. (program # NoProgram => Consistent(program))'
    BY <2>1, <2>3, SameVerdicts
  <2>5. (stage = "synthesize" /\ pc \in {"verify", "done"} =>
           \A i \in 1..(next - 1) : ~Consistent(order[i]))'
    BY <2>2, <2>3, SameVerdicts
  <2>6. QED
    BY <2>3, <2>4, <2>5 DEF FindsFirst
<1>6. QED
  BY <1>1, <1>3, <1>4, <1>5 DEF IInv

\* When no candidate is left, none of them satisfied the specification.
LEMMA ExhaustedStep ==
    ASSUME IInv, Exhausted
    PROVE  IInv'
<1> USE DEF Exhausted
<1>1. Lists' /\ CounterexamplesNew'
  BY SearchUntouched
<1>2. TypeOK'
  BY DEF IInv, TypeOK
<1>3. Kept' /\ PassedOver'
  BY DEF Kept, PassedOver
<1>4. FindsFirst'
  <2>1. (program # NoProgram => Consistent(program))'
    BY SameVerdicts DEF IInv, FindsFirst
  <2>2. ASSUME pc' = "failed", NEW i \in DOMAIN order
        PROVE  ~Consistent(order[i])
    <3>1. order = Candidates
      BY <2>2 DEF IInv, TypeOK, Candidates
    <3>2. next > Len(Candidates) /\ i \in 1..Len(Candidates) /\ next \in Nat /\ Len(Candidates) \in Nat
      BY <3>1, CandidatesListed DEF IInv, TypeOK
    <3>3. i \in 1..(next - 1)
      BY <3>2
    <3>4. QED
      BY <3>1, <3>3 DEF IInv, PassedOver
  <2>3. pc' \in {"prepare", "failed"} /\ order' = order
    BY DEF task
  <2>4. (pc = "failed" => \A i \in DOMAIN order : i <= Budget => ~Consistent(order[i]))'
    BY <2>2, <2>3, SameVerdicts
  <2>5. QED
    BY <2>1, <2>3, <2>4 DEF FindsFirst
<1>5. QED
  BY <1>1, <1>2, <1>3, <1>4 DEF IInv

\* What the oracle raises ends the search or the lanes, and the lanes change
\* nothing that the search has found.
LEMMA EndStep ==
    ASSUME IInv, UNCHANGED <<task, search>>,
           \/ pc' = "raised" /\ failed' = failed
           \/ pc = "verify" /\ pc' = "done" /\ failed' \subseteq {"recompute", "translation", "consequence"}
    PROVE  IInv'
<1>1. Lists' /\ CounterexamplesNew'
  BY SearchUntouched DEF search
<1>2. TypeOK'
  BY DEF IInv, TypeOK, search
<1>3. Kept' /\ PassedOver'
  BY DEF Kept, PassedOver
<1>4. FindsFirst'
  BY SameVerdicts DEF IInv, FindsFirst, search, task
<1>5. QED
  BY <1>1, <1>2, <1>3, <1>4 DEF IInv

\* Every step preserves the invariant.
LEMMA NextIInv == IInv /\ [Next]_vars => IInv'
<1> SUFFICES ASSUME IInv, [Next]_vars PROVE IInv'
  OBVIOUS
<1>1. CASE Prepare
  BY <1>1, PrepareStep
<1>2. CASE PrepareRaises \/ ExpandRaises
  BY <1>2, EndStep DEF PrepareRaises, ExpandRaises
<1>3. CASE Reject
  BY <1>3, RejectStep
<1>4. CASE Accept
  BY <1>4, AcceptStep
<1>5. CASE Exhausted
  BY <1>5, ExhaustedStep
<1>6. CASE \E k \in Trials : Refute(k)
  BY <1>6, RefuteStep
<1>7. CASE \E k \in Trials : FuzzRaises(k)
  BY <1>7, EndStep DEF FuzzRaises
<1>8. CASE \E drawn \in Draws : Verify(drawn)
  <2>1. \A tested : Failures(tested) \subseteq {"recompute", "translation", "consequence"}
    BY DEF Failures
  <2>2. QED
    BY <1>8, <2>1, EndStep DEF Verify
<1>9. CASE \E drawn \in Draws : VerifyRaises(drawn)
  BY <1>9, EndStep DEF VerifyRaises
<1>10. CASE UNCHANGED vars
  <2>1. UNCHANGED <<task, search>> /\ pc' = pc /\ failed' = failed
    BY <1>10 DEF vars
  <2>2. Lists' /\ CounterexamplesNew'
    BY <2>1, SearchUntouched DEF search
  <2>3. TypeOK'
    BY <2>1 DEF IInv, TypeOK, search
  <2>4. PassedOver' /\ FindsFirst'
    BY <2>1, SameVerdicts DEF IInv, PassedOver, FindsFirst, Budget, Candidates, search, task
  <2>5. Kept'
    BY <2>1 DEF IInv, Kept, Expected, Evaluate, Trials, Counterexample, OracleRaises, search, task
  <2>6. QED
    BY <2>2, <2>3, <2>4, <2>5 DEF IInv
<1>11. QED
  BY <1>1, <1>2, <1>3, <1>4, <1>5, <1>6, <1>7, <1>8, <1>9, <1>10 DEF Next

-----------------------------------------------------------------------------
\* The inductive invariant holds of every task, whatever is enumerated, drawn
\* and computed.
THEOREM Inductive == Spec => []IInv
<1>1. Init => IInv
  BY InitIInv
<1>2. IInv /\ [Next]_vars => IInv'
  BY NextIInv
<1>3. QED
  BY <1>1, <1>2, PTL DEF Spec

\* The variables have their types.
THEOREM TypeCorrect == Spec => []TypeOK
<1>1. IInv => TypeOK
  BY DEF IInv
<1>2. QED
  BY <1>1, Inductive, PTL

\* The search returns the first program of the enumeration that satisfies the
\* specification, and fails only if none within the budget does.
THEOREM SearchIsExact == Spec => []FindsFirst
<1>1. IInv => FindsFirst
  BY DEF IInv
<1>2. QED
  BY <1>1, Inductive, PTL

\* No input refutes two candidates, nor one that an example had refuted.
THEOREM RefutationsAreNew == Spec => []CounterexamplesNew
<1>1. IInv => CounterexamplesNew
  BY DEF IInv
<1>2. QED
  BY <1>1, Inductive, PTL

-----------------------------------------------------------------------------
(* The lanes agree with the search.                                          *)

\* Inputs are sequences, one value per parameter.
LEMMA InputsListed ==
    ASSUME spec \in Specs, NEW in \in TypedInputs
    PROVE  /\ Len(spec.params) \in 1..2 /\ DOMAIN spec.params = 1..Len(spec.params)
           /\ Len(in) = Len(spec.params) /\ DOMAIN in = DOMAIN spec.params
           /\ \A i \in DOMAIN in : in[i] \in ValuesOf(spec.params[i])
<1>1. Len(spec.params) \in 1..2 /\ DOMAIN spec.params = 1..Len(spec.params)
  BY SpecAssumption, ListedDomain
<1> DEFINE V == ValuesOf("Int") \cup ValuesOf("Bool")
<1>2. in \in [DOMAIN spec.params -> V] /\ \A i \in DOMAIN in : in[i] \in ValuesOf(spec.params[i])
  BY DEF TypedInputs, InputsOf
<1> HIDE DEF V
<1>3. in \in Seq(V) /\ Len(in) = Len(spec.params)
  <2>1. PICK n \in Nat : n = Len(spec.params) /\ in \in [1..n -> V]
    BY <1>1, <1>2
  <2>2. in \in Seq(V)
    BY <2>1, SeqDef
  <2> QED
    BY <2>1, <2>2, LenProperties
<1> QED
  BY <1>1, <1>2, <1>3

\* Where all parameters have one type the variants of an input have it too.
LEMMA VariantsTyped ==
    ASSUME spec \in Specs, OneType, NEW in \in TypedInputs
    PROVE  Variants(in) \in Seq(TypedInputs)
<1>1. Swapped(in) \in Seq(TypedInputs)
  <2>1. CASE Len(in) = 2 /\ in[1].n # in[2].n
    <3> DEFINE turned == <<in[2], in[1]>>
    <3>1. DOMAIN spec.params = 1..2 /\ DOMAIN in = 1..2 /\ spec.params[1] = spec.params[2]
      BY <2>1, InputsListed DEF OneType
    <3>2. in[1] \in ValuesOf(spec.params[1]) /\ in[2] \in ValuesOf(spec.params[1])
      BY <3>1, InputsListed
    <3>3. turned[1] = in[2] /\ turned[2] = in[1] /\ DOMAIN turned = 1..2
      OBVIOUS
    <3>4. ValuesOf(spec.params[1]) \subseteq ValuesOf("Int") \cup ValuesOf("Bool")
      BY DEF ValuesOf
    <3>5. turned = [i \in 1..2 |-> turned[i]]
      OBVIOUS
    <3> HIDE DEF turned
    <3>6. turned \in [1..2 -> ValuesOf("Int") \cup ValuesOf("Bool")]
      BY <3>2, <3>3, <3>4, <3>5
    <3>7. turned \in TypedInputs
      BY <3>1, <3>2, <3>3, <3>6 DEF TypedInputs, InputsOf
    <3> QED
      BY <2>1, <3>7 DEF Swapped, turned
  <2> QED
    BY <2>1 DEF Swapped
<1>2. Flipped(in) \in Seq(TypedInputs)
  BY DEF Flipped
<1> QED
  BY <1>1, <1>2, ConcatProperties DEF Variants

\* So has everything the consequence lane tests.
LEMMA TestedTyped ==
    ASSUME spec \in Specs, OneType, NEW drawn \in Draws
    PROVE  Tested(drawn) \in Seq(TypedInputs)
<1>1. PICK n \in Nat : drawn \in [1..n -> TypedInputs]
  <2>1. spec.trials \in Int
    BY SpecAssumption
  <2> QED
    BY <2>1 DEF Draws
<1>2. Len(drawn) = n
  BY <1>1, SeqDef, LenProperties
<1> DEFINE S == Seq(TypedInputs)
           More(k) == <<drawn[k]>> \o Variants(drawn[k])
           step == [k \in 1..n |-> [list \in S |-> list \o <<drawn[k]>> \o Variants(drawn[k])]]
<1>3. ASSUME NEW k \in 1..n, NEW list \in S PROVE list \o <<drawn[k]>> \o Variants(drawn[k]) \in S
  <2>1. drawn[k] \in TypedInputs
    BY <1>1
  <2>2. <<drawn[k]>> \in S /\ Variants(drawn[k]) \in S
    BY <2>1, VariantsTyped
  <2> QED
    BY <2>2, ConcatProperties
<1>4. step \in [1..n -> [S -> S]]
  BY <1>3
<1>5. <<>> \in S
  OBVIOUS
<1> HIDE DEF S
<1>6. PICK g \in [0..n -> S] : g = [k \in 0..n |-> IF k = 0 THEN <<>> ELSE step[k][g[k - 1]]]
  <2>1. PICK steps : steps = step
    OBVIOUS
  <2> HIDE DEF step
  <2>2. PICK c : c = <<>>
    OBVIOUS
  <2>3. PICK R : R = S
    OBVIOUS
  <2>4. steps \in [1..n -> [R -> R]] /\ c \in R
    BY <1>4, <1>5, <2>1, <2>2, <2>3
  <2>5. PICK g \in [0..n -> R] : Results(g, n, c, steps)
    BY <2>4, Recursion
  <2> QED
    BY <2>1, <2>2, <2>3, <2>5, Zenon DEF Results
<1>7. g = [k \in 0..n |-> IF k = 0 THEN <<>> ELSE g[k - 1] \o <<drawn[k]>> \o Variants(drawn[k])]
  <2>1. ASSUME NEW k \in 0..n, k # 0
        PROVE  step[k][g[k - 1]] = g[k - 1] \o <<drawn[k]>> \o Variants(drawn[k])
    <3>1. k \in 1..n /\ g[k - 1] \in S
      BY <2>1
    <3> QED
      BY <3>1
  <2>2. PICK f : f = [k \in 0..n |-> IF k = 0 THEN <<>> ELSE step[k][g[k - 1]]]
    OBVIOUS
  <2> HIDE DEF step
  <2>3. f = [k \in 0..n |-> IF k = 0 THEN <<>> ELSE g[k - 1] \o <<drawn[k]>> \o Variants(drawn[k])]
    BY <2>1, <2>2
  <2> QED
    BY <1>6, <2>2, <2>3, Zenon
<1> DEFINE upTo[k \in 0..Len(drawn)] ==
             IF k = 0 THEN <<>> ELSE upTo[k - 1] \o <<drawn[k]>> \o Variants(drawn[k])
<1>8. upTo = [k \in 0..n |-> IF k = 0 THEN <<>> ELSE upTo[k - 1] \o <<drawn[k]>> \o Variants(drawn[k])]
  BY <1>2, <1>7
<1>9. Tested(drawn) = upTo[n]
  BY <1>2 DEF Tested
<1> HIDE DEF upTo, step
<1> DEFINE Good == {k \in Nat : k <= n => upTo[k] \in S}
<1>10. 0 \in Good
  BY <1>5, <1>8
<1>11. ASSUME NEW k \in Good PROVE k + 1 \in Good
  <2> SUFFICES ASSUME k + 1 <= n PROVE upTo[k + 1] \in S
    OBVIOUS
  <2>1. upTo[k + 1] = upTo[k] \o <<drawn[k + 1]>> \o Variants(drawn[k + 1])
    BY <1>8
  <2> QED
    BY <1>3, <2>1
<1> HIDE DEF Good
<1>12. Good = Nat
  <2>1. Good \in SUBSET Nat
    BY DEF Good
  <2> QED
    BY <1>10, <1>11, <2>1, SetInduction
<1> QED
  BY <1>9, <1>12 DEF Good, S

\* The program is a candidate, and the lanes have not been asked before.
Found ==
    /\ program # NoProgram => pc \in {"verify", "done", "raised"}
                              /\ \E i \in DOMAIN Candidates : Candidates[i] = program
    /\ pc = "verify" => program # NoProgram
    /\ pc # "done" => failed = {}

AnswerInv == Found /\ CorrectIsAnswered

\* What a task allows and its programs compute stays the same.
LEMMA TaskStays ==
    ASSUME UNCHANGED task
    PROVE  /\ Total' = Total /\ OneType' = OneType /\ TypedInputs' = TypedInputs
           /\ \A p, in : Evaluate(p, in)' = Evaluate(p, in)
BY DEF task, Total, OneType, TypedInputs, OracleRaises, Evaluate

\* A total oracle stops no lane: all that is tested has the parameters' types.
LEMMA NoLaneRaises ==
    ASSUME IInv, Total, OneType, NEW drawn \in Draws
    PROVE  ~LaneRaises(Tested(drawn))
<1>1. PICK tested : tested = Tested(drawn)
  OBVIOUS
<1>2. tested \in Seq(TypedInputs)
  BY <1>1, TestedTyped DEF IInv, Lists
<1>3. \A k \in DOMAIN tested : tested[k] \in TypedInputs
  BY <1>2
<1> QED
  BY <1>1, <1>3 DEF LaneRaises, Total

\* The lanes pass a program that computes what the oracle does.
LEMMA CorrectPasses ==
    ASSUME IInv, Found, pc = "verify", Total, OneType, NEW drawn \in Draws,
           \A in \in TypedInputs : Evaluate(program, in) = Evaluate(spec.oracle, in),
           \A i \in DOMAIN Candidates : <<spec, Candidates[i]>> \in Translates
    PROVE  Failures(Tested(drawn)) = {}
<1>1. PICK tested : tested = Tested(drawn)
  OBVIOUS
<1>2. tested \in Seq(TypedInputs)
  BY <1>1, TestedTyped DEF IInv, Lists
<1>3. \A k \in DOMAIN tested : tested[k] \in TypedInputs
  BY <1>2
<1>4. Recomputed
  BY DEF IInv, FindsFirst, Found, Consistent, Recomputed
<1>5. <<spec, program>> \in Translates
  BY DEF Found
<1>6. \A k \in DOMAIN tested : ~Refuted(tested[k])
  BY <1>3 DEF Refuted, Total
<1> QED
  BY <1>1, <1>4, <1>5, <1>6 DEF Failures

\* While no program is found the lanes have nothing to judge.
LEMMA SearchGoesOn ==
    ASSUME Found, pc \in {"prepare", "search"}, program' = program, failed' = failed,
           pc' \in {"prepare", "search", "failed", "raised"}
    PROVE  AnswerInv'
<1>1. program' = NoProgram /\ failed' = {}
  BY DEF Found
<1>2. Found'
  BY <1>1 DEF Found
<1>3. CorrectIsAnswered'
  BY <1>1 DEF CorrectIsAnswered
<1> QED
  BY <1>2, <1>3 DEF AnswerInv

\* The candidate that is accepted is judged next.
LEMMA AcceptFinds ==
    ASSUME IInv, AnswerInv, Accept
    PROVE  AnswerInv'
<1>1. next \in DOMAIN Candidates /\ Candidate \in Programs
  BY CandidatesListed DEF Accept, Trying, Candidate, IInv
<1>2. /\ program' = Candidate /\ program' # NoProgram /\ Candidates' = Candidates
      /\ pc' = "verify" /\ failed' = {}
  BY <1>1, ProgramAssumption DEF Accept, Trying, Candidates, task, AnswerInv, Found
<1>3. Found'
  BY <1>1, <1>2 DEF Found, Candidate
<1>4. CorrectIsAnswered'
  BY <1>2 DEF CorrectIsAnswered
<1> QED
  BY <1>3, <1>4 DEF AnswerInv

\* The lanes judge it once.
LEMMA VerifyAnswers ==
    ASSUME IInv, AnswerInv, NEW drawn \in Draws, Verify(drawn) \/ VerifyRaises(drawn)
    PROVE  AnswerInv'
<1>1. /\ pc = "verify" /\ UNCHANGED <<task, search>> /\ Candidates' = Candidates
      /\ program' = program /\ spec' = spec /\ Found
  BY DEF Verify, VerifyRaises, search, task, Candidates, AnswerInv
<1>2. /\ Total' = Total /\ OneType' = OneType /\ TypedInputs' = TypedInputs
      /\ \A p, in : Evaluate(p, in)' = Evaluate(p, in)
  BY <1>1, TaskStays
<1>3. failed = {}
  BY <1>1 DEF Found
<1>4. CASE Verify(drawn)
  <2>1. pc' = "done" /\ failed' = Failures(Tested(drawn))
    BY <1>4 DEF Verify
  <2>2. Found'
    BY <1>1, <2>1 DEF Found
  <2>3. Total /\ OneType /\ (\A in \in TypedInputs : Evaluate(program, in) = Evaluate(spec.oracle, in))
          /\ (\A i \in DOMAIN Candidates : <<spec, Candidates[i]>> \in Translates)
        => failed' = {}
    BY <1>1, <2>1, CorrectPasses
  <2>4. (\A in \in TypedInputs : Evaluate(program, in) = Evaluate(spec.oracle, in))'
          => \A in \in TypedInputs : Evaluate(program, in) = Evaluate(spec.oracle, in)
    BY <1>1, <1>2
  <2>5. CorrectIsAnswered'
    BY <1>1, <1>2, <2>1, <2>3, <2>4 DEF CorrectIsAnswered
  <2> QED
    BY <2>2, <2>5 DEF AnswerInv
<1>5. CASE VerifyRaises(drawn)
  <2>1. pc' = "raised" /\ failed' = {} /\ ~(Total /\ OneType)
    BY <1>3, <1>5, NoLaneRaises DEF VerifyRaises
  <2>2. Found'
    BY <1>1, <2>1 DEF Found
  <2>3. CorrectIsAnswered'
    BY <1>2, <2>1 DEF CorrectIsAnswered
  <2> QED
    BY <2>2, <2>3 DEF AnswerInv
<1> QED
  BY <1>4, <1>5

\* Every step keeps what the lanes say in line with what the search has found.
LEMMA AnswerStep ==
    ASSUME IInv, AnswerInv, [Next]_vars
    PROVE  AnswerInv'
<1>1. CASE Accept
  BY <1>1, AcceptFinds
<1>2. CASE \E drawn \in Draws : Verify(drawn) \/ VerifyRaises(drawn)
  BY <1>2, VerifyAnswers
<1>3. CASE \/ Prepare \/ PrepareRaises \/ ExpandRaises \/ Reject \/ Exhausted
           \/ \E k \in Trials : Refute(k)
           \/ \E k \in Trials : FuzzRaises(k)
  <2>1. /\ pc \in {"prepare", "search"} /\ program' = program /\ failed' = failed
        /\ pc' \in {"prepare", "search", "failed", "raised"}
    BY <1>3 DEF Prepare, PrepareRaises, ExpandRaises, Reject, Exhausted, Refute, FuzzRaises,
                Trying, TryNext, search
  <2> QED
    BY <2>1, SearchGoesOn DEF AnswerInv
<1>4. CASE UNCHANGED vars
  <2>1. UNCHANGED <<task, search, pc, failed>> /\ Candidates' = Candidates
    BY <1>4 DEF vars, search, task, Candidates
  <2>2. Found'
    BY <2>1 DEF AnswerInv, Found, search
  <2>3. CorrectIsAnswered'
    BY <2>1, TaskStays DEF AnswerInv, CorrectIsAnswered, search, task
  <2> QED
    BY <2>2, <2>3 DEF AnswerInv
<1> QED
  BY <1>1, <1>2, <1>3, <1>4 DEF Next

\* Where all parameters have one type, the lanes do not raise on what was found
\* for a total oracle, and pass it if it computes what the oracle does.
THEOREM CorrectAnswered == Spec => []CorrectIsAnswered
<1>1. Init => AnswerInv
  BY DEF Init, AnswerInv, Found, CorrectIsAnswered
<1>2. IInv /\ AnswerInv /\ [Next]_vars => AnswerInv'
  BY AnswerStep
<1>3. AnswerInv => CorrectIsAnswered
  BY DEF AnswerInv
<1> QED
  BY <1>1, <1>2, <1>3, Inductive, PTL DEF Spec

-----------------------------------------------------------------------------
(* The lanes of Kernel: each one that does not fail has shown one half of   *)
(* what is claimed, and what it has shown stays true until the answer.      *)

\* Where the stub runs for the translation lane, and after the lanes.
AfterRecompute ==
    \/ phase \in {"translate", "consequence", "decide", "answered", "refused"}
    \/ phase \in {"synthesize", "plan"} /\ by = "lane"
AfterTranslate == phase \in {"consequence", "decide", "answered"}

\* The stub synthesizes for list tasks and plans for worlds.
LoopsFit ==
    /\ by \in {"kernel", "lane"}
    /\ phase = "synthesize" => job.kind = "list"
    /\ phase = "plan" => job.kind = "world"

SoundList == job.kind = "list" /\ Sound

\* On a sound task the operation's own template, the first, is consistent with
\* the examples and never left.
FirstStays ==
    SoundList => /\ PassesGiven(job.op)
                 /\ phase = "synthesize" => tried = 1

\* What the recompute lane has shown.
RecomputeShown ==
    AfterRecompute /\ "recompute" \notin failing => ~RecomputeBreaks /\ Recomputes

\* What the translation lane has shown.
TranslationShown ==
    AfterTranslate /\ "translation" \notin failing =>
        /\ job.kind = "arith" => output = IF job.expr \in Exprs THEN Worth[job.expr] ELSE Raised
        /\ SoundList => output = Right(job.op, Asked)

NoneFailed == phase = "answered" => failing = {}

KernelInv == LoopsFit /\ FirstStays /\ RecomputeShown /\ TranslationShown /\ NoneFailed

-----------------------------------------------------------------------------
\* A template computes its operation on a list that is not too long.
LEMMA TemplateIsRight ==
    ASSUME NEW op \in Templates, NEW xs, Len(xs) <= MaxSteps
    PROVE  Outcome(op, xs) = Right(op, xs)
  <1>1. op \notin Written
    BY WrittenAssumption
  <1>2. Seen(op, xs) = xs
    BY DEF Seen
  <1> QED
    BY <1>1, <1>2 DEF Outcome

\* The operation's own template is tried first.
LEMMA OwnTemplateFirst ==
    ASSUME NEW op \in Templates
    PROVE  1 \in DOMAIN Likely(op) /\ Likely(op)[1] = op
  BY DEF Likely, Templates

\* The examples of a sound task agree with its operation.
LEMMA ExamplesFit ==
    ASSUME SoundList, given = job.examples
    PROVE  PassesGiven(job.op)
  <1>1. SUFFICES ASSUME NEW i \in DOMAIN job.examples
                 PROVE  Outcome(job.op, job.examples[i].in) =
                          (IF job.examples[i].out = Unasked THEN Right(job.op, job.examples[i].in)
                           ELSE job.examples[i].out)
    BY DEF PassesGiven
  <1>2. /\ job.op \in Templates
        /\ Len(job.examples[i].in) <= MaxSteps
        /\ job.examples[i].out \in {Unasked, Right(job.op, job.examples[i].in)}
    BY DEF SoundList, Sound
  <1>3. Outcome(job.op, job.examples[i].in) = Right(job.op, job.examples[i].in)
    BY <1>2, TemplateIsRight
  <1> QED
    BY <1>2, <1>3

\* What the recompute lane looks at.
LEMMA RecomputesKept ==
    ASSUME job' = job, output' = output, written' = written
    PROVE  Recomputes' = Recomputes /\ RecomputeBreaks' = RecomputeBreaks
  <1>1. Reaches(output[2])' = Reaches(output[2])
    BY DEF Reaches, Moved, Toward
  <1>2. Recorded' = Recorded
    BY DEF Recorded
  <1>3. Recomputes' = Recomputes
    BY <1>1, <1>2, Zenon DEF Recomputes, Outcome
  <1>4. RecomputeBreaks' = RecomputeBreaks
    BY <1>2, Zenon DEF RecomputeBreaks, Outcome
  <1> QED
    BY <1>3, <1>4
\* What a task asks for depends on the task alone.
LEMMA TaskKept ==
    ASSUME job' = job
    PROVE  /\ SoundList' = SoundList
           /\ Asked' = Asked
           /\ Right(job.op, Asked)' = Right(job.op, Asked)
  <1>1. Asked' = Asked
    BY DEF Asked
  <1>2. SoundList' = SoundList
    BY <1>1, Zenon DEF SoundList, Sound
  <1> QED
    BY <1>1, <1>2

\* Examples and task alone decide whether a template passes.
LEMMA PassesKept ==
    ASSUME job' = job, given' = given
    PROVE  PassesGiven(job.op)' = PassesGiven(job.op)
  BY Zenon DEF PassesGiven

\* The examples that a synthesis starts with agree with a sound task.
LEMMA NormalizedFits ==
    ASSUME SoundList, PassesGiven(job.op), job' = job, given' = Normalized
    PROVE  PassesGiven(job.op)'
  <1>1. CASE job.examples # <<>>
    BY <1>1, PassesKept DEF Normalized
  <1>2. CASE job.examples = <<>>
    <2>1. job.op \in Templates
      BY DEF SoundList, Sound
    <2>2. given' = <<Default(job.op)>>
      BY <1>2, <2>1 DEF Normalized
    <2>3. job.op \notin Written
      BY <2>1, WrittenAssumption
    <2>4. Outcome(job.op, Default(job.op).in) = Default(job.op).out
      BY <2>1, <2>3, DefaultAssumption DEF Outcome
    <2>5. Default(job.op).out # Unasked
      BY <2>1 DEF Default, Templates, Sample, Num, List, Unasked
    <2> QED
      BY <2>2, <2>4, <2>5, <1>2 DEF PassesGiven
  <1> QED
    BY <1>1, <1>2

\* On a sound task the operation's own template is the one tried.
LEMMA TriesOwn ==
    ASSUME KernelInv, SoundList, phase = "synthesize"
    PROVE  /\ tried \in DOMAIN Likely(job.op)
           /\ Template = job.op
           /\ Likely(job.op)[1] = job.op
           /\ PassesGiven(Template)
           /\ Outcome(job.op, Asked) = Right(job.op, Asked)
  <1>1. job.op \in Templates /\ Len(Asked) <= MaxSteps
    BY DEF SoundList, Sound
  <1>2. PassesGiven(job.op) /\ tried = 1
    BY DEF KernelInv, FirstStays
  <1>3. Outcome(job.op, Asked) = Right(job.op, Asked)
    BY <1>1, TemplateIsRight
  <1>4. 1 \in DOMAIN Likely(job.op) /\ Likely(job.op)[1] = job.op
    BY <1>1, OwnTemplateFirst
  <1>5. Template = job.op
    BY <1>2, <1>4 DEF Template
  <1> QED
    BY <1>2, <1>3, <1>4, <1>5
-----------------------------------------------------------------------------
\* A step before the lanes, or one that gives up.
LEMMA BeforeLanes ==
    ASSUME KernelInv, job' = job, given' = given, by' = by, phase' \in {"solve", "recompute", "raised"}
    PROVE  KernelInv'
  <1>1. FirstStays'
    BY TaskKept, PassesKept, Zenon DEF KernelInv, FirstStays
  <1>2. RecomputeShown' /\ TranslationShown'
    BY DEF RecomputeShown, AfterRecompute, TranslationShown, AfterTranslate
  <1> QED
    BY <1>1, <1>2 DEF KernelInv, LoopsFit, NoneFailed

\* A step of a loop, or of nothing, that leaves what the lanes have judged.
LEMMA LoopStep ==
    ASSUME KernelInv, job' = job, output' = output, written' = written,
           failing' = failing, by' = by, phase' = phase,
           SoundList => given' = given /\ (phase # "synthesize" \/ tried' = tried)
    PROVE  KernelInv'
  <1>1. FirstStays'
    <2>1. CASE SoundList
      BY <2>1, TaskKept, PassesKept, Zenon DEF KernelInv, FirstStays
    <2>2. CASE ~SoundList
      BY <2>2, TaskKept DEF FirstStays
    <2> QED
      BY <2>1, <2>2
  <1>2. RecomputeShown'
    BY RecomputesKept, Zenon DEF KernelInv, RecomputeShown, AfterRecompute
  <1>3. TranslationShown'
    BY TaskKept, Zenon DEF KernelInv, TranslationShown, AfterTranslate
  <1>4. LoopsFit' /\ NoneFailed'
    BY DEF KernelInv, LoopsFit, NoneFailed
  <1> QED
    BY <1>1, <1>2, <1>3, <1>4 DEF KernelInv

\* A loop of the stub begins, for the kernel or after the recompute lane.
LEMMA LoopBegins ==
    ASSUME KernelInv, NEW who, BeginSynthesis(who) \/ BeginPlan(who),
           BeginSynthesis(who) => job.kind = "list",
           BeginPlan(who) => job.kind = "world",
           who = "kernel" \/ (who = "lane" /\ phase = "translate")
    PROVE  KernelInv'
  <1> USE DEF BeginSynthesis, BeginPlan, proposal
  <1>1. job' = job /\ output' = output /\ written' = written /\ failing' = failing /\ by' = who
    OBVIOUS
  <1>2. LoopsFit'
    BY DEF LoopsFit
  <1>3. FirstStays'
    <2>1. CASE BeginSynthesis(who)
      <3>1. SoundList => PassesGiven(job.op)'
        BY <2>1, NormalizedFits DEF KernelInv, FirstStays
      <3> QED
        BY <2>1, <3>1, TaskKept, <1>1 DEF FirstStays
    <2>2. CASE BeginPlan(who)
      <3>1. given' = given /\ phase' = "plan"
        BY <2>2
      <3> QED
        BY <3>1, <1>1, TaskKept, PassesKept DEF FirstStays, KernelInv
    <2> QED
      BY <2>1, <2>2
  <1>4. RecomputeShown'
    <2>1. AfterRecompute' => AfterRecompute
      BY DEF AfterRecompute
    <2> QED
      BY <2>1, <1>1, RecomputesKept DEF RecomputeShown, KernelInv
  <1>5. TranslationShown' /\ NoneFailed'
    BY DEF TranslationShown, AfterTranslate, NoneFailed
  <1> QED
    BY <1>2, <1>3, <1>4, <1>5 DEF KernelInv
\* The translation lane compares the output with v.
LEMMA TranslationJudges ==
    ASSUME KernelInv, NEW v, CompareWith(v), UNCHANGED <<job, kernel, proposal, loops>>,
           AfterRecompute,
           job.kind = "arith" => v = IF job.expr \in Exprs THEN Worth[job.expr] ELSE Raised,
           SoundList => v = Right(job.op, Asked)
    PROVE  KernelInv'
  <1> USE DEF proposal, loops
  <1>1. /\ phase' = "consequence"
        /\ failing' = failing \/ failing' = failing \cup {"translation"}
        /\ "translation" \notin failing' => output = v
    BY Zenon DEF CompareWith, Judged
  <1>2. LoopsFit' /\ NoneFailed'
    BY <1>1 DEF KernelInv, LoopsFit, NoneFailed
  <1>3. FirstStays'
    BY <1>1, TaskKept, PassesKept DEF KernelInv, FirstStays
  <1>4. RecomputeShown'
    BY <1>1, RecomputesKept DEF KernelInv, RecomputeShown
  <1>5. TranslationShown'
    BY <1>1, TaskKept DEF TranslationShown
  <1> QED
    BY <1>2, <1>3, <1>4, <1>5 DEF KernelInv

\* A loop of the stub ends with v.
LEMMA LoopConcludes ==
    ASSUME KernelInv, NEW v, NEW p, Concluded(v, p),
           phase \in {"synthesize", "plan"}, SoundList => v = Right(job.op, Asked)
    PROVE  KernelInv'
  <1>1. CASE by = "kernel"
    BY <1>1, BeforeLanes DEF Concluded, Propose, loops
  <1>2. CASE by # "kernel"
    <2>1. CompareWith(v) /\ UNCHANGED <<job, kernel, proposal, loops>>
      BY <1>2 DEF Concluded
    <2>2. by = "lane"
      BY <1>2 DEF KernelInv, LoopsFit
    <2>3. AfterRecompute /\ job.kind # "arith"
      BY <2>2 DEF AfterRecompute, KernelInv, LoopsFit
    <2> QED
      BY <2>1, <2>3, TranslationJudges
  <1> QED
    BY <1>1, <1>2

-----------------------------------------------------------------------------
\* A step that is not a lane's outcome.
LEMMA ProposingStep ==
    ASSUME KernelInv,
           Interpret \/ ServiceFails \/ SolveDirectly \/ SolveByModel \/ SolveByStub
    PROVE  KernelInv'
  <1> USE DEF GivesUp, Propose, loops, proposal
  <1>1. CASE Interpret
    BY <1>1, BeforeLanes DEF Interpret
  <1>2. CASE ServiceFails
    BY <1>2, BeforeLanes DEF ServiceFails
  <1>3. CASE SolveDirectly
    BY <1>3, BeforeLanes DEF SolveDirectly
  <1>4. CASE SolveByModel
    BY <1>4, BeforeLanes DEF SolveByModel
  <1>5. CASE SolveByStub
    <2>1. CASE job.kind = "list" /\ BeginSynthesis("kernel")
      BY <2>1, LoopBegins DEF BeginSynthesis, BeginPlan
    <2>2. CASE job.kind = "world" /\ BeginPlan("kernel")
      BY <2>2, LoopBegins DEF BeginSynthesis, BeginPlan
    <2>3. CASE job.kind \notin {"list", "world"}
      BY <1>5, <2>3, BeforeLanes, Zenon DEF SolveByStub
    <2> QED
      BY <1>5, <2>1, <2>2, <2>3, Zenon DEF SolveByStub
  <1> QED
    BY <1>1, <1>2, <1>3, <1>4, <1>5

\* A step of the synthesis: on a sound task it is the one that accepts the
\* operation's own template.
LEMMA SynthesisStep ==
    ASSUME KernelInv,
           \/ RejectTemplate \/ AcceptTemplate \/ FallBack
           \/ \E x \in Samples : RefuteTemplate(x)
    PROVE  KernelInv'
  <1>1. phase = "synthesize"
    BY DEF RejectTemplate, AcceptTemplate, FallBack, RefuteTemplate, TryingTemplate
  <1>2. CASE RejectTemplate
    <2>1. ~SoundList
      BY <1>1, <1>2, TriesOwn DEF RejectTemplate
    <2> QED
      BY <1>2, <2>1, LoopStep DEF RejectTemplate, NextTemplate, proposal
  <1>3. CASE AcceptTemplate
    <2>1. SoundList => Outcome(Template, Asked) = Right(job.op, Asked)
      BY <1>1, TriesOwn, Zenon
    <2> QED
      BY <1>1, <1>3, <2>1, LoopConcludes DEF AcceptTemplate
  <1>4. CASE FallBack
    <2>1. SoundList => Outcome(Likely(job.op)[1], Asked) = Right(job.op, Asked)
      BY <1>1, TriesOwn, Zenon
    <2> QED
      BY <1>1, <1>4, <2>1, LoopConcludes DEF FallBack
  <1>5. CASE \E x \in Samples : RefuteTemplate(x)
    <2>1. PICK x \in Samples : RefuteTemplate(x)
      BY <1>5
    <2>2. ASSUME SoundList PROVE FALSE
      <3>1. Template = job.op
        BY <1>1, <2>2, TriesOwn
      <3>2. Outcome(job.op, x) = Right(job.op, x)
        BY <2>2, StepsAssumption, TemplateIsRight DEF SoundList, Sound
      <3> QED
        BY <2>1, <3>1, <3>2, Zenon DEF RefuteTemplate
    <2> QED
      BY <2>1, <2>2, LoopStep DEF RefuteTemplate, NextTemplate, proposal
  <1> QED
    BY <1>2, <1>3, <1>4, <1>5

\* A step of the planner.
LEMMA PlanningStep ==
    ASSUME KernelInv, PlanStep \/ PlanDone
    PROVE  KernelInv'
  <1>1. phase = "plan"
    BY DEF PlanStep, PlanDone
  <1>2. ~SoundList
    BY <1>1 DEF KernelInv, LoopsFit, SoundList
  <1>3. CASE PlanStep
    BY <1>1, <1>2, <1>3, LoopStep DEF PlanStep, proposal
  <1>4. CASE PlanDone
    BY <1>1, <1>2, <1>4, LoopConcludes DEF PlanDone
  <1> QED
    BY <1>3, <1>4

\* The recompute lane.
LEMMA RecomputeStep ==
    ASSUME KernelInv, Recompute
    PROVE  KernelInv'
  <1> USE DEF proposal, loops
  <1>1. CASE RecomputeBreaks
    BY <1>1, BeforeLanes DEF Recompute, GivesUp
  <1>2. CASE ~RecomputeBreaks
    <2>1. /\ phase' = "translate"
          /\ UNCHANGED <<job, kernel, proposal, loops>>
          /\ "recompute" \notin failing' => Recomputes
      BY <1>2, Zenon DEF Recompute, Judged
    <2>2. FirstStays'
      BY <2>1, TaskKept, PassesKept DEF KernelInv, FirstStays
    <2>3. RecomputeShown'
      BY <1>2, <2>1, RecomputesKept DEF RecomputeShown
    <2>4. LoopsFit' /\ TranslationShown' /\ NoneFailed'
      BY <2>1 DEF KernelInv, LoopsFit, TranslationShown, AfterTranslate, NoneFailed
    <2> QED
      BY <2>2, <2>3, <2>4 DEF KernelInv
  <1> QED
    BY <1>1, <1>2

\* The translation lane.
LEMMA TranslateStep ==
    ASSUME KernelInv, Translate
    PROVE  KernelInv'
  <1>1. phase = "translate" /\ AfterRecompute
    BY DEF Translate, AfterRecompute
  <1>2. CASE job.kind = "list"
    <2>1. BeginSynthesis("lane")
      BY <1>2, Zenon DEF Translate
    <2> QED
      BY <1>1, <1>2, <2>1, LoopBegins DEF BeginSynthesis, BeginPlan
  <1>3. CASE job.kind = "world" /\ ~Scripted
    <2>1. BeginPlan("lane")
      BY <1>3 DEF Translate
    <2> QED
      BY <1>1, <1>3, <2>1, LoopBegins DEF BeginSynthesis, BeginPlan
  <1>4. CASE job.kind # "list" /\ ~(job.kind = "world" /\ ~Scripted)
    <2> DEFINE v == IF job.kind = "arith"
                    THEN IF job.expr \in Exprs THEN Worth[job.expr] ELSE Raised
                    ELSE IF Scripted THEN List(job.script) ELSE Nothing
    <2>1. CompareWith(v) /\ UNCHANGED <<job, kernel, proposal, loops>>
      BY <1>4, Zenon DEF Translate
    <2>2. ~SoundList
      BY <1>4 DEF SoundList
    <2>3. job.kind = "arith" => v = IF job.expr \in Exprs THEN Worth[job.expr] ELSE Raised
      BY Zenon
    <2> QED
      BY <1>1, <2>1, <2>2, <2>3, TranslationJudges
  <1> QED
    BY <1>2, <1>3, <1>4

\* The consequence lane, the verdict, and a step of nothing.
LEMMA LastStep ==
    ASSUME KernelInv,
           (\E x \in Samples : Consequence(x)) \/ Decide \/ UNCHANGED kernelVars
    PROVE  KernelInv'
  <1> USE DEF proposal, loops
  <1>1. CASE \E x \in Samples : Consequence(x)
    <2>1. PICK x \in Samples : Consequence(x)
      BY <1>1
    <2>2. CASE GivesUp
      BY <2>2, BeforeLanes DEF GivesUp
    <2>3. CASE ~GivesUp
      <3>1. /\ phase = "consequence" /\ phase' = "decide"
            /\ UNCHANGED <<job, kernel, proposal, loops>>
            /\ failing \subseteq failing'
        BY <2>1, <2>3, Zenon DEF Consequence, Judged
      <3>2. FirstStays'
        BY <3>1, TaskKept, PassesKept DEF KernelInv, FirstStays
      <3>3. RecomputeShown'
        BY <3>1, RecomputesKept DEF KernelInv, RecomputeShown, AfterRecompute
      <3>4. TranslationShown'
        BY <3>1, TaskKept DEF KernelInv, TranslationShown, AfterTranslate
      <3>5. LoopsFit' /\ NoneFailed'
        BY <3>1 DEF KernelInv, LoopsFit, NoneFailed
      <3> QED
        BY <3>2, <3>3, <3>4, <3>5 DEF KernelInv
    <2> QED
      BY <2>2, <2>3
  <1>2. CASE Decide
    <2>1. /\ phase = "decide" /\ phase' \in {"answered", "refused"}
          /\ phase' = "answered" => failing = {}
          /\ UNCHANGED <<job, kernel, proposal, loops, failing>>
      BY <1>2 DEF Decide
    <2>2. FirstStays'
      BY <2>1, TaskKept, PassesKept DEF KernelInv, FirstStays
    <2>3. RecomputeShown'
      BY <2>1, RecomputesKept DEF KernelInv, RecomputeShown, AfterRecompute
    <2>4. TranslationShown'
      BY <2>1, TaskKept DEF KernelInv, TranslationShown, AfterTranslate
    <2>5. LoopsFit' /\ NoneFailed'
      BY <2>1 DEF KernelInv, LoopsFit, NoneFailed
    <2> QED
      BY <2>2, <2>3, <2>4, <2>5 DEF KernelInv
  <1>3. CASE UNCHANGED kernelVars
    BY <1>3, LoopStep DEF kernelVars
  <1> QED
    BY <1>1, <1>2, <1>3

\* Lanes that do not fail show that an answer is right.
LEMMA LanesShowPassMeansRight ==
    ASSUME KernelInv
    PROVE  PassMeansRight
  <1> SUFFICES ASSUME phase = "answered"
               PROVE  CASE job.kind = "arith" ->
                             job.expr \in Exprs /\ IsNum(output) /\ output = Worth[job.expr]
                        [] job.kind = "list"  -> Sound => output = Right(job.op, Asked)
                        [] job.kind = "world" -> IsList(output) /\ Reaches(output[2])
                        [] OTHER              -> FALSE
    BY DEF PassMeansRight
  <1>1. failing = {}
    BY DEF KernelInv, NoneFailed
  <1>2. ~RecomputeBreaks /\ Recomputes
    BY <1>1 DEF KernelInv, RecomputeShown, AfterRecompute
  <1>3. /\ job.kind = "arith" => output = IF job.expr \in Exprs THEN Worth[job.expr] ELSE Raised
        /\ SoundList => output = Right(job.op, Asked)
    BY <1>1 DEF KernelInv, TranslationShown, AfterTranslate
  <1>4. CASE job.kind = "arith"
    <2>1. IsNum(WorthOf(job.expr)) /\ output = WorthOf(job.expr)
      BY <1>2, <1>4, Zenon DEF Recomputes
    <2>2. IsNum(output)
      BY <2>1, Zenon
    <2>3. job.expr \in Exprs
      <3>1. ~IsNum(Raised)
        BY DEF IsNum, Raised
      <3> QED
        BY <1>3, <1>4, <2>2, <3>1
    <2> QED
      BY <1>3, <1>4, <2>2, <2>3
  <1>5. CASE job.kind = "list"
    BY <1>3, <1>5 DEF SoundList
  <1>6. CASE job.kind = "world"
    <2>1. IsList(output)
      BY <1>2, <1>6, Zenon DEF RecomputeBreaks
    <2>2. Reaches(output[2])
      BY <1>2, <1>6, Zenon DEF Recomputes
    <2> QED
      BY <1>6, <2>1, <2>2
  <1>7. CASE job.kind \notin {"arith", "list", "world"}
    BY <1>2, <1>7, Zenon DEF Recomputes
  <1> QED
    BY <1>4, <1>5, <1>6, <1>7

\* What the lanes have shown holds of every task, kernel and proposal.
THEOREM KernelInductive == KernelSpec => []KernelInv
  <1>1. KernelInit => KernelInv
    <2> SUFFICES ASSUME KernelInit PROVE KernelInv
      OBVIOUS
    <2>1. phase = "interpret" /\ by = "kernel"
      BY DEF KernelInit
    <2>2. SoundList => given = job.examples
      BY DEF KernelInit, SoundList
    <2>3. FirstStays
      BY <2>1, <2>2, ExamplesFit DEF FirstStays
    <2> QED
      BY <2>1, <2>3 DEF KernelInv, LoopsFit, RecomputeShown, AfterRecompute,
         TranslationShown, AfterTranslate, NoneFailed
  <1>2. KernelInv /\ [KernelNext]_kernelVars => KernelInv'
    BY ProposingStep, SynthesisStep, PlanningStep, RecomputeStep, TranslateStep, LastStep, Zenon
       DEF KernelNext
  <1> QED
    BY <1>1, <1>2, PTL DEF KernelSpec

\* An answer is right for any tasks, proposals and programs: only a lane that
\* passes lets it through (run_recompute, run_translation, _decide).
THEOREM AnswersAreRight == KernelSpec => []PassMeansRight
  <1>1. KernelInv => PassMeansRight
    BY LanesShowPassMeansRight
  <1> QED
    BY <1>1, KernelInductive, PTL

-----------------------------------------------------------------------------
(* The stub plans along the first row of a clear world and then down, and   *)
(* its plan leads to the goal.                                              *)

\* The plan for a clear world.
PathLength == job.goal[1] + job.goal[2]
Path == [i \in 1..PathLength |-> IF i <= job.goal[1] THEN "right" ELSE "down"]

\* Where it leads after k steps.
PathCell(k) == IF k <= job.goal[1] THEN <<k, 0>> ELSE <<job.goal[1], k - job.goal[1]>>

ClearWorld == job \in Jobs /\ job.kind = "world" /\ Clear

\* The smaller and the larger of two numbers.
LEMMA PairBounds ==
    ASSUME NEW a \in Int, NEW b \in Int
    PROVE  Min({a, b}) = (IF a <= b THEN a ELSE b) /\ Max({a, b}) = (IF a >= b THEN a ELSE b)
<1>1. \E x \in {a, b} : \A y \in {a, b} : x <= y
  <2>1. CASE a <= b
    BY <2>1
  <2>2. CASE ~(a <= b)
    BY <2>2
  <2> QED
    BY <2>1, <2>2
<1>2. \E x \in {a, b} : \A y \in {a, b} : x >= y
  <2>1. CASE a >= b
    BY <2>1
  <2>2. CASE ~(a >= b)
    BY <2>2
  <2> QED
    BY <2>1, <2>2
<1>3. Min({a, b}) \in {a, b} /\ \A y \in {a, b} : Min({a, b}) <= y
  BY <1>1 DEF Min
<1>4. Max({a, b}) \in {a, b} /\ \A y \in {a, b} : Max({a, b}) >= y
  BY <1>2 DEF Max
<1> QED
  BY <1>3, <1>4

\* The path has one step or more for each coordinate of the goal.
LEMMA PathBounds ==
    ASSUME ClearWorld
    PROVE  /\ job.goal[1] \in Nat /\ job.goal[2] \in Nat /\ PathLength \in Nat
           /\ job.width \in Int /\ job.height \in Int
           /\ job.goal[1] <= job.width - 1 /\ job.goal[2] <= job.height - 1
           /\ PathCell(0) = <<0, 0>> /\ PathCell(PathLength) = job.goal
<1>1. job.goal \in Int \X Int /\ job.width \in Int /\ job.height \in Int
  BY WorldAssumption DEF ClearWorld
<1>2. job.goal[1] \in 0..(job.width - 1) /\ job.goal[2] \in 0..(job.height - 1)
  BY DEF ClearWorld, Clear
<1>3. PICK x, y \in Int : job.goal = <<x, y>>
  BY <1>1
<1>4. x \in Nat /\ y \in Nat /\ job.goal[1] = x /\ job.goal[2] = y
  BY <1>1, <1>2, <1>3
<1>5. PathLength = x + y /\ PathCell(0) = <<0, 0>>
  BY <1>4 DEF PathLength, PathCell
<1>6. PathCell(x + y) = <<x, y>>
  BY <1>4 DEF PathCell
<1> QED
  BY <1>1, <1>2, <1>3, <1>4, <1>5, <1>6

\* Each of its steps leads to its next cell, and is the planner's choice.
LEMMA PathStep ==
    ASSUME ClearWorld, NEW k \in 0..(PathLength - 1)
    PROVE  /\ Moved(PathCell(k), Path[k + 1]) = PathCell(k + 1)
           /\ PathCell(k + 1) # PathCell(k) /\ PathCell(k) # job.goal
           /\ agent = PathCell(k) => Greedy = Path[k + 1]
<1>1. PICK x, y \in Nat : /\ job.goal[1] = x /\ job.goal[2] = y /\ PathLength = x + y
                          /\ job.goal = <<x, y>>
  <2>1. PathCell(PathLength) = job.goal
    BY PathBounds
  <2>2. job.goal \in Int \X Int
    BY WorldAssumption DEF ClearWorld
  <2> QED
    BY <2>2, PathBounds DEF PathLength
<1>2. job.width \in Int /\ job.height \in Int /\ x <= job.width - 1 /\ y <= job.height - 1
  BY <1>1, PathBounds
<1>3. k \in 0..(x + y - 1)
  BY <1>1
<1>4. \A c \in job.blocked : ~(c[2] = 0 /\ c[1] \in 1..x) /\ ~(c[1] = x /\ c[2] \in 1..y)
  BY <1>1 DEF ClearWorld, Clear
<1>5. CASE k < x
  <2>1. PathCell(k) = <<k, 0>> /\ PathCell(k + 1) = <<k + 1, 0>> /\ Path[k + 1] = "right"
    BY <1>1, <1>3, <1>5 DEF PathCell, Path
  <2>2. Min({job.width - 1, k + 1}) = k + 1
    <3>1. k + 1 <= job.width - 1 /\ k + 1 \in Int /\ job.width - 1 \in Int
      BY <1>1, <1>2, <1>3, <1>5
    <3> QED
      BY <3>1, PairBounds
  <2>3. Toward(<<k, 0>>, "right") = <<k + 1, 0>>
    <3>1. <<k, 0>>[1] = k /\ <<k, 0>>[2] = 0
      OBVIOUS
    <3>2. Toward(<<k, 0>>, "right") = <<Min({job.width - 1, <<k, 0>>[1] + 1}), <<k, 0>>[2]>>
      BY DEF Toward
    <3> QED
      BY <2>2, <3>1, <3>2
  <2>4. <<k + 1, 0>> \notin job.blocked
    BY <1>3, <1>4, <1>5
  <2>5. Moved(<<k, 0>>, "right") = <<k + 1, 0>>
    BY <2>3, <2>4, Zenon DEF Moved
  <2>6. <<k + 1, 0>> # <<k, 0>> /\ <<k, 0>> # <<x, y>>
    BY <1>3, <1>5
  <2>7. agent = <<k, 0>> => Greedy = "right"
    BY <1>1, <1>5 DEF Greedy
  <2> QED
    BY <1>1, <2>1, <2>5, <2>6, <2>7
<1>6. CASE k >= x
  <2> DEFINE d == k - x
  <2>1. d \in 0..(y - 1)
    BY <1>3, <1>6
  <2>2. PathCell(k) = <<x, d>> /\ PathCell(k + 1) = <<x, d + 1>> /\ Path[k + 1] = "down"
    BY <1>1, <1>3, <1>6 DEF PathCell, Path
  <2> HIDE DEF d
  <2>3. Min({job.height - 1, d + 1}) = d + 1
    <3>1. d + 1 <= job.height - 1 /\ d + 1 \in Int /\ job.height - 1 \in Int
      BY <1>1, <1>2, <2>1
    <3> QED
      BY <3>1, PairBounds
  <2>4. Toward(<<x, d>>, "down") = <<x, d + 1>>
    <3>1. <<x, d>>[1] = x /\ <<x, d>>[2] = d
      OBVIOUS
    <3>2. Toward(<<x, d>>, "down") = <<<<x, d>>[1], Min({job.height - 1, <<x, d>>[2] + 1})>>
      BY DEF Toward
    <3> QED
      BY <2>3, <3>1, <3>2
  <2>5. <<x, d + 1>> \notin job.blocked
    BY <1>4, <2>1
  <2>6. Moved(<<x, d>>, "down") = <<x, d + 1>>
    BY <2>4, <2>5, Zenon DEF Moved
  <2>7. <<x, d + 1>> # <<x, d>> /\ <<x, d>> # <<x, y>>
    BY <2>1
  <2>8. agent = <<x, d>> => Greedy = "down"
    BY <1>1, <2>1 DEF Greedy
  <2> QED
    BY <1>1, <2>2, <2>6, <2>7, <2>8
<1> QED
  BY <1>1, <1>3, <1>5, <1>6

\* The path leads to the goal.
LEMMA PathReaches ==
    ASSUME ClearWorld, job.goal # <<0, 0>>
    PROVE  Reaches(Path)
<1>1. PICK n \in Nat : n = PathLength
  BY PathBounds
<1>2. n >= 1
  BY <1>1, PathBounds
<1>3. Len(Path) = n
  <2>1. Path \in [1..n -> {"right", "down"}]
    BY <1>1 DEF Path
  <2>2. Path \in Seq({"right", "down"})
    BY <2>1, SeqDef
  <2> QED
    BY <2>1, <2>2, LenProperties
<1> DEFINE at[k \in 0..Len(Path)] == IF k = 0 THEN <<0, 0>> ELSE Moved(at[k - 1], Path[k])
           g == [k \in 0..n |-> PathCell(k)]
<1>4. \A k \in 1..n : Moved(PathCell(k - 1), Path[k]) = PathCell(k)
  <2> SUFFICES ASSUME NEW k \in 1..n PROVE Moved(PathCell(k - 1), Path[k]) = PathCell(k)
    OBVIOUS
  <2>1. k - 1 \in 0..(PathLength - 1) /\ (k - 1) + 1 = k
    BY <1>1
  <2> QED
    BY <2>1, PathStep
<1>5. g = [k \in 0..n |-> IF k = 0 THEN <<0, 0>> ELSE Moved(g[k - 1], Path[k])]
  <2>1. ASSUME NEW k \in 0..n
        PROVE  PathCell(k) = IF k = 0 THEN <<0, 0>> ELSE Moved(g[k - 1], Path[k])
    <3>1. CASE k = 0
      BY <3>1, PathBounds
    <3>2. CASE k # 0
      <4>1. k \in 1..n /\ g[k - 1] = PathCell(k - 1)
        BY <3>2
      <4> QED
        BY <1>4, <3>2, <4>1
    <3> QED
      BY <3>1, <3>2
  <2> QED
    BY <2>1
<1> HIDE DEF g
<1>6. at = [k \in 0..n |-> IF k = 0 THEN <<0, 0>> ELSE Moved(at[k - 1], Path[k])]
  <2>1. PICK f : f = g
    OBVIOUS
  <2>2. f = [k \in 0..n |-> IF k = 0 THEN <<0, 0>> ELSE Moved(f[k - 1], Path[k])]
    BY <1>5, <2>1
  <2>3. f = [k \in 0..Len(Path) |-> IF k = 0 THEN <<0, 0>> ELSE Moved(f[k - 1], Path[k])]
    BY <1>3, <2>2
  <2>4. at = [k \in 0..Len(Path) |-> IF k = 0 THEN <<0, 0>> ELSE Moved(at[k - 1], Path[k])]
    BY <2>3, Zenon
  <2> QED
    BY <1>3, <2>4
<1> HIDE DEF at
<1> DEFINE Good == {k \in Nat : k <= n => at[k] = PathCell(k)}
<1>7. 0 \in Good
  BY <1>6, PathBounds
<1>8. ASSUME NEW k \in Good PROVE k + 1 \in Good
  <2> SUFFICES ASSUME k + 1 <= n PROVE at[k + 1] = PathCell(k + 1)
    OBVIOUS
  <2>1. at[k] = PathCell(k) /\ k + 1 \in 0..n /\ k + 1 # 0
    OBVIOUS
  <2>2. k + 1 \in 1..n /\ (k + 1) - 1 = k
    OBVIOUS
  <2>3. at[k + 1] = Moved(at[(k + 1) - 1], Path[k + 1])
    BY <1>6, <2>1
  <2>4. Moved(PathCell(k), Path[k + 1]) = PathCell(k + 1)
    BY <1>4, <2>2
  <2> QED
    BY <2>1, <2>2, <2>3, <2>4
<1> HIDE DEF Good
<1>9. Good = Nat
  <2>1. PICK T : T = Good
    OBVIOUS
  <2>2. T \in SUBSET Nat /\ 0 \in T /\ \A k \in T : k + 1 \in T
    BY <1>7, <1>8, <2>1 DEF Good
  <2> QED
    BY <2>1, <2>2, SetInduction
<1>10. at[n] = job.goal
  BY <1>1, <1>9, PathBounds DEF Good
<1>11. \E k \in 1..Len(Path) : at[k] = job.goal
  BY <1>2, <1>3, <1>10
<1> QED
  BY <1>11 DEF Reaches, at

-----------------------------------------------------------------------------
(* The lanes agree with the stub about an ordinary task.                    *)

\* What the stub proposes for it.
StubProposal ==
    /\ job.kind = "arith" => output = Worth[job.expr]
    /\ job.kind = "list"  => written = job.op /\ output = Right(job.op, Asked)
    /\ job.kind = "world" => output = List(IF Scripted THEN job.script ELSE Path)

\* It has been proposed.
HasProposal ==
    phase \notin {"interpret", "solve"} /\ ~(phase \in {"synthesize", "plan"} /\ by = "kernel")

\* The planner has gone part of the path.
OnPath ==
    \E k \in 0..PathLength : agent = PathCell(k) /\ planned = [i \in 1..k |-> Path[i]]

\* No lane fails, and what the stub has proposed is what it proposes again.
Agreed ==
    /\ phase \notin {"refused", "raised"} /\ failing = {}
    /\ HasProposal => StubProposal
    /\ phase = "plan" => ~Scripted /\ OnPath

StubInv == job \in Jobs /\ (kernel = "stub" /\ Ordinary => Agreed)

\* The cases of an ordinary task.
LEMMA OrdinaryCases ==
    ASSUME Ordinary
    PROVE  /\ job.kind \in {"arith", "list", "world"}
           /\ job.kind = "arith" => job.expr \in Exprs /\ IsNum(Worth[job.expr]) /\ ~KernelAsked
           /\ job.kind = "list"  => SoundList /\ job.input # NoInput /\ ~Scripted
           /\ job.kind = "world" => /\ job.exact
                                    /\ Scripted => Reaches(job.script)
                                    /\ ~Scripted => Clear /\ job.goal # <<0, 0>>
<1>1. CASE job.kind = "arith"
  BY <1>1, Zenon DEF Ordinary, KernelAsked
<1>2. CASE job.kind = "list"
  <2>1. Sound /\ job.input # NoInput
    BY <1>2, Zenon DEF Ordinary
  <2> QED
    BY <1>2, <2>1 DEF SoundList, Scripted
<1>3. CASE job.kind = "world"
  BY <1>3, Zenon DEF Ordinary
<1>4. CASE job.kind \notin {"arith", "list", "world"}
  BY <1>4, Zenon DEF Ordinary
<1> QED
  BY <1>1, <1>2, <1>3, <1>4

\* What is ordinary, and what the stub proposes, depend on the task and the
\* proposal.
LEMMA ProposalStays ==
    ASSUME job' = job
    PROVE  /\ Ordinary' = Ordinary /\ Scripted' = Scripted /\ PathLength' = PathLength
           /\ Path' = Path /\ \A k : PathCell(k)' = PathCell(k)
           /\ output' = output /\ written' = written => StubProposal' = StubProposal
<1>1. Scripted' = Scripted /\ Asked' = Asked /\ PathLength' = PathLength
  BY DEF Scripted, Asked, PathLength
<1>2. Path' = Path
  BY <1>1 DEF Path
<1>3. \A k : PathCell(k)' = PathCell(k)
  BY DEF PathCell
<1>4. Sound' = Sound
  BY <1>1, Zenon DEF Sound
<1>5. Reaches(job.script)' = Reaches(job.script)
  BY DEF Reaches, Moved, Toward
<1>6. Clear' = Clear
  BY DEF Clear
<1>7. Ordinary' = Ordinary
  BY <1>1, <1>4, <1>5, <1>6, Zenon DEF Ordinary
<1>8. output' = output /\ written' = written => StubProposal' = StubProposal
  BY <1>1, <1>2, Zenon DEF StubProposal
<1> QED
  BY <1>1, <1>2, <1>3, <1>7, <1>8

\* An operation answers every list.
LEMMA RightAnswers ==
    ASSUME NEW op \in Templates, NEW xs
    PROVE  Right(op, xs) # Raised
<1>1. \A v : Num(v) # Raised /\ List(v) # Raised
  BY DEF Num, List, Raised
<1> QED
  BY <1>1, Zenon DEF Right, Templates

\* What is proposed passes the lanes' tests: it does not break the recompute
\* lane, which computes it again.
LEMMA ProposalRecomputes ==
    ASSUME job \in Jobs, Ordinary, StubProposal
    PROVE  ~RecomputeBreaks /\ Recomputes
<1>1. CASE job.kind = "arith"
  <2>1. job.expr \in Exprs /\ IsNum(Worth[job.expr]) /\ output = Worth[job.expr]
    BY <1>1, OrdinaryCases DEF StubProposal
  <2>2. WorthOf(job.expr) = Worth[job.expr]
    BY <2>1, NamesAssumption DEF WorthOf
  <2>3. ~IsNum(Complex)
    BY DEF IsNum, Complex
  <2>4. WorthOf(job.expr) # Complex
    BY <2>1, <2>2, <2>3, Zenon
  <2>5. ~RecomputeBreaks
    BY <1>1, <2>4 DEF RecomputeBreaks
  <2>6. Recomputes
    BY <1>1, <2>1, <2>2, Zenon DEF Recomputes
  <2> QED
    BY <2>5, <2>6
<1>2. CASE job.kind = "list"
  <2>1. /\ job.op \in Templates /\ written = job.op /\ output = Right(job.op, Asked)
        /\ Len(Asked) <= MaxSteps /\ Recorded = Asked
    BY <1>2, OrdinaryCases DEF StubProposal, SoundList, Sound, Recorded, Asked
  <2>2. Outcome(written, Recorded) = Right(job.op, Asked)
    BY <2>1, TemplateIsRight
  <2>3. Outcome(written, Recorded) # Raised
    BY <2>1, <2>2, RightAnswers
  <2>4. ~RecomputeBreaks
    BY <1>2, <2>3 DEF RecomputeBreaks
  <2>5. Recomputes
    BY <1>2, <2>1, <2>2, Zenon DEF Recomputes
  <2> QED
    BY <2>4, <2>5
<1>3. CASE job.kind = "world"
  <2> DEFINE plan == IF Scripted THEN job.script ELSE Path
  <2>1. output = List(plan)
    BY <1>3 DEF StubProposal
  <2>2. Reaches(plan)
    <3>1. CASE Scripted
      BY <1>3, <3>1, OrdinaryCases
    <3>2. CASE ~Scripted
      BY <1>3, <3>2, OrdinaryCases, PathReaches DEF ClearWorld
    <3> QED
      BY <3>1, <3>2
  <2> HIDE DEF plan
  <2>3. output[2] = plan /\ IsList(output)
    BY <2>1 DEF List, IsList
  <2>4. ~RecomputeBreaks
    BY <1>3, <2>3 DEF RecomputeBreaks
  <2>5. Reaches(output[2])
    BY <2>2, <2>3
  <2>6. Recomputes
    BY <1>3, <2>5, Zenon DEF Recomputes
  <2> QED
    BY <2>4, <2>6
<1> QED
  BY <1>1, <1>2, <1>3, OrdinaryCases

\* A step after which the stub has still to propose, or has proposed.
LEMMA Proposes ==
    ASSUME job' = job, failing' = failing, failing = {},
           \/ phase' = "solve"
           \/ phase' = "synthesize" /\ by' = "kernel"
           \/ phase' = "recompute" /\ StubProposal'
    PROVE  Agreed'
BY DEF Agreed, HasProposal

\* A lane that passes leaves the proposal as it is.
LEMMA LanePasses ==
    ASSUME failing = {}, StubProposal, UNCHANGED <<job, output, written, failing>>,
           phase' \in {"translate", "consequence", "decide", "answered"}
    PROVE  Agreed'
BY ProposalStays DEF Agreed

\* The translation lane passes when the alternative is what was proposed.
LEMMA AlternativePasses ==
    ASSUME Ordinary, failing = {}, StubProposal, CompareWith(output),
           UNCHANGED <<job, kernel, proposal, loops>>
    PROVE  Agreed'
<1>1. job.kind = "world" => job.exact
  BY OrdinaryCases
<1>2. phase' = "consequence" /\ failing' = failing
  BY <1>1 DEF CompareWith, Judged
<1> QED
  BY <1>2, LanePasses DEF proposal

\* The planner begins at the start of the path.
LEMMA PlanBegins ==
    ASSUME NEW who, BeginPlan(who), ClearWorld, ~Scripted, failing = {},
           who = "kernel" \/ StubProposal
    PROVE  Agreed'
<1>1. /\ UNCHANGED <<job, output, written, failing>> /\ phase' = "plan" /\ by' = who
      /\ agent' = <<0, 0>> /\ planned' = <<>>
  BY DEF BeginPlan, proposal
<1>2. HasProposal' => StubProposal'
  BY <1>1, ProposalStays DEF HasProposal
<1>3. OnPath'
  <2>1. 0 \in 0..PathLength' /\ agent' = PathCell(0)'
    BY <1>1, ProposalStays, PathBounds
  <2>2. planned' = [i \in 1..0 |-> Path[i]']
    BY <1>1
  <2> QED
    BY <2>1, <2>2 DEF OnPath
<1>4. ~Scripted'
  BY <1>1, ProposalStays
<1> QED
  BY <1>1, <1>2, <1>3, <1>4 DEF Agreed

\* The loops of the stub end with what it proposes.
LEMMA LoopProposes ==
    ASSUME Ordinary, Agreed, NEW v, NEW p, Concluded(v, p), phase \in {"synthesize", "plan"},
           job.kind = "list" => p = job.op /\ v = Right(job.op, Asked),
           job.kind = "world" => v = List(Path) /\ ~Scripted,
           job.kind \in {"list", "world"}
    PROVE  Agreed'
<1>1. CASE by = "kernel"
  <2>1. phase' = "recompute" /\ output' = v /\ written' = p /\ job' = job /\ failing' = failing
    BY <1>1 DEF Concluded, Propose
  <2>2. Asked' = Asked /\ Scripted' = Scripted /\ Path' = Path
    BY <2>1, ProposalStays, TaskKept
  <2>3. StubProposal'
    BY <2>1, <2>2, TaskKept DEF StubProposal
  <2> QED
    BY <2>1, <2>3, Proposes DEF Agreed
<1>2. CASE by # "kernel"
  <2>1. CompareWith(v) /\ UNCHANGED <<job, kernel, proposal, loops>>
    BY <1>2 DEF Concluded
  <2>2. StubProposal
    BY <1>2 DEF Agreed, HasProposal
  <2>3. output = v
    BY <2>2 DEF StubProposal
  <2> QED
    BY <2>1, <2>2, <2>3, AlternativePasses DEF Agreed
<1> QED
  BY <1>1, <1>2

-----------------------------------------------------------------------------
\* The controller, or the stub, takes the task up.
LEMMA StubSolves ==
    ASSUME job \in Jobs, kernel = "stub", Ordinary, Agreed,
           Interpret \/ ServiceFails \/ SolveDirectly \/ SolveByModel \/ SolveByStub
    PROVE  Agreed'
<1>1. failing = {}
  BY DEF Agreed
<1>2. CASE Interpret
  BY <1>1, <1>2, Proposes DEF Interpret
<1>3. CASE ServiceFails \/ SolveByModel
  BY <1>3 DEF ServiceFails, SolveByModel
<1>4. CASE SolveDirectly
  <2> DEFINE v == IF Scripted THEN List(job.script)
                  ELSE IF IsNum(Worth[job.expr]) THEN Worth[job.expr] ELSE Nothing
  <2>1. /\ phase' = "recompute" /\ output' = v /\ written' = written
        /\ job' = job /\ failing' = failing /\ ~KernelAsked
    BY <1>4 DEF SolveDirectly, Propose
  <2>2. job.kind = "arith" => v = Worth[job.expr]
    BY OrdinaryCases DEF Scripted
  <2>3. job.kind # "list" /\ (job.kind = "world" => v = List(job.script) /\ Scripted)
    BY <2>1, OrdinaryCases DEF KernelAsked
  <2> HIDE DEF v
  <2>4. Scripted' = Scripted
    BY <2>1, ProposalStays
  <2>5. StubProposal'
    BY <2>1, <2>2, <2>3, <2>4 DEF StubProposal
  <2> QED
    BY <1>1, <2>1, <2>5, Proposes
<1>5. CASE SolveByStub
  <2>1. CASE job.kind = "arith"
    BY <1>5, <2>1, OrdinaryCases DEF SolveByStub
  <2>2. CASE job.kind = "list"
    <3>1. BeginSynthesis("kernel")
      BY <1>5, <2>2, Zenon DEF SolveByStub
    <3> QED
      BY <1>1, <3>1, Proposes DEF BeginSynthesis
  <2>3. CASE job.kind = "world"
    <3>1. BeginPlan("kernel")
      BY <1>5, <2>3, Zenon DEF SolveByStub
    <3>2. ~Scripted
      BY <1>5 DEF SolveByStub, KernelAsked
    <3>3. ClearWorld
      BY <2>3, <3>2, OrdinaryCases DEF ClearWorld
    <3> QED
      BY <1>1, <3>1, <3>2, <3>3, PlanBegins
  <2> QED
    BY <2>1, <2>2, <2>3, OrdinaryCases
<1> QED
  BY <1>2, <1>3, <1>4, <1>5

\* It tries the operation's own template and accepts it.
LEMMA StubSynthesizes ==
    ASSUME KernelInv, job \in Jobs, Ordinary, Agreed,
           \/ RejectTemplate \/ AcceptTemplate \/ FallBack
           \/ \E x \in Samples : RefuteTemplate(x)
    PROVE  Agreed'
<1>1. phase = "synthesize" /\ job.kind = "list" /\ SoundList
  <2>1. phase = "synthesize"
    BY DEF RejectTemplate, AcceptTemplate, FallBack, RefuteTemplate, TryingTemplate
  <2> QED
    BY <2>1, OrdinaryCases DEF KernelInv, LoopsFit
<1>2. /\ tried \in DOMAIN Likely(job.op) /\ Template = job.op /\ PassesGiven(Template)
      /\ Outcome(job.op, Asked) = Right(job.op, Asked)
  BY <1>1, TriesOwn, Zenon
<1>3. CASE RejectTemplate
  BY <1>2, <1>3 DEF RejectTemplate
<1>4. CASE AcceptTemplate
  <2>1. Concluded(Outcome(Template, Asked), Template)
    BY <1>4 DEF AcceptTemplate
  <2>2. Outcome(Template, Asked) = Right(job.op, Asked)
    BY <1>2
  <2> QED
    BY <1>1, <1>2, <2>1, <2>2, LoopProposes
<1>5. CASE FallBack
  BY <1>2, <1>5 DEF FallBack
<1>6. CASE \E x \in Samples : RefuteTemplate(x)
  <2>1. PICK x \in Samples : RefuteTemplate(x)
    BY <1>6
  <2>2. Outcome(job.op, x) = Right(job.op, x)
    BY <1>1, StepsAssumption, TemplateIsRight DEF SoundList, Sound
  <2> QED
    BY <1>2, <2>1, <2>2, Zenon DEF RefuteTemplate
<1> QED
  BY <1>3, <1>4, <1>5, <1>6

\* It plans the next step of the path.
LEMMA StubPlansStep ==
    ASSUME job \in Jobs, job.kind = "world", Ordinary, Agreed, PlanStep
    PROVE  Agreed'
<1>1. phase = "plan" /\ agent # job.goal
  BY DEF PlanStep
<1>2. ~Scripted /\ OnPath /\ failing = {}
  BY <1>1 DEF Agreed
<1>3. ClearWorld
  BY <1>2, OrdinaryCases DEF ClearWorld
<1>4. PICK n \in Nat : n = PathLength /\ PathCell(n) = job.goal
  BY <1>3, PathBounds
<1>5. PICK k \in 0..n : agent = PathCell(k) /\ planned = [i \in 1..k |-> Path[i]]
  BY <1>2, <1>4 DEF OnPath
<1>6. k \in 0..(n - 1)
  BY <1>1, <1>4, <1>5
<1>7. /\ Moved(agent, Greedy) = PathCell(k + 1) /\ PathCell(k + 1) # agent
      /\ Greedy = Path[k + 1]
  BY <1>3, <1>4, <1>5, <1>6, PathStep
<1>8. /\ agent' = PathCell(k + 1) /\ planned' = Append(planned, Path[k + 1])
      /\ UNCHANGED <<job, output, written, failing, phase, by>>
  BY <1>7 DEF PlanStep, proposal
<1>9. planned' = [i \in 1..(k + 1) |-> Path[i]]
  <2>1. PICK path : path = Path
    OBVIOUS
  <2>2. path = [i \in 1..n |-> path[i]] /\ k + 1 \in 1..n
    BY <1>4, <1>6, <2>1 DEF Path
  <2> DEFINE R == {path[i] : i \in 1..n}
  <2>3. \A i \in 1..n : path[i] \in R
    OBVIOUS
  <2> HIDE DEF R
  <2>4. [i \in 1..k |-> path[i]] \in Seq(R)
    <3>1. [i \in 1..k |-> path[i]] \in [1..k -> R] /\ k \in Nat
      BY <1>6, <2>3
    <3> QED
      BY <3>1, SeqDef
  <2>5. Len([i \in 1..k |-> path[i]]) = k
    BY <1>6, <2>4, LenProperties
  <2>6. Append([i \in 1..k |-> path[i]], path[k + 1]) = [i \in 1..(k + 1) |-> path[i]]
    <3>1. PICK s \in Seq(R) : s = [i \in 1..k |-> path[i]] /\ Len(s) = k
      BY <2>4, <2>5
    <3>2. Append(s, path[k + 1]) = [i \in 1..(k + 1) |-> IF i <= k THEN s[i] ELSE path[k + 1]]
      BY <1>6, <2>2, <2>3, <3>1
    <3>3. \A i \in 1..(k + 1) : (IF i <= k THEN s[i] ELSE path[k + 1]) = path[i]
      BY <1>6, <3>1
    <3> QED
      BY <3>1, <3>2, <3>3
  <2> QED
    BY <1>5, <1>8, <2>1, <2>6
<1>10. Path' = Path /\ PathCell(k + 1)' = PathCell(k + 1) /\ PathLength' = n /\ ~Scripted'
  BY <1>2, <1>4, <1>8, ProposalStays
<1>11. OnPath'
  <2>1. k + 1 \in 0..n
    BY <1>6
  <2> QED
    BY <1>8, <1>9, <1>10, <2>1 DEF OnPath
<1>12. HasProposal' => StubProposal'
  BY <1>8, ProposalStays DEF Agreed, HasProposal
<1> QED
  BY <1>2, <1>8, <1>10, <1>11, <1>12, <1>1 DEF Agreed

\* At the goal it has planned all of the path.
LEMMA StubPlans ==
    ASSUME KernelInv, job \in Jobs, Ordinary, Agreed, PlanStep \/ PlanDone
    PROVE  Agreed'
<1>1. phase = "plan" /\ job.kind = "world" /\ ~Scripted /\ OnPath
  BY DEF PlanStep, PlanDone, KernelInv, LoopsFit, Agreed
<1>2. CASE PlanStep
  BY <1>1, <1>2, StubPlansStep
<1>3. CASE PlanDone
  <2>1. ClearWorld
    BY <1>1, OrdinaryCases DEF ClearWorld
  <2>2. PICK n \in Nat : n = PathLength
    BY <2>1, PathBounds
  <2>3. PICK k \in 0..n : agent = PathCell(k) /\ planned = [i \in 1..k |-> Path[i]]
    BY <1>1, <2>2 DEF OnPath
  <2>4. k = n
    <3>1. ~(k \in 0..(n - 1))
      BY <1>3, <2>1, <2>2, <2>3, PathStep DEF PlanDone
    <3> QED
      BY <3>1
  <2>5. planned = Path
    BY <2>2, <2>3, <2>4 DEF Path
  <2> QED
    BY <1>1, <1>3, <2>5, LoopProposes DEF PlanDone
<1> QED
  BY <1>2, <1>3

\* The lanes agree with the stub.
LEMMA StubIsJudged ==
    ASSUME job \in Jobs, Ordinary, Agreed,
           Recompute \/ Translate \/ Decide \/ (\E x \in Samples : Consequence(x))
    PROVE  Agreed'
<1>1. /\ phase \in {"recompute", "translate", "consequence", "decide"} /\ failing = {}
      /\ StubProposal /\ ~RecomputeBreaks /\ Recomputes
  <2>1. phase \in {"recompute", "translate", "consequence", "decide"}
    BY DEF Recompute, Translate, Decide, Consequence
  <2>2. StubProposal
    BY <2>1 DEF Agreed, HasProposal
  <2> QED
    BY <2>1, <2>2, ProposalRecomputes DEF Agreed
<1>2. CASE Recompute
  <2>1. phase' = "translate" /\ failing' = failing /\ UNCHANGED <<job, output, written>>
    BY <1>1, <1>2 DEF Recompute, Judged, proposal
  <2> QED
    BY <1>1, <2>1, LanePasses
<1>3. CASE Translate
  <2>1. CASE job.kind = "list"
    <3>1. BeginSynthesis("lane")
      BY <1>3, <2>1, Zenon DEF Translate
    <3>2. UNCHANGED <<job, output, written, failing>> /\ phase' = "synthesize"
      BY <3>1 DEF BeginSynthesis, proposal
    <3> QED
      BY <1>1, <3>2, ProposalStays DEF Agreed
  <2>2. CASE job.kind = "world" /\ ~Scripted
    <3>1. BeginPlan("lane")
      BY <1>3, <2>2 DEF Translate
    <3>2. ClearWorld
      BY <2>2, OrdinaryCases DEF ClearWorld
    <3> QED
      BY <1>1, <2>2, <3>1, <3>2, PlanBegins
  <2>3. CASE job.kind # "list" /\ ~(job.kind = "world" /\ ~Scripted)
    <3> DEFINE v == IF job.kind = "arith"
                    THEN IF job.expr \in Exprs THEN Worth[job.expr] ELSE Raised
                    ELSE IF Scripted THEN List(job.script) ELSE Nothing
    <3>1. CompareWith(v) /\ UNCHANGED <<job, kernel, proposal, loops>>
      BY <1>3, <2>3, Zenon DEF Translate
    <3>2. v = output
      BY <1>1, <2>3, OrdinaryCases DEF StubProposal
    <3> HIDE DEF v
    <3> QED
      BY <1>1, <3>1, <3>2, AlternativePasses
  <2> QED
    BY <2>1, <2>2, <2>3
<1>4. CASE \E x \in Samples : Consequence(x)
  <2>1. PICK x \in Samples : Consequence(x)
    BY <1>4
  <2>2. job.kind = "list" => /\ Outcome(written, x) = Right(job.op, x)
                             /\ Outcome(written, x) # Raised
    <3>1. job.kind = "list" => job.op \in Templates /\ written = job.op
      BY <1>1, OrdinaryCases DEF StubProposal, SoundList, Sound
    <3> QED
      BY <3>1, StepsAssumption, TemplateIsRight, RightAnswers
  <2>3. phase' = "decide" /\ failing' = failing /\ UNCHANGED <<job, output, written>>
    BY <1>1, <2>1, <2>2 DEF Consequence, Judged, proposal
  <2> QED
    BY <1>1, <2>3, LanePasses
<1>5. CASE Decide
  <2>1. phase' = "answered" /\ UNCHANGED <<job, output, written, failing>>
    BY <1>1, <1>5 DEF Decide, proposal
  <2> QED
    BY <1>1, <2>1, LanePasses
<1> QED
  BY <1>2, <1>3, <1>4, <1>5

\* Every step keeps the lanes in agreement with the stub.
LEMMA StubStep ==
    ASSUME KernelInv, StubInv, [KernelNext]_kernelVars
    PROVE  StubInv'
<1>1. job' = job /\ kernel' = kernel
  BY Zenon DEF KernelNext, kernelVars, Interpret, ServiceFails, GivesUp, SolveDirectly, SolveByModel,
     SolveByStub, Propose, BeginSynthesis, BeginPlan, RejectTemplate, AcceptTemplate, FallBack,
     NextTemplate, Concluded, PlanStep, PlanDone, Recompute, Translate, Decide, RefuteTemplate,
     Consequence
<1>2. SUFFICES ASSUME kernel = "stub", Ordinary, job \in Jobs, Agreed PROVE Agreed'
  BY <1>1, ProposalStays DEF StubInv
<1>3. CASE UNCHANGED kernelVars
  <2>1. UNCHANGED <<job, output, written, failing, phase, by, agent, planned>>
    BY <1>3 DEF kernelVars, proposal, loops
  <2>2. HasProposal' => StubProposal'
    BY <1>2, <2>1, ProposalStays DEF Agreed, HasProposal
  <2>3. phase' = "plan" => ~Scripted' /\ OnPath'
    BY <1>2, <2>1 DEF Agreed, OnPath, PathLength, PathCell, Path, Scripted
  <2> QED
    BY <1>2, <2>1, <2>2, <2>3 DEF Agreed
<1> QED
  BY <1>2, <1>3, StubSolves, StubSynthesizes, StubPlans, StubIsJudged DEF KernelNext

\* An ordinary task that the stub solves is never refused, and nothing raises:
\* its lanes, which run it again on the examples it has extended, agree with it.
THEOREM StubAnswered == KernelSpec => []StubIsAnswered
<1>1. KernelInit => StubInv
  <2> SUFFICES ASSUME KernelInit PROVE StubInv
    OBVIOUS
  <2>1. phase = "interpret" /\ failing = {} /\ job \in Jobs
    BY DEF KernelInit
  <2> QED
    BY <2>1 DEF StubInv, Agreed, HasProposal
<1>2. KernelInv /\ StubInv /\ [KernelNext]_kernelVars => StubInv'
  BY StubStep
<1>3. StubInv => StubIsAnswered
  BY DEF StubInv, Agreed, StubIsAnswered
<1> QED
  BY <1>1, <1>2, <1>3, KernelInductive, PTL DEF KernelSpec
-----------------------------------------------------------------------------
(* The search comes to an end.                                               *)

\* A bound on the steps left: one for each candidate of this list and, after
\* the templates, of the enumeration, one before each list, and two to judge.
StepsLeft ==
    LET listed == Len(Candidates)
        later  == IF stage = "fastpath" THEN Len(order) + 4 ELSE 0
    IN  CASE pc = "prepare" -> listed + 3 + later
          [] pc = "search"  -> listed + 3 - next + later
          [] pc = "verify"  -> 1
          [] OTHER          -> 0

\* The search goes no further than the end of its list.
InList == pc = "search" => next <= Len(Candidates) + 1

\* Both lists of a task end.
LEMMA ListsEnd ==
    ASSUME Lists
    PROVE  Len(spec.templates) \in Nat /\ Len(order) \in Nat
BY SpecAssumption, OrderAssumption DEF Lists

\* A step of the search is one step less to come.
LEMMA SearchStep ==
    ASSUME IInv, InList, Next
    PROVE  InList' /\ StepsLeft \in Nat /\ StepsLeft' \in Nat /\ StepsLeft' < StepsLeft
<1>1. PICK a, b \in Nat : a = Len(spec.templates) /\ b = Len(order)
  BY ListsEnd DEF IInv
<1> DEFINE listed == IF stage = "fastpath" THEN a ELSE b
           later  == IF stage = "fastpath" THEN b + 4 ELSE 0
<1>2. Len(Candidates) = listed /\ DOMAIN Candidates = 1..listed
  BY <1>1, CandidatesListed DEF IInv, Candidates
<1>3. /\ pc = "prepare" => StepsLeft = listed + 3 + later
      /\ pc = "search" => StepsLeft = listed + 3 - next + later
      /\ pc = "verify" => StepsLeft = 1
  BY <1>1, <1>2, Zenon DEF StepsLeft
<1>4. UNCHANGED task
  BY DEF Next, Prepare, PrepareRaises, ExpandRaises, Reject, Accept, Exhausted, Refute, FuzzRaises,
     Verify, VerifyRaises, TryNext
<1>5. Len(Candidates)' = listed'
  BY <1>1, <1>4 DEF Candidates, task
<1>6. /\ pc' = "prepare" => StepsLeft' = listed' + 3 + later'
      /\ pc' = "search" => StepsLeft' = listed' + 3 - next' + later'
      /\ pc' = "verify" => StepsLeft' = 1
      /\ pc' \notin {"prepare", "search", "verify"} => StepsLeft' = 0
  <2>1. Len(order)' = b
    BY <1>1, <1>4 DEF task
  <2> QED
    BY <1>5, <2>1, Zenon DEF StepsLeft
<1>7. next \in Nat \ {0} /\ (pc = "search" => next <= listed + 1)
  BY <1>2 DEF IInv, TypeOK, InList
<1>8. InList' <=> (pc' = "search" => next' <= listed' + 1)
  BY <1>5 DEF InList
<1>9. CASE Prepare
  BY <1>3, <1>6, <1>8, <1>9 DEF Prepare
<1>10. CASE PrepareRaises
  BY <1>3, <1>6, <1>8, <1>10 DEF PrepareRaises
<1>11. CASE Reject \/ \E k \in Trials : Refute(k)
  <2>1. /\ pc = "search" /\ next \in 1..listed /\ stage' = stage /\ next' = next + 1
        /\ pc' \in {"failed", "search"}
    BY <1>2, <1>11 DEF Reject, Refute, Trying, TryNext
  <2> QED
    BY <1>3, <1>6, <1>7, <1>8, <2>1
<1>12. CASE ExpandRaises \/ \E k \in Trials : FuzzRaises(k)
  <2>1. pc = "search" /\ pc' = "raised"
    BY <1>12 DEF ExpandRaises, FuzzRaises, Trying
  <2> QED
    BY <1>3, <1>6, <1>7, <1>8, <2>1
<1>13. CASE Accept
  <2>1. pc = "search" /\ pc' = "verify" /\ next \in 1..listed
    BY <1>2, <1>13 DEF Accept, Trying
  <2> QED
    BY <1>3, <1>6, <1>7, <1>8, <2>1
<1>14. CASE Exhausted
  <2>1. /\ pc = "search" /\ stage' = "synthesize" /\ next = listed + 1
        /\ pc' = IF stage = "fastpath" THEN "prepare" ELSE "failed"
    BY <1>2, <1>7, <1>14 DEF Exhausted
  <2> QED
    BY <1>3, <1>6, <1>7, <1>8, <2>1
<1>15. CASE (\E drawn \in Draws : Verify(drawn)) \/ (\E drawn \in Draws : VerifyRaises(drawn))
  BY <1>3, <1>6, <1>8, <1>15 DEF Verify, VerifyRaises
<1> QED
  BY <1>9, <1>10, <1>11, <1>12, <1>13, <1>14, <1>15 DEF Next

\* Whatever the lists and the oracle are, a search has no more steps than its
\* templates and its enumeration allow: each one lowers a bound on those left.
THEOREM SearchAdvances ==
    Spec => [][/\ StepsLeft \in Nat /\ StepsLeft' \in Nat
               /\ StepsLeft' < StepsLeft]_vars
<1>1. Init => InList
  BY DEF Init, InList
<1>2. IInv /\ InList /\ [Next]_vars => InList'
  <2>1. UNCHANGED vars /\ InList => InList'
    BY DEF vars, task, search, InList, Candidates
  <2> QED
    BY <2>1, SearchStep
<1>3. IInv /\ InList /\ [Next]_vars =>
          [/\ StepsLeft \in Nat /\ StepsLeft' \in Nat
           /\ StepsLeft' < StepsLeft]_vars
  BY SearchStep
<1> QED
  BY <1>1, <1>2, <1>3, Inductive, PTL DEF Spec

-----------------------------------------------------------------------------
(* So does a task of Kernel, unless the planner has no way to its goal.      *)

\* The steps of a loop of the stub.
LoopLength ==
    CASE job.kind = "list"            -> Len(Likely(job.op)) + 1
      [] job.kind = "world" /\ Clear  -> PathLength + 1
      [] OTHER                        -> 0

\* Those that are left in a loop.
LoopLeft ==
    IF phase = "synthesize" THEN Len(Likely(job.op)) + 2 - tried
                            ELSE PathLength + 1 - (agent[1] + agent[2])

\* A bound on the steps left: the loop runs at most twice, once for the lane.
TaskLeft ==
    CASE phase = "interpret"   -> 6 + LoopLength + LoopLength
      [] phase = "solve"       -> 5 + LoopLength + LoopLength
      [] phase \in {"synthesize", "plan"} ->
            LoopLeft + (IF by = "kernel" THEN 4 + LoopLength ELSE 2)
      [] phase = "recompute"   -> 4 + LoopLength
      [] phase = "translate"   -> 3 + LoopLength
      [] phase = "consequence" -> 2
      [] phase = "decide"      -> 1
      [] OTHER                 -> 0

\* The loops go no further than their ends.
InLoop ==
    /\ phase = "synthesize" => tried \in 1..(Len(Likely(job.op)) + 1)
    /\ phase = "plan" => ~Scripted /\ (Clear => \E k \in 0..PathLength : agent = PathCell(k))

\* There are templates to try for any operation.
LEMMA LikelyLength ==
    ASSUME NEW op
    PROVE  Len(Likely(op)) \in Nat /\ DOMAIN Likely(op) = 1..Len(Likely(op))
<1>1. \A a, b, c, d : Len(<<a, b, c, d>>) = 4 /\ DOMAIN <<a, b, c, d>> = 1..4
  OBVIOUS
<1>2. \A a : Len(<<a>>) = 1 /\ DOMAIN <<a>> = 1..1
  OBVIOUS
<1>3. \/ \E a, b, c, d : Likely(op) = <<a, b, c, d>>
      \/ \E a : Likely(op) = <<a>>
  BY Zenon DEF Likely
<1> QED
  BY <1>1, <1>2, <1>3

\* The loop of a task that can be planned is bounded.
LEMMA LoopBounded ==
    ASSUME job \in Jobs, ~Unplannable
    PROVE  /\ LoopLength \in Nat
           /\ job.kind = "list" => LoopLength = Len(Likely(job.op)) + 1
           /\ job.kind = "world" /\ ~Scripted => ClearWorld /\ LoopLength = PathLength + 1
<1>1. CASE job.kind = "list"
  <2>1. LoopLength = Len(Likely(job.op)) + 1
    BY <1>1, Zenon DEF LoopLength
  <2> QED
    BY <1>1, <2>1, LikelyLength
<1>2. CASE job.kind = "world" /\ Clear
  <2>1. LoopLength = PathLength + 1
    BY <1>2, Zenon DEF LoopLength
  <2> QED
    BY <1>2, <2>1, PathBounds DEF ClearWorld
<1>3. CASE job.kind # "list" /\ ~(job.kind = "world" /\ Clear)
  <2>1. LoopLength = 0
    BY <1>3, Zenon DEF LoopLength
  <2> QED
    BY <1>3, <2>1 DEF Unplannable
<1> QED
  BY <1>1, <1>2, <1>3

\* The loop and what bounds it depend on the task.
LEMMA LoopStays ==
    ASSUME job' = job
    PROVE  /\ LoopLength' = LoopLength /\ PathLength' = PathLength /\ Unplannable' = Unplannable
           /\ Likely(job.op)' = Likely(job.op) /\ Scripted' = Scripted /\ Clear' = Clear
           /\ \A k : PathCell(k)' = PathCell(k)
<1>1. PathLength' = PathLength /\ Clear' = Clear /\ Scripted' = Scripted
  BY DEF PathLength, Clear, Scripted
<1>2. Likely(job.op)' = Likely(job.op) /\ \A k : PathCell(k)' = PathCell(k)
  BY DEF PathCell
<1>3. LoopLength' = LoopLength
  BY <1>1, <1>2, Zenon DEF LoopLength
<1>4. Unplannable' = Unplannable
  BY <1>1, Zenon DEF Unplannable
<1> QED
  BY <1>1, <1>2, <1>3, <1>4

\* Where the planner has gone k steps the coordinates add up to k.
LEMMA StepsGone ==
    ASSUME ClearWorld, NEW k \in 0..PathLength
    PROVE  PathCell(k)[1] + PathCell(k)[2] = k
<1>1. PICK x \in Nat : job.goal[1] = x
  BY PathBounds
<1>2. k \in Nat
  BY PathBounds
<1> QED
  BY <1>1, <1>2 DEF PathCell

\* A loop that has not ended has a step left.
LEMMA LeftInLoop ==
    ASSUME job \in Jobs, ~Unplannable, KernelInv, InLoop, phase \in {"synthesize", "plan"}
    PROVE  LoopLeft \in Nat \ {0}
<1>1. CASE phase = "synthesize"
  <2>1. tried \in 1..(Len(Likely(job.op)) + 1)
    BY <1>1 DEF InLoop
  <2>2. LoopLeft = Len(Likely(job.op)) + 2 - tried
    BY <1>1 DEF LoopLeft
  <2> QED
    BY <2>1, <2>2, LikelyLength
<1>2. CASE phase = "plan"
  <2>1. ClearWorld
    BY <1>2, LoopBounded DEF KernelInv, LoopsFit, InLoop
  <2>2. PICK k \in 0..PathLength : agent = PathCell(k)
    BY <1>2, <2>1 DEF InLoop, ClearWorld
  <2>3. LoopLeft = PathLength + 1 - k
    BY <1>2, <2>1, <2>2, StepsGone DEF LoopLeft
  <2> QED
    BY <2>1, <2>2, <2>3, PathBounds
<1> QED
  BY <1>1, <1>2

\* A loop that begins has as many steps as the task allows.
LEMMA LoopStarts ==
    ASSUME job \in Jobs, NEW who, by' = who, job' = job,
           \/ BeginSynthesis(who) /\ job.kind = "list"
           \/ BeginPlan(who) /\ job.kind = "world" /\ ~Scripted
    PROVE  /\ InLoop' /\ phase' \in {"synthesize", "plan"}
           /\ ~Unplannable => LoopLeft' = LoopLength /\ LoopLength \in Nat
<1>1. CASE BeginSynthesis(who) /\ job.kind = "list"
  <2>1. phase' = "synthesize" /\ tried' = 1
    BY <1>1 DEF BeginSynthesis
  <2>2. Len(Likely(job.op))' = Len(Likely(job.op))
    BY LoopStays
  <2>3. PICK n \in Nat : n = Len(Likely(job.op))
    BY LikelyLength
  <2>4. InLoop'
    BY <2>1, <2>2, <2>3 DEF InLoop
  <2>5. LoopLeft' = n + 2 - 1
    BY <2>1, <2>2, <2>3 DEF LoopLeft
  <2> QED
    BY <1>1, <2>1, <2>3, <2>4, <2>5, LoopBounded
<1>2. CASE BeginPlan(who) /\ job.kind = "world" /\ ~Scripted
  <2>1. phase' = "plan" /\ agent' = <<0, 0>>
    BY <1>2 DEF BeginPlan
  <2>2. /\ Scripted' = Scripted /\ Clear' = Clear /\ PathLength' = PathLength
        /\ PathCell(0)' = PathCell(0)
    BY LoopStays
  <2>3. Clear => 0 \in 0..PathLength /\ PathCell(0) = <<0, 0>>
    BY <1>2, PathBounds DEF ClearWorld
  <2>4. InLoop'
    BY <1>2, <2>1, <2>2, <2>3 DEF InLoop
  <2>5. LoopLeft' = PathLength + 1 - (0 + 0)
    BY <2>1, <2>2 DEF LoopLeft
  <2>6. ~Unplannable => PathLength \in Nat /\ LoopLength = PathLength + 1
    BY <1>2, LoopBounded, PathBounds
  <2> QED
    BY <2>1, <2>4, <2>5, <2>6
<1> QED
  BY <1>1, <1>2

\* A step within a loop leaves one step less.
LEMMA LoopGoesOn ==
    ASSUME job \in Jobs, KernelInv, InLoop,
           RejectTemplate \/ (\E x \in Samples : RefuteTemplate(x)) \/ PlanStep
    PROVE  /\ InLoop' /\ phase' = phase /\ phase \in {"synthesize", "plan"}
           /\ UNCHANGED <<job, by>>
           /\ ~Unplannable => LoopLeft' = LoopLeft - 1 /\ LoopLeft' \in Nat \ {0}
<1>1. CASE RejectTemplate \/ \E x \in Samples : RefuteTemplate(x)
  <2>1. /\ phase = "synthesize" /\ phase' = phase /\ UNCHANGED <<job, by>>
        /\ tried' = tried + 1 /\ tried \in DOMAIN Likely(job.op)
    BY <1>1 DEF RejectTemplate, RefuteTemplate, TryingTemplate, NextTemplate
  <2>2. PICK n \in Nat : n = Len(Likely(job.op)) /\ tried \in 1..n
    BY <2>1, LikelyLength
  <2>3. Len(Likely(job.op))' = n
    BY <2>1, <2>2, LoopStays
  <2>4. InLoop'
    BY <2>1, <2>2, <2>3 DEF InLoop
  <2>5. LoopLeft = n + 2 - tried /\ LoopLeft' = n + 2 - (tried + 1)
    BY <2>1, <2>2, <2>3 DEF LoopLeft
  <2> QED
    BY <2>1, <2>2, <2>4, <2>5
<1>2. CASE PlanStep
  <2>1. phase = "plan" /\ phase' = phase /\ UNCHANGED <<job, by>> /\ agent # job.goal
    BY <1>2 DEF PlanStep
  <2>2. job.kind = "world" /\ ~Scripted /\ (Clear => ClearWorld)
    BY <2>1 DEF KernelInv, LoopsFit, InLoop, ClearWorld
  <2>3. CASE Clear
    <3>1. PICK n \in Nat : n = PathLength /\ PathCell(n) = job.goal
      BY <2>2, <2>3, PathBounds
    <3>2. PICK k \in 0..n : agent = PathCell(k)
      BY <2>1, <2>3, <3>1 DEF InLoop
    <3>3. k \in 0..(n - 1) /\ k + 1 \in 0..n
      BY <2>1, <3>1, <3>2
    <3>4. agent' = PathCell(k + 1)
      BY <1>2, <2>2, <2>3, <3>1, <3>2, <3>3, PathStep DEF PlanStep
    <3>5. PathLength' = n /\ PathCell(k + 1)' = PathCell(k + 1) /\ Scripted' = Scripted
      BY <2>1, <3>1, LoopStays
    <3>6. InLoop'
      BY <2>1, <2>2, <3>3, <3>4, <3>5 DEF InLoop
    <3>7. LoopLeft = n + 1 - k
      BY <2>1, <2>2, <2>3, <3>1, <3>2, StepsGone DEF LoopLeft
    <3>8. LoopLeft' = n + 1 - (k + 1)
      <4>1. PathCell(k + 1)[1] + PathCell(k + 1)[2] = k + 1
        BY <2>2, <2>3, <3>1, <3>3, StepsGone
      <4> QED
        BY <2>1, <3>4, <3>5, <4>1 DEF LoopLeft
    <3> QED
      BY <2>1, <3>1, <3>3, <3>6, <3>7, <3>8
  <2>4. CASE ~Clear
    <3>1. Scripted' = Scripted /\ Clear' = Clear
      BY <2>1, LoopStays
    <3>2. InLoop'
      BY <2>1, <2>2, <2>4, <3>1 DEF InLoop
    <3> QED
      BY <2>1, <2>2, <2>4, <3>2 DEF Unplannable
  <2> QED
    BY <2>3, <2>4
<1> QED
  BY <1>1, <1>2

\* What a loop comes to.
LEMMA LoopEnds ==
    ASSUME AcceptTemplate \/ FallBack \/ PlanDone
    PROVE  /\ phase \in {"synthesize", "plan"} /\ job' = job
           /\ phase' = IF by = "kernel" THEN "recompute" ELSE "consequence"
<1>1. PICK v, p : Concluded(v, p) /\ phase \in {"synthesize", "plan"}
  BY Zenon DEF AcceptTemplate, FallBack, PlanDone, TryingTemplate
<1> QED
  BY <1>1, Zenon DEF Concluded, Propose, CompareWith, Judged

\* Outside the loops the episode goes forward, or begins a loop.
LEMMA OutsideLoops ==
    ASSUME job \in Jobs, KernelInv, InLoop,
           \/ Interpret \/ ServiceFails \/ SolveDirectly \/ SolveByModel \/ SolveByStub
           \/ Recompute \/ Translate \/ Decide \/ \E x \in Samples : Consequence(x)
    PROVE  /\ job' = job
           /\ \/ phase = "interpret" /\ phase' = "solve"
              \/ phase = "solve" /\ phase' = "recompute"
              \/ phase = "recompute" /\ phase' = "translate"
              \/ phase = "translate" /\ phase' = "consequence"
              \/ phase = "consequence" /\ phase' = "decide"
              \/ phase = "decide" /\ TaskEnded'
              \/ phase \notin {"synthesize", "plan"} /\ ~TaskEnded /\ TaskEnded'
              \/ /\ phase = "solve" /\ by' = "kernel"
                 /\ \/ BeginSynthesis("kernel") /\ job.kind = "list"
                    \/ BeginPlan("kernel") /\ job.kind = "world" /\ ~Scripted
              \/ /\ phase = "translate" /\ by' = "lane"
                 /\ \/ BeginSynthesis("lane") /\ job.kind = "list"
                    \/ BeginPlan("lane") /\ job.kind = "world" /\ ~Scripted
<1> USE DEF TaskEnded, GivesUp
<1>1. CASE Interpret
  BY <1>1 DEF Interpret
<1>2. CASE ServiceFails
  BY <1>2 DEF ServiceFails
<1>3. CASE SolveDirectly
  BY <1>3 DEF SolveDirectly, Propose
<1>4. CASE SolveByModel
  BY <1>4, Zenon DEF SolveByModel, Propose
<1>5. CASE SolveByStub
  <2>1. phase = "solve" /\ ~Scripted
    BY <1>5 DEF SolveByStub, KernelAsked
  <2>2. \/ \E v, p : Propose(v, p)
        \/ GivesUp
        \/ BeginSynthesis("kernel") /\ job.kind = "list"
        \/ BeginPlan("kernel") /\ job.kind = "world"
    BY <1>5, Zenon DEF SolveByStub
  <2>3. CASE (\E v, p : Propose(v, p)) \/ GivesUp
    BY <2>1, <2>3 DEF Propose
  <2>4. CASE BeginSynthesis("kernel") /\ job.kind = "list"
    BY <2>1, <2>4 DEF BeginSynthesis
  <2>5. CASE BeginPlan("kernel") /\ job.kind = "world"
    BY <2>1, <2>5 DEF BeginPlan
  <2> QED
    BY <2>2, <2>3, <2>4, <2>5
<1>6. CASE Recompute
  <2>1. GivesUp \/ (phase' = "translate" /\ job' = job)
    BY <1>6, Zenon DEF Recompute, Judged
  <2> QED
    BY <1>6, <2>1 DEF Recompute
<1>7. CASE Translate
  <2>1. phase = "translate"
    BY <1>7 DEF Translate
  <2>2. \/ BeginSynthesis("lane") /\ job.kind = "list"
        \/ BeginPlan("lane") /\ job.kind = "world" /\ ~Scripted
        \/ job' = job /\ \E v : CompareWith(v)
    BY <1>7, Zenon DEF Translate
  <2>3. CASE BeginSynthesis("lane") /\ job.kind = "list"
    BY <2>1, <2>3 DEF BeginSynthesis
  <2>4. CASE BeginPlan("lane") /\ job.kind = "world" /\ ~Scripted
    BY <2>1, <2>4 DEF BeginPlan
  <2>5. CASE job' = job /\ \E v : CompareWith(v)
    BY <2>1, <2>5 DEF CompareWith, Judged
  <2> QED
    BY <2>2, <2>3, <2>4, <2>5
<1>8. CASE Decide
  BY <1>8 DEF Decide
<1>9. CASE \E x \in Samples : Consequence(x)
  <2>1. phase = "consequence"
    BY <1>9 DEF Consequence
  <2>2. GivesUp \/ (phase' = "decide" /\ job' = job)
    BY <1>9, Zenon DEF Consequence, Judged
  <2> QED
    BY <2>1, <2>2
<1> QED
  BY <1>1, <1>2, <1>3, <1>4, <1>5, <1>6, <1>7, <1>8, <1>9

\* A step of a task is one step less to come.
LEMMA TaskStep ==
    ASSUME job \in Jobs, KernelInv, InLoop, KernelNext
    PROVE  /\ InLoop'
           /\ ~Unplannable => TaskLeft \in Nat /\ TaskLeft' \in Nat /\ TaskLeft' < TaskLeft
<1> DEFINE after == IF by = "kernel" THEN 4 + LoopLength ELSE 2
           now == /\ phase = "interpret" => TaskLeft = 6 + LoopLength + LoopLength
                  /\ phase = "solve" => TaskLeft = 5 + LoopLength + LoopLength
                  /\ phase \in {"synthesize", "plan"} => TaskLeft = LoopLeft + after
                  /\ phase = "recompute" => TaskLeft = 4 + LoopLength
                  /\ phase = "translate" => TaskLeft = 3 + LoopLength
                  /\ phase = "consequence" => TaskLeft = 2
                  /\ phase = "decide" => TaskLeft = 1
                  /\ TaskEnded => TaskLeft = 0
<1>1. now
  BY Zenon DEF TaskLeft, TaskEnded
<1>2. now'
  BY Zenon DEF TaskLeft, TaskEnded
<1>3. ~Unplannable => LoopLength \in Nat
  BY LoopBounded
<1>4. job' = job => LoopLength' = LoopLength
  BY LoopStays
<1>5. CASE RejectTemplate \/ (\E x \in Samples : RefuteTemplate(x)) \/ PlanStep
  <2>1. /\ InLoop' /\ phase' = phase /\ phase \in {"synthesize", "plan"} /\ job' = job /\ by' = by
        /\ ~Unplannable => LoopLeft' = LoopLeft - 1 /\ LoopLeft' \in Nat
    BY <1>5, LoopGoesOn
  <2>2. ~Unplannable => LoopLeft \in Nat
    BY <2>1, LeftInLoop
  <2> QED
    BY <1>1, <1>2, <1>3, <1>4, <2>1, <2>2
<1>6. CASE AcceptTemplate \/ FallBack \/ PlanDone
  <2>1. /\ phase \in {"synthesize", "plan"} /\ job' = job
        /\ phase' = IF by = "kernel" THEN "recompute" ELSE "consequence"
    BY <1>6, LoopEnds
  <2>2. ~Unplannable => LoopLeft \in Nat \ {0}
    BY <2>1, LeftInLoop
  <2> QED
    BY <1>1, <1>2, <1>3, <1>4, <2>1, <2>2 DEF InLoop
<1>7. CASE \/ Interpret \/ ServiceFails \/ SolveDirectly \/ SolveByModel \/ SolveByStub
           \/ Recompute \/ Translate \/ Decide \/ \E x \in Samples : Consequence(x)
  <2>1. job' = job
    BY <1>7, OutsideLoops
  <2>2. CASE \/ /\ phase = "solve" /\ by' = "kernel"
                /\ \/ BeginSynthesis("kernel") /\ job.kind = "list"
                   \/ BeginPlan("kernel") /\ job.kind = "world" /\ ~Scripted
             \/ /\ phase = "translate" /\ by' = "lane"
                /\ \/ BeginSynthesis("lane") /\ job.kind = "list"
                   \/ BeginPlan("lane") /\ job.kind = "world" /\ ~Scripted
    <3>1. /\ InLoop' /\ phase' \in {"synthesize", "plan"}
          /\ ~Unplannable => LoopLeft' = LoopLength
      BY <2>1, <2>2, LoopStarts
    <3> QED
      BY <1>1, <1>2, <1>3, <1>4, <2>1, <2>2, <3>1
  <2>3. CASE \/ phase = "interpret" /\ phase' = "solve"
             \/ phase = "solve" /\ phase' = "recompute"
             \/ phase = "recompute" /\ phase' = "translate"
             \/ phase = "translate" /\ phase' = "consequence"
             \/ phase = "consequence" /\ phase' = "decide"
             \/ phase = "decide" /\ TaskEnded'
    BY <1>1, <1>2, <1>3, <1>4, <2>1, <2>3 DEF InLoop, TaskEnded
  <2>4. CASE phase \notin {"synthesize", "plan"} /\ ~TaskEnded /\ TaskEnded'
    <3>1. ~Unplannable => TaskLeft \in Nat \ {0}
      <4>1. phase \in {"interpret", "solve", "recompute", "translate", "consequence", "decide"}
        BY <1>7, <2>4 DEF Interpret, ServiceFails, SolveDirectly, SolveByModel, SolveByStub,
           Recompute, Translate, Decide, Consequence
      <4> QED
        BY <1>1, <1>3, <4>1
    <3> QED
      BY <1>2, <2>4, <3>1 DEF InLoop, TaskEnded
  <2> QED
    BY <1>7, <2>2, <2>3, <2>4, OutsideLoops
<1> QED
  BY <1>5, <1>6, <1>7 DEF KernelNext

\* Whatever the kernel proposes, a task that can be planned has no more steps
\* than its templates, or the way to its goal, and its lanes allow.
THEOREM TaskAdvances ==
    KernelSpec => [][~Unplannable => /\ TaskLeft \in Nat /\ TaskLeft' \in Nat
                                     /\ TaskLeft' < TaskLeft]_kernelVars
<1> DEFINE Inv == job \in Jobs /\ InLoop
<1>1. KernelInit => Inv
  BY DEF KernelInit, InLoop
<1>2. KernelInv /\ Inv /\ [KernelNext]_kernelVars => Inv'
  <2>1. UNCHANGED kernelVars /\ Inv => Inv'
    <3> SUFFICES ASSUME UNCHANGED kernelVars, Inv PROVE Inv'
      OBVIOUS
    <3>1. UNCHANGED <<job, phase, tried, agent>>
      BY DEF kernelVars, loops
    <3> QED
      BY <3>1, LoopStays DEF InLoop
  <2>2. KernelInv /\ Inv /\ KernelNext => job' = job
    <3> SUFFICES ASSUME KernelInv, Inv, KernelNext PROVE job' = job
      OBVIOUS
    <3> QED
      BY OutsideLoops, LoopEnds, LoopGoesOn DEF KernelNext
  <2> QED
    BY <2>1, <2>2, TaskStep
<1>3. KernelInv /\ Inv /\ [KernelNext]_kernelVars =>
          [~Unplannable => TaskLeft \in Nat /\ TaskLeft' \in Nat /\ TaskLeft' < TaskLeft]_kernelVars
  BY TaskStep
<1> HIDE DEF Inv
<1> QED
  BY <1>1, <1>2, <1>3, KernelInductive, PTL DEF KernelSpec
-----------------------------------------------------------------------------
(* The lists of Enumerate, known by the items that they hold.                *)

\* A function on the positions up to a number is a list.
LEMMA FunctionListed ==
    ASSUME NEW n \in Nat, NEW s, s = [i \in 1..n |-> s[i]]
    PROVE  Listed(s) /\ Len(s) = n /\ DOMAIN s = 1..n
<1> DEFINE R == {s[i] : i \in 1..n}
<1>1. s \in [1..n -> R]
  OBVIOUS
<1>2. s \in Seq(R)
  BY <1>1, SeqDef
<1>3. Len(s) = n /\ DOMAIN s = 1..n
  BY <1>1, <1>2
<1> HIDE DEF R
<1>4. Listed(s)
  BY <1>2, ListedSeq
<1> QED
  BY <1>3, <1>4

\* A list is one over the set of its items.
LEMMA ItemsListed ==
    ASSUME NEW s, Listed(s)
    PROVE  /\ s \in Seq(ToSet(s))
           /\ Len(s) \in Nat /\ DOMAIN s = 1..Len(s)
           /\ \A i \in DOMAIN s : s[i] \in ToSet(s)
           /\ s = [i \in 1..Len(s) |-> s[i]]
<1>1. s \in Seq(ToSet(s))
  BY DEF Listed, ToSet
<1>2. \A i \in DOMAIN s : s[i] \in ToSet(s)
  BY DEF ToSet
<1>3. Len(s) \in Nat /\ DOMAIN s = 1..Len(s)
  BY ListedDomain
<1>4. s = [i \in 1..Len(s) |-> s[i]]
  BY <1>1, <1>3
<1> QED
  BY <1>1, <1>2, <1>3, <1>4

\* A concatenation holds the items of both lists.
LEMMA ConcatHolds ==
    ASSUME NEW s, NEW t, Listed(s), Listed(t)
    PROVE  Listed(s \o t) /\ ToSet(s \o t) = ToSet(s) \cup ToSet(t)
<1> DEFINE S == ToSet(s) \cup ToSet(t)
<1>1. s \in Seq(S) /\ t \in Seq(S)
  BY ItemsListed, SeqMonotonic
<1> HIDE DEF S
<1>2. /\ s \o t \in Seq(S)
      /\ Len(s \o t) = Len(s) + Len(t)
      /\ \A i \in 1..(Len(s) + Len(t)) : (s \o t)[i] = IF i <= Len(s) THEN s[i] ELSE t[i - Len(s)]
  BY <1>1, ConcatProperties
<1>3. /\ Len(s) \in Nat /\ DOMAIN s = 1..Len(s) /\ Len(t) \in Nat /\ DOMAIN t = 1..Len(t)
      /\ DOMAIN (s \o t) = 1..(Len(s) + Len(t))
  BY <1>1, <1>2
<1>4. Listed(s \o t)
  BY <1>2, ListedSeq
<1>5. ASSUME NEW i \in DOMAIN (s \o t)
      PROVE  (s \o t)[i] \in ToSet(s) \cup ToSet(t)
  <2>1. CASE i <= Len(s)
    BY <1>2, <1>3, <2>1 DEF ToSet
  <2>2. CASE ~(i <= Len(s))
    <3>1. i - Len(s) \in DOMAIN t
      BY <1>3, <2>2
    <3>2. (s \o t)[i] = t[i - Len(s)]
      BY <1>2, <1>3, <2>2
    <3> QED
      BY <3>1, <3>2 DEF ToSet
  <2> QED
    BY <2>1, <2>2
<1>6. ASSUME NEW i \in DOMAIN s
      PROVE  \E k \in DOMAIN (s \o t) : (s \o t)[k] = s[i]
  BY <1>2, <1>3
<1>7. ASSUME NEW i \in DOMAIN t
      PROVE  \E k \in DOMAIN (s \o t) : (s \o t)[k] = t[i]
  <2>1. /\ i + Len(s) \in 1..(Len(s) + Len(t)) /\ ~(i + Len(s) <= Len(s))
        /\ (i + Len(s)) - Len(s) = i
    BY <1>3
  <2>2. (s \o t)[i + Len(s)] = t[i]
    BY <1>2, <2>1
  <2> QED
    BY <1>3, <2>1, <2>2
<1> QED
  BY <1>4, <1>5, <1>6, <1>7 DEF ToSet

\* What is computed is the list.
LEMMA ComputedSame ==
    ASSUME NEW s, Listed(s)
    PROVE  Computed(s) = s
<1>1. s \in Seq(ToSet(s))
  BY ItemsListed
<1> QED
  BY <1>1, ConcatEmptySeq DEF Computed

\* What the lists of a list hold.
Held(lists) == UNION {ToSet(lists[i]) : i \in DOMAIN lists}

\* Putting neighbours together loses nothing.
LEMMA HalvedHolds ==
    ASSUME NEW R, NEW lists \in Seq(Seq(R))
    PROVE  /\ Halved(lists) \in Seq(Seq(R))
           /\ Len(Halved(lists)) = (Len(lists) + 1) \div 2
           /\ Held(Halved(lists)) = Held(lists)
<1> DEFINE n == Len(lists)
           m == (n + 1) \div 2
           h == [i \in 1..m |-> IF 2 * i <= n THEN lists[2 * i - 1] \o lists[2 * i] ELSE lists[2 * i - 1]]
<1>1. n \in Nat /\ DOMAIN lists = 1..n /\ \A i \in 1..n : lists[i] \in Seq(R)
  OBVIOUS
<1>2. m \in Nat /\ 2 * m <= n + 1 /\ n <= 2 * m
  BY <1>1
<1> HIDE DEF n, m
<1>3. ASSUME NEW i \in 1..m
      PROVE  /\ 2 * i - 1 \in 1..n
             /\ 2 * i <= n => 2 * i \in 1..n
  BY <1>1, <1>2
<1>4. ASSUME NEW i \in 1..m
      PROVE  h[i] \in Seq(R)
  <2>1. CASE 2 * i <= n
    <3>1. lists[2 * i - 1] \in Seq(R) /\ lists[2 * i] \in Seq(R)
      BY <1>1, <1>3, <2>1
    <3> QED
      BY <2>1, <3>1, ConcatProperties
  <2>2. CASE ~(2 * i <= n)
    BY <1>1, <1>3, <2>2
  <2> QED
    BY <2>1, <2>2
<1>5. ASSUME NEW i \in 1..m
      PROVE  ToSet(h[i]) = ToSet(lists[2 * i - 1]) \cup (IF 2 * i <= n THEN ToSet(lists[2 * i]) ELSE {})
  <2>1. CASE 2 * i <= n
    <3>1. lists[2 * i - 1] \in Seq(R) /\ lists[2 * i] \in Seq(R)
      BY <1>1, <1>3, <2>1
    <3>2. Listed(lists[2 * i - 1]) /\ Listed(lists[2 * i])
      BY <3>1, ListedSeq
    <3> QED
      BY <2>1, <3>2, ConcatHolds
  <2>2. CASE ~(2 * i <= n)
    BY <2>2
  <2> QED
    BY <2>1, <2>2
<1>6. h = [i \in 1..m |-> h[i]] /\ DOMAIN h = 1..m
  OBVIOUS
<1> HIDE DEF h
<1>7. h \in [1..m -> Seq(R)]
  BY <1>4, <1>6
<1>8. h \in Seq(Seq(R)) /\ Len(h) = m
  BY <1>2, <1>7, SeqDef
<1>9. Halved(lists) = h
  <2>1. Listed(h)
    BY <1>8, ListedSeq
  <2>2. Halved(lists) = Computed(h)
    BY DEF Halved, h, m, n
  <2> QED
    BY <2>1, <2>2, ComputedSame
<1>10. Held(h) \subseteq Held(lists)
  <2> SUFFICES ASSUME NEW i \in 1..m, NEW x \in ToSet(h[i])
               PROVE  x \in Held(lists)
    BY <1>6 DEF Held
  <2> QED
    BY <1>1, <1>3, <1>5 DEF Held
<1>11. Held(lists) \subseteq Held(h)
  <2> SUFFICES ASSUME NEW k \in 1..n, NEW x \in ToSet(lists[k])
               PROVE  x \in Held(h)
    BY <1>1 DEF Held
  <2>1. PICK i \in 1..m : k = 2 * i - 1 \/ k = 2 * i
    <3>1. (k + 1) \div 2 \in 1..m
      BY <1>1, <1>2
    <3>2. k = 2 * ((k + 1) \div 2) - 1 \/ k = 2 * ((k + 1) \div 2)
      <4>1. k \in Nat
        BY <1>1
      <4> HIDE DEF n
      <4> QED
        BY <4>1
    <3> QED
      BY <3>1, <3>2
  <2>2. x \in ToSet(h[i])
    <3>1. CASE k = 2 * i - 1
      BY <1>5, <3>1
    <3>2. CASE k = 2 * i
      <4>1. 2 * i <= n
        BY <3>2
      <4>2. ToSet(h[i]) = ToSet(lists[2 * i - 1]) \cup ToSet(lists[2 * i])
        BY <1>5, <4>1
      <4> QED
        BY <3>2, <4>2
    <3> QED
      BY <2>1, <3>1, <3>2
  <2> QED
    BY <1>6, <2>2 DEF Held
<1> QED
  BY <1>8, <1>9, <1>10, <1>11 DEF m, n

\* The lists of a list, one after the other, hold what they held.
LEMMA JoinedHolds ==
    ASSUME NEW lists, Listed(lists), \A i \in DOMAIN lists : Listed(lists[i])
    PROVE  Listed(Joined(lists)) /\ ToSet(Joined(lists)) = Held(lists)
<1> DEFINE R == Held(lists)
           S == Seq(Seq(R))
<1>1. PICK n \in Nat : n = Len(lists)
  BY ItemsListed
<1>2. DOMAIN lists = 1..n /\ lists \in S /\ Computed(lists) = lists
  <2>1. DOMAIN lists = 1..n /\ lists = [i \in 1..n |-> lists[i]]
    BY <1>1, ItemsListed
  <2>2. ASSUME NEW i \in 1..n PROVE lists[i] \in Seq(R)
    <3>1. lists[i] \in Seq(ToSet(lists[i]))
      BY <2>1, ItemsListed
    <3>2. ToSet(lists[i]) \subseteq R
      BY <2>1 DEF Held
    <3> HIDE DEF R
    <3> QED
      BY <3>1, <3>2, SeqMonotonic
  <2> HIDE DEF R
  <2>3. lists \in [1..n -> Seq(R)]
    BY <2>1, <2>2
  <2>4. lists \in Seq(Seq(R))
    BY <2>3, SeqDef
  <2> QED
    BY <2>1, <2>4, ComputedSame
<1> HIDE DEF R
<1>3. PICK g \in [0..n -> S] : g = [k \in 0..n |-> IF k = 0 THEN Computed(lists) ELSE Halved(g[k - 1])]
  <2> DEFINE step == [k \in 1..n |-> [l \in S |-> Halved(l)]]
  <2>1. step \in [1..n -> [S -> S]]
    BY HalvedHolds
  <2>2. \A k \in 1..n, l \in S : step[k][l] = Halved(l)
    OBVIOUS
  <2> HIDE DEF step, S
  <2>3. PICK g \in [0..n -> S] : Results(g, n, lists, step)
    BY <1>2, <2>1, Recursion
  <2>4. ASSUME NEW k \in 0..n PROVE g[k] = IF k = 0 THEN Computed(lists) ELSE Halved(g[k - 1])
    <3>1. g[k] = IF k = 0 THEN lists ELSE step[k][g[k - 1]]
      BY <2>3, Zenon DEF Results
    <3>2. k # 0 => k \in 1..n /\ g[k - 1] \in S
      BY <2>3
    <3> QED
      BY <1>2, <2>2, <3>1, <3>2
  <2>5. g = [k \in 0..n |-> g[k]]
    BY <2>3
  <2> QED
    BY <2>4, <2>5
<1>4. PICK h \in [0..n -> Nat] : h = [k \in 0..n |-> IF k = 0 THEN n ELSE (h[k - 1] + 1) \div 2]
  <2> DEFINE step == [k \in 1..n |-> [m \in Nat |-> (m + 1) \div 2]]
  <2>1. step \in [1..n -> [Nat -> Nat]]
    OBVIOUS
  <2>2. \A k \in 1..n, m \in Nat : step[k][m] = (m + 1) \div 2
    OBVIOUS
  <2> HIDE DEF step
  <2>3. PICK h \in [0..n -> Nat] : Results(h, n, n, step)
    BY <2>1, Recursion
  <2>4. ASSUME NEW k \in 0..n PROVE h[k] = IF k = 0 THEN n ELSE (h[k - 1] + 1) \div 2
    <3>1. h[k] = IF k = 0 THEN n ELSE step[k][h[k - 1]]
      BY <2>3, Zenon DEF Results
    <3>2. k # 0 => k \in 1..n /\ h[k - 1] \in Nat
      BY <2>3
    <3> QED
      BY <2>2, <3>1, <3>2
  <2>5. h = [k \in 0..n |-> h[k]]
    BY <2>3
  <2> QED
    BY <2>4, <2>5
<1> DEFINE round[k \in 0..Len(lists)]  == IF k = 0 THEN Computed(lists) ELSE Halved(round[k - 1])
           length[k \in 0..Len(lists)] == IF k = 0 THEN Len(lists) ELSE (length[k - 1] + 1) \div 2
           last == CHOOSE k \in 0..Len(lists) : length[k] <= 1
<1>5. round = [k \in 0..n |-> IF k = 0 THEN Computed(lists) ELSE Halved(round[k - 1])]
  BY <1>1, <1>3
<1>6. length = [k \in 0..n |-> IF k = 0 THEN n ELSE (length[k - 1] + 1) \div 2]
  BY <1>1, <1>4
<1>7. Joined(lists) = IF n = 0 THEN <<>> ELSE round[last][1]
  BY <1>1 DEF Joined
<1> HIDE DEF round, length
<1>8. ASSUME NEW k \in 0..n
      PROVE  /\ round[k] \in S /\ Held(round[k]) = Held(lists)
             /\ length[k] \in Nat /\ Len(round[k]) = length[k]
             /\ n # 0 => length[k] # 0
             /\ length[k] <= 1 \/ length[k] <= n - k
  <2> DEFINE Good == {m \in Nat : m <= n =>
                        /\ round[m] \in S /\ Held(round[m]) = Held(lists)
                        /\ length[m] \in Nat /\ Len(round[m]) = length[m]
                        /\ n # 0 => length[m] # 0
                        /\ length[m] <= 1 \/ length[m] <= n - m}
  <2>1. 0 \in Good
    BY <1>1, <1>2, <1>5, <1>6
  <2>2. ASSUME NEW m \in Good PROVE m + 1 \in Good
    <3> SUFFICES ASSUME m + 1 <= n PROVE m + 1 \in Good
      OBVIOUS
    <3>1. m + 1 \in 0..n /\ m + 1 # 0 /\ (m + 1) - 1 = m
      OBVIOUS
    <3>2. round[m + 1] = Halved(round[m]) /\ length[m + 1] = (length[m] + 1) \div 2
      BY <1>5, <1>6, <3>1
    <3>3. /\ round[m] \in S /\ Held(round[m]) = Held(lists)
          /\ length[m] \in Nat /\ Len(round[m]) = length[m]
          /\ n # 0 => length[m] # 0
          /\ length[m] <= 1 \/ length[m] <= n - m
      OBVIOUS
    <3>4. /\ round[m + 1] \in S /\ Held(round[m + 1]) = Held(lists)
          /\ Len(round[m + 1]) = length[m + 1]
      <4>1. PICK r : r = round[m]
        OBVIOUS
      <4>2. r \in Seq(Seq(R)) /\ Held(r) = Held(lists) /\ Len(r) = length[m]
        BY <3>3, <4>1
      <4>3. /\ Halved(r) \in Seq(Seq(R)) /\ Held(Halved(r)) = Held(lists)
            /\ Len(Halved(r)) = (length[m] + 1) \div 2
        BY <4>2, HalvedHolds
      <4> QED
        BY <3>2, <4>1, <4>3
    <3>5. /\ length[m + 1] \in Nat
          /\ n # 0 => length[m + 1] # 0
          /\ length[m + 1] <= 1 \/ length[m + 1] <= n - (m + 1)
      <4>1. PICK a : a = length[m]
        OBVIOUS
      <4>2. a \in Nat /\ length[m + 1] = (a + 1) \div 2
        BY <3>2, <3>3, <4>1
      <4>3. n # 0 => a # 0
        BY <3>3, <4>1
      <4>4. a <= 1 \/ a <= n - m
        BY <3>3, <4>1
      <4>5. m \in Nat /\ n \in Nat /\ m + 1 <= n
        OBVIOUS
      <4> HIDE DEF Good
      <4>6. CASE a = 0
        BY <4>2, <4>3, <4>5, <4>6
      <4>7. CASE a = 1
        BY <4>2, <4>5, <4>7
      <4>8. CASE a # 0 /\ a # 1
        <5>1. PICK b : b = length[m + 1]
          OBVIOUS
        <5>2. b = (a + 1) \div 2
          BY <4>2, <5>1
        <5>3. b \in Nat /\ b # 0 /\ (b <= 1 \/ b <= n - (m + 1))
          BY <4>2, <4>4, <4>5, <4>8, <5>2
        <5> QED
          BY <5>1, <5>3
      <4> QED
        BY <4>6, <4>7, <4>8
    <3> QED
      BY <3>4, <3>5
  <2> HIDE DEF Good
  <2>3. Good = Nat
    <3>1. Good \in SUBSET Nat
      BY DEF Good
    <3> QED
      BY <2>1, <2>2, <3>1, SetInduction
  <2>4. k \in Good /\ k <= n
    BY <2>3
  <2> QED
    BY <2>4 DEF Good
<1>9. last \in 0..n /\ length[last] <= 1
  <2>1. n \in 0..n /\ length[n] <= 1
    BY <1>8
  <2> QED
    BY <1>1, <2>1
<1> HIDE DEF last
<1>10. CASE n = 0
  <2>1. Joined(lists) = <<>> /\ Held(lists) = {}
    BY <1>2, <1>7, <1>10 DEF Held
  <2>2. ToSet(<<>>) = {}
    BY DEF ToSet
  <2> QED
    BY <2>1, <2>2, ListedEmpty
<1>11. CASE n # 0
  <2>1. PICK r : r = round[last]
    OBVIOUS
  <2>2. r \in Seq(Seq(R)) /\ Len(r) = 1 /\ Held(r) = Held(lists)
    <3>1. PICK k \in 0..n : k = last
      BY <1>9
    <3>2. r \in S /\ Len(r) = length[k] /\ length[k] # 0 /\ length[k] <= 1 /\ Held(r) = Held(lists)
      BY <1>8, <1>9, <1>11, <2>1, <3>1
    <3>3. length[k] \in Nat
      BY <1>8
    <3> QED
      BY <3>2, <3>3
  <2>3. r[1] \in Seq(R) /\ DOMAIN r = 1..1
    <3>1. 1 \in 1..Len(r) /\ DOMAIN r = 1..Len(r)
      BY <2>2
    <3>2. \A i \in 1..Len(r) : r[i] \in Seq(R)
      <4> DEFINE Q == Seq(R)
      <4>1. r \in Seq(Q)
        BY <2>2
      <4> HIDE DEF Q
      <4>2. \A i \in 1..Len(r) : r[i] \in Q
        BY <4>1
      <4> QED
        BY <4>2 DEF Q
    <3> QED
      BY <2>2, <3>1, <3>2
  <2>4. ToSet(r[1]) = Held(r)
    <3>1. DOMAIN r = {1}
      BY <2>3
    <3>2. \A x : x \in Held(r) <=> x \in ToSet(r[1])
      BY <3>1 DEF Held
    <3> QED
      BY <3>2
  <2>5. Joined(lists) = r[1]
    BY <1>7, <1>11, <2>1
  <2>6. Listed(r[1])
    BY <2>3, ListedSeq
  <2> QED
    BY <2>2, <2>4, <2>5, <2>6
<1> QED
  BY <1>10, <1>11

\* A list with an item for each position of a list.
LEMMA MappedListed ==
    ASSUME NEW s, Listed(s), NEW f, f = [i \in DOMAIN s |-> f[i]]
    PROVE  Listed(f) /\ DOMAIN f = DOMAIN s /\ ToSet(f) = {f[i] : i \in DOMAIN s}
<1>1. PICK n \in Nat : DOMAIN s = 1..n
  BY ListedDomain
<1>2. f = [i \in 1..n |-> f[i]]
  BY <1>1
<1>3. Listed(f) /\ DOMAIN f = 1..n
  BY <1>2, FunctionListed
<1> QED
  BY <1>1, <1>3 DEF ToSet

\* A list of one item.
LEMMA OneListed ==
    ASSUME NEW x
    PROVE  Listed(<<x>>) /\ ToSet(<<x>>) = {x}
<1>1. <<x>> \in Seq({x}) /\ DOMAIN <<x>> = {1} /\ <<x>>[1] = x
  OBVIOUS
<1>2. Listed(<<x>>)
  BY <1>1, ListedSeq
<1>3. ToSet(<<x>>) = {x}
  BY <1>1, Zenon DEF ToSet
<1> QED
  BY <1>2, <1>3

\* The empty list has no items.
LEMMA EmptyHolds == Listed(<<>>) /\ ToSet(<<>>) = {}
<1>1. DOMAIN <<>> = {}
  OBVIOUS
<1> QED
  BY <1>1, ListedEmpty DEF ToSet

\* The items of a list that are in a set are those that it keeps.
LEMMA OnlyHolds ==
    ASSUME NEW s, Listed(s), NEW keep
    PROVE  Listed(Only(s, keep)) /\ ToSet(Only(s, keep)) = ToSet(s) \cap keep
<1>1. PICK f : f = [i \in DOMAIN s |-> IF s[i] \in keep THEN <<s[i]>> ELSE <<>>]
  OBVIOUS
<1>2. f = [i \in DOMAIN s |-> f[i]]
  BY <1>1
<1>3. Listed(f) /\ DOMAIN f = DOMAIN s
  BY <1>2, MappedListed
<1>4. ASSUME NEW i \in DOMAIN s
      PROVE  Listed(f[i]) /\ ToSet(f[i]) = {s[i]} \cap keep
  <2>1. CASE s[i] \in keep
    <3>1. f[i] = <<s[i]>>
      BY <1>1, <2>1
    <3> QED
      BY <2>1, <3>1, OneListed
  <2>2. CASE s[i] \notin keep
    <3>1. f[i] = <<>>
      BY <1>1, <2>2
    <3> QED
      BY <2>2, <3>1, EmptyHolds
  <2> QED
    BY <2>1, <2>2
<1>5. Only(s, keep) = Joined(f)
  BY <1>1 DEF Only
<1>6. Listed(Joined(f)) /\ ToSet(Joined(f)) = Held(f)
  BY <1>3, <1>4, JoinedHolds
<1>7. Held(f) = ToSet(s) \cap keep
  <2>1. \A x : x \in Held(f) <=> \E i \in DOMAIN s : x \in {s[i]} \cap keep
    BY <1>3, <1>4 DEF Held
  <2>2. \A x : x \in ToSet(s) <=> \E i \in DOMAIN s : x = s[i]
    BY DEF ToSet
  <2> QED
    BY <2>1, <2>2
<1> QED
  BY <1>5, <1>6, <1>7

\* Two nested turns reach every pair.
LEMMA PairsHold ==
    ASSUME NEW s, NEW t, Listed(s), Listed(t)
    PROVE  Listed(Pairs(s, t)) /\ ToSet(Pairs(s, t)) = ToSet(s) \X ToSet(t)
<1>1. PICK f : f = [i \in DOMAIN s |-> [j \in DOMAIN t |-> <<s[i], t[j]>>]]
  OBVIOUS
<1>2. f = [i \in DOMAIN s |-> f[i]]
  BY <1>1
<1>3. Listed(f) /\ DOMAIN f = DOMAIN s
  BY <1>2, MappedListed
<1>4. ASSUME NEW i \in DOMAIN s
      PROVE  Listed(f[i]) /\ ToSet(f[i]) = {<<s[i], t[j]>> : j \in DOMAIN t}
  <2>1. PICK r : r = f[i]
    OBVIOUS
  <2>2. r = [j \in DOMAIN t |-> <<s[i], t[j]>>]
    BY <1>1, <2>1
  <2>3. r = [j \in DOMAIN t |-> r[j]] /\ \A j \in DOMAIN t : r[j] = <<s[i], t[j]>>
    BY <2>2
  <2>4. Listed(r) /\ ToSet(r) = {r[j] : j \in DOMAIN t}
    BY <2>3, MappedListed
  <2> QED
    BY <2>1, <2>3, <2>4
<1>5. Pairs(s, t) = Joined(f)
  BY <1>1 DEF Pairs
<1>6. Listed(Joined(f)) /\ ToSet(Joined(f)) = Held(f)
  BY <1>3, <1>4, JoinedHolds
<1>7. Held(f) = ToSet(s) \X ToSet(t)
  <2>1. \A x : x \in Held(f) <=> \E i \in DOMAIN s : x \in ToSet(f[i])
    BY <1>3 DEF Held
  <2>2. \A x : x \in Held(f) <=> \E i \in DOMAIN s : \E j \in DOMAIN t : x = <<s[i], t[j]>>
    BY <1>4, <2>1
  <2> QED
    BY <2>2 DEF ToSet
<1> QED
  BY <1>5, <1>6, <1>7

\* Three nested turns reach every triple.
LEMMA TriplesHold ==
    ASSUME NEW s, NEW t, NEW u, Listed(s), Listed(t), Listed(u)
    PROVE  /\ Listed(Triples(s, t, u))
           /\ \A x : x \in ToSet(Triples(s, t, u)) <=>
                \E a \in ToSet(s), b \in ToSet(t), c \in ToSet(u) : x = <<a, b, c>>
<1>1. PICK turns : turns = Pairs(s, Pairs(t, u))
  OBVIOUS
<1>2. Listed(turns) /\ ToSet(turns) = ToSet(s) \X (ToSet(t) \X ToSet(u))
  BY <1>1, PairsHold
<1>3. PICK f : f = [k \in DOMAIN turns |-> <<turns[k][1], turns[k][2][1], turns[k][2][2]>>]
  OBVIOUS
<1>4. f = [k \in DOMAIN turns |-> f[k]]
  BY <1>3
<1>5. Listed(f) /\ ToSet(f) = {f[k] : k \in DOMAIN turns}
  BY <1>2, <1>4, MappedListed
<1>6. Triples(s, t, u) = f
  BY <1>1, <1>3, <1>5, ComputedSame DEF Triples
<1>7. ASSUME NEW k \in DOMAIN turns
      PROVE  \E a \in ToSet(s), b \in ToSet(t), c \in ToSet(u) :
                turns[k] = <<a, <<b, c>>>> /\ f[k] = <<a, b, c>>
  <2>1. turns[k] \in ToSet(s) \X (ToSet(t) \X ToSet(u))
    BY <1>2 DEF ToSet
  <2>2. PICK a \in ToSet(s), b \in ToSet(t), c \in ToSet(u) : turns[k] = <<a, <<b, c>>>>
    BY <2>1
  <2>3. f[k] = <<a, b, c>>
    BY <1>3, <2>2
  <2> QED
    BY <2>2, <2>3
<1>8. ASSUME NEW a \in ToSet(s), NEW b \in ToSet(t), NEW c \in ToSet(u)
      PROVE  \E k \in DOMAIN turns : f[k] = <<a, b, c>>
  <2>1. <<a, <<b, c>>>> \in ToSet(turns)
    BY <1>2
  <2>2. PICK k \in DOMAIN turns : turns[k] = <<a, <<b, c>>>>
    BY <2>1 DEF ToSet
  <2>3. f[k] = <<a, b, c>>
    BY <1>3, <2>2
  <2> QED
    BY <2>3
<1>9. ASSUME NEW x
      PROVE  x \in ToSet(Triples(s, t, u)) <=>
               \E a \in ToSet(s), b \in ToSet(t), c \in ToSet(u) : x = <<a, b, c>>
  <2>1. x \in ToSet(f) <=> \E k \in DOMAIN turns : x = f[k]
    BY <1>5
  <2>2. ASSUME x \in ToSet(f)
        PROVE  \E a \in ToSet(s), b \in ToSet(t), c \in ToSet(u) : x = <<a, b, c>>
    <3>1. PICK k \in DOMAIN turns : x = f[k]
      BY <2>1, <2>2
    <3>2. PICK a \in ToSet(s), b \in ToSet(t), c \in ToSet(u) : f[k] = <<a, b, c>>
      BY <1>7
    <3> QED
      BY <3>1, <3>2
  <2>3. ASSUME NEW a \in ToSet(s), NEW b \in ToSet(t), NEW c \in ToSet(u), x = <<a, b, c>>
        PROVE  x \in ToSet(f)
    BY <1>8, <2>1, <2>3
  <2> QED
    BY <1>6, <2>2, <2>3
<1> QED
  BY <1>5, <1>6, <1>9

\* An item takes its place, and no other loses its own.
LEMMA PlacedHolds ==
    ASSUME NEW list, Listed(list), NEW x
    PROVE  Listed(Placed(list, x)) /\ ToSet(Placed(list, x)) = ToSet(list) \cup {x}
<1> DEFINE later == {y \in ToSet(list) : Before(x[1], y[1])}
           front == Only(list, ToSet(list) \ later)
           back  == Only(list, later)
<1>1. later \subseteq ToSet(list)
  OBVIOUS
<1>2. Placed(list, x) = front \o <<x>> \o back
  BY DEF Placed
<1> HIDE DEF later
<1>3. /\ Listed(front) /\ ToSet(front) = ToSet(list) \ later
      /\ Listed(back) /\ ToSet(back) = later
  BY <1>1, OnlyHolds
<1> HIDE DEF front, back
<1>4. Listed(front \o <<x>>) /\ ToSet(front \o <<x>>) = ToSet(front) \cup {x}
  BY <1>3, OneListed, ConcatHolds
<1>5. /\ Listed((front \o <<x>>) \o back)
      /\ ToSet((front \o <<x>>) \o back) = ToSet(front \o <<x>>) \cup ToSet(back)
  BY <1>3, <1>4, ConcatHolds
<1> QED
  BY <1>1, <1>2, <1>3, <1>4, <1>5

\* Whatever the keys, sorting loses no item and makes none.
LEMMA SortedHolds ==
    ASSUME NEW keyed, Listed(keyed)
    PROVE  Listed(Sorted(keyed)) /\ ToSet(Sorted(keyed)) = {p[2] : p \in ToSet(keyed)}
<1> DEFINE S == Seq(ToSet(keyed))
<1>1. PICK n \in Nat : n = Len(keyed) /\ DOMAIN keyed = 1..n
  BY ListedDomain
<1>2. PICK g \in [0..n -> S] : g = [k \in 0..n |-> IF k = 0 THEN <<>> ELSE Placed(g[k - 1], keyed[k])]
  <2> DEFINE step == [k \in 1..n |-> [l \in S |-> Placed(l, keyed[k])]]
  <2>1. ASSUME NEW k \in 1..n, NEW l \in S PROVE Placed(l, keyed[k]) \in S
    <3>1. keyed[k] \in ToSet(keyed) /\ Listed(l) /\ ToSet(l) \subseteq ToSet(keyed)
      <4> DEFINE T == ToSet(keyed)
      <4>1. keyed[k] \in T
        BY <1>1 DEF ToSet
      <4>2. Listed(l)
        BY ListedSeq
      <4>3. l \in Seq(T)
        OBVIOUS
      <4> HIDE DEF T
      <4>4. ToSet(l) \subseteq T
        BY <4>3 DEF ToSet
      <4> QED
        BY <4>1, <4>2, <4>4 DEF T
    <3>2. Listed(Placed(l, keyed[k])) /\ ToSet(Placed(l, keyed[k])) \subseteq ToSet(keyed)
      BY <3>1, PlacedHolds
    <3> QED
      BY <3>2, ItemsListed, SeqMonotonic
  <2>2. step \in [1..n -> [S -> S]]
    BY <2>1
  <2>3. \A k \in 1..n, l \in S : step[k][l] = Placed(l, keyed[k])
    OBVIOUS
  <2>4. <<>> \in S
    OBVIOUS
  <2> HIDE DEF step, S
  <2>5. PICK g \in [0..n -> S] : Results(g, n, <<>>, step)
    BY <2>2, <2>4, Recursion
  <2>6. ASSUME NEW k \in 0..n PROVE g[k] = IF k = 0 THEN <<>> ELSE Placed(g[k - 1], keyed[k])
    <3>1. g[k] = IF k = 0 THEN <<>> ELSE step[k][g[k - 1]]
      BY <2>5, Zenon DEF Results
    <3>2. k # 0 => k \in 1..n /\ g[k - 1] \in S
      BY <2>5
    <3> QED
      BY <2>3, <3>1, <3>2
  <2>7. g = [k \in 0..n |-> g[k]]
    BY <2>5
  <2> QED
    BY <2>6, <2>7
<1> DEFINE upTo[k \in 0..Len(keyed)] == IF k = 0 THEN <<>> ELSE Placed(upTo[k - 1], keyed[k])
           list == upTo[Len(keyed)]
<1>3. upTo = [k \in 0..n |-> IF k = 0 THEN <<>> ELSE Placed(upTo[k - 1], keyed[k])]
  BY <1>1, <1>2
<1>4. Sorted(keyed) = Computed([i \in DOMAIN list |-> list[i][2]])
  BY DEF Sorted
<1> HIDE DEF upTo
<1>5. ASSUME NEW k \in 0..n
      PROVE  Listed(upTo[k]) /\ ToSet(upTo[k]) = {keyed[j] : j \in 1..k}
  <2> DEFINE Good == {m \in Nat : m <= n =>
                        Listed(upTo[m]) /\ ToSet(upTo[m]) = {keyed[j] : j \in 1..m}}
  <2>1. 0 \in Good
    <3>1. upTo[0] = <<>>
      BY <1>3
    <3>2. {keyed[j] : j \in 1..0} = {}
      OBVIOUS
    <3> QED
      BY <3>1, <3>2, EmptyHolds
  <2>2. ASSUME NEW m \in Good PROVE m + 1 \in Good
    <3> SUFFICES ASSUME m + 1 <= n PROVE m + 1 \in Good
      OBVIOUS
    <3>1. upTo[m + 1] = Placed(upTo[m], keyed[m + 1])
      BY <1>3
    <3>2. Listed(upTo[m]) /\ ToSet(upTo[m]) = {keyed[j] : j \in 1..m}
      OBVIOUS
    <3>3. /\ Listed(upTo[m + 1])
          /\ ToSet(upTo[m + 1]) = {keyed[j] : j \in 1..m} \cup {keyed[m + 1]}
      <4>1. PICK l : l = upTo[m]
        OBVIOUS
      <4> QED
        BY <3>1, <3>2, <4>1, PlacedHolds
    <3>4. 1..(m + 1) = 1..m \cup {m + 1}
      <4>1. m \in Nat
        OBVIOUS
      <4> HIDE DEF Good
      <4> QED
        BY <4>1
    <3>5. {keyed[j] : j \in 1..(m + 1)} = {keyed[j] : j \in 1..m} \cup {keyed[m + 1]}
      BY <3>4
    <3>6. Listed(upTo[m + 1]) /\ ToSet(upTo[m + 1]) = {keyed[j] : j \in 1..(m + 1)}
      BY <3>3, <3>5
    <3> QED
      BY <3>6
  <2> HIDE DEF Good
  <2>3. Good = Nat
    <3>1. Good \in SUBSET Nat
      BY DEF Good
    <3> QED
      BY <2>1, <2>2, <3>1, SetInduction
  <2>4. k \in Good /\ k <= n
    BY <2>3
  <2> QED
    BY <2>4 DEF Good
<1>6. Listed(list) /\ ToSet(list) = ToSet(keyed)
  <2>1. n \in 0..n /\ Len(keyed) = n
    BY <1>1
  <2>2. Listed(list) /\ ToSet(list) = {keyed[j] : j \in 1..n}
    BY <1>5, <2>1
  <2> QED
    BY <1>1, <2>2 DEF ToSet
<1> HIDE DEF list
<1>7. PICK f : f = [i \in DOMAIN list |-> list[i][2]]
  OBVIOUS
<1>8. f = [i \in DOMAIN list |-> f[i]] /\ \A i \in DOMAIN list : f[i] = list[i][2]
  BY <1>7
<1>9. Listed(f) /\ ToSet(f) = {f[i] : i \in DOMAIN list}
  BY <1>6, <1>8, MappedListed
<1>10. Sorted(keyed) = f
  BY <1>4, <1>7, <1>9, ComputedSame
<1>11. {f[i] : i \in DOMAIN list} = {p[2] : p \in ToSet(list)}
  BY <1>8 DEF ToSet
<1> QED
  BY <1>6, <1>9, <1>10, <1>11

\* The first of equal items stays.
LEMMA DedupedHolds ==
    ASSUME NEW s, Listed(s)
    PROVE  Listed(Deduped(s)) /\ ToSet(Deduped(s)) = ToSet(s)
<1> DEFINE first == {i \in DOMAIN s : \A j \in 1..(i - 1) : s[j] # s[i]}
<1>1. PICK n \in Nat : n = Len(s) /\ DOMAIN s = 1..n
  BY ListedDomain
<1>2. PICK positions : positions = [i \in DOMAIN s |-> i]
  OBVIOUS
<1>3. Listed(positions) /\ ToSet(positions) = DOMAIN s
  <2>1. positions = [i \in DOMAIN s |-> positions[i]] /\ \A i \in DOMAIN s : positions[i] = i
    BY <1>2
  <2> QED
    BY <2>1, MappedListed
<1>4. PICK kept : kept = Only(positions, first)
  OBVIOUS
<1>5. Listed(kept) /\ ToSet(kept) = first
  BY <1>3, <1>4, OnlyHolds
<1>6. PICK f : f = [k \in DOMAIN kept |-> s[kept[k]]]
  OBVIOUS
<1>7. f = [k \in DOMAIN kept |-> f[k]] /\ \A k \in DOMAIN kept : f[k] = s[kept[k]]
  BY <1>6
<1>8. Listed(f) /\ ToSet(f) = {f[k] : k \in DOMAIN kept}
  BY <1>5, <1>7, MappedListed
<1>9. Deduped(s) = f
  BY <1>2, <1>4, <1>6, <1>8, ComputedSame DEF Deduped
<1>10. \A x : x \in ToSet(f) <=> \E i \in first : x = s[i]
  BY <1>5, <1>7, <1>8 DEF ToSet
<1>11. ASSUME NEW k \in DOMAIN s
       PROVE  \E i \in first : s[k] = s[i]
  <2> DEFINE same == {j \in 1..n : s[j] = s[k]}
  <2>1. same \in SUBSET Nat /\ same # {}
    BY <1>1
  <2>2. PICK i \in same : \A j \in same : i <= j
    BY <2>1, Least
  <2>3. i \in first
    BY <1>1, <2>2
  <2> QED
    BY <2>2, <2>3
<1>12. \A x : x \in ToSet(s) <=> \E i \in DOMAIN s : x = s[i]
  BY DEF ToSet
<1>13. \A x : x \in ToSet(f) <=> x \in ToSet(s)
  BY <1>10, <1>11, <1>12
<1> QED
  BY <1>8, <1>9, <1>13

\* Items that are likely are not left out.
LEMMA PreferHolds ==
    ASSUME NEW s, Listed(s), NEW likely
    PROVE  /\ Listed(Prefer(s, likely))
           /\ ToSet(s) \cap likely \subseteq ToSet(Prefer(s, likely))
           /\ ToSet(Prefer(s, likely)) \subseteq ToSet(s)
<1>1. PICK only : only = Only(s, likely)
  OBVIOUS
<1>2. Listed(only) /\ ToSet(only) = ToSet(s) \cap likely
  BY <1>1, OnlyHolds
<1>3. CASE only = <<>>
  BY <1>1, <1>2, <1>3, EmptyHolds DEF Prefer
<1>4. CASE only # <<>>
  BY <1>1, <1>2, <1>4 DEF Prefer
<1> QED
  BY <1>3, <1>4

-----------------------------------------------------------------------------
(* What is listed at a depth.                                                *)

\* The variables, the constants and the calls of macros are listed, and none of
\* them is an operation or a conditional.
LEMMA VarsListed ==
    ASSUME NEW type, NEW types, Listed(types)
    PROVE  /\ Listed(VarsOf(type, types))
           /\ \A e \in ToSet(VarsOf(type, types)) : ~IsIf(e) /\ ~IsBinOp(e)
<1>1. PICK positions : positions = [i \in DOMAIN types |-> i]
  OBVIOUS
<1>2. positions = [i \in DOMAIN types |-> positions[i]]
  BY <1>1
<1>3. Listed(positions)
  BY <1>2, MappedListed
<1>4. PICK indices : indices = Only(positions, {i \in DOMAIN types : types[i] = type})
  OBVIOUS
<1>5. Listed(indices)
  BY <1>3, <1>4, OnlyHolds
<1>6. PICK f : f = [k \in DOMAIN indices |-> Var(indices[k])]
  OBVIOUS
<1>7. f = [k \in DOMAIN indices |-> f[k]] /\ \A k \in DOMAIN indices : f[k] = Var(indices[k])
  BY <1>6
<1>8. Listed(f) /\ ToSet(f) = {f[k] : k \in DOMAIN indices}
  BY <1>5, <1>7, MappedListed
<1>9. VarsOf(type, types) = f
  BY <1>1, <1>4, <1>6 DEF VarsOf
<1> QED
  BY <1>7, <1>8, <1>9 DEF Var, IsIf, IsBinOp

\* The constants of a type are listed.
LEMMA ConstantsListed ==
    ASSUME NEW type
    PROVE  /\ Listed(Constants(type))
           /\ \A e \in ToSet(Constants(type)) : ~IsIf(e) /\ ~IsBinOp(e)
<1>1. CASE type = "Int"
  <2>1. Listed(IntConstOrder)
    BY LanguageAssumption, ListedSeq
  <2>2. PICK f : f = [i \in DOMAIN IntConstOrder |-> IntConst(IntConstOrder[i])]
    OBVIOUS
  <2>3. /\ f = [i \in DOMAIN IntConstOrder |-> f[i]]
        /\ \A i \in DOMAIN IntConstOrder : f[i] = IntConst(IntConstOrder[i])
    BY <2>2
  <2>4. Listed(f) /\ ToSet(f) = {f[i] : i \in DOMAIN IntConstOrder}
    BY <2>1, <2>3, MappedListed
  <2>5. Constants(type) = f
    BY <1>1, <2>2 DEF Constants
  <2> QED
    BY <2>3, <2>4, <2>5 DEF IntConst, IsIf, IsBinOp
<1>2. CASE type # "Int"
  <2>1. Constants(type) = <<BoolConst(1), BoolConst(0)>>
    BY <1>2 DEF Constants
  <2> DEFINE f == <<BoolConst(1), BoolConst(0)>>
  <2>2. f \in Seq({BoolConst(1), BoolConst(0)})
    OBVIOUS
  <2>3. \A e \in ToSet(f) : e \in {BoolConst(1), BoolConst(0)}
    BY <2>2 DEF ToSet
  <2>4. Listed(f)
    BY <2>2, ListedSeq
  <2> QED
    BY <2>1, <2>3, <2>4 DEF BoolConst, IsIf, IsBinOp
<1> QED
  BY <1>1, <1>2

\* The calls of macros of a type are listed.
LEMMA MacrosListed ==
    ASSUME NEW type, NEW types, NEW macros, Listed(macros)
    PROVE  /\ Listed(MacroExprs(type, types, macros))
           /\ \A e \in ToSet(MacroExprs(type, types, macros)) : ~IsIf(e) /\ ~IsBinOp(e)
<1>1. PICK fitting : fitting = Only(macros, {m \in ToSet(macros) : Applicable(m, type, types)})
  OBVIOUS
<1>2. Listed(fitting)
  BY <1>1, OnlyHolds
<1> DEFINE Args(k) == [i \in DOMAIN fitting[k].params |-> Var(fitting[k].params[i])]
<1>3. PICK f : f = [k \in DOMAIN fitting |-> MacroCall(fitting[k].name, Args(k))]
  OBVIOUS
<1>4. MacroExprs(type, types, macros) = f
  BY <1>1, <1>3 DEF MacroExprs
<1> HIDE DEF Args
<1>5. /\ f = [k \in DOMAIN fitting |-> f[k]]
      /\ \A k \in DOMAIN fitting : f[k] = MacroCall(fitting[k].name, Args(k))
  BY <1>3
<1>6. Listed(f) /\ ToSet(f) = {f[k] : k \in DOMAIN fitting}
  BY <1>2, <1>5, MappedListed
<1> QED
  BY <1>4, <1>5, <1>6 DEF MacroCall, IsIf, IsBinOp

\* The expressions of depth 0 are listed.
LEMMA BaseListed ==
    ASSUME NEW type, NEW types, NEW macros, Listed(types), Listed(macros)
    PROVE  /\ Listed(BaseExprs(type, types, macros))
           /\ \A e \in ToSet(BaseExprs(type, types, macros)) : ~IsIf(e) /\ ~IsBinOp(e)
<1>1. PICK m : m = MacroExprs(type, types, macros)
  OBVIOUS
<1>2. PICK c : c = Constants(type)
  OBVIOUS
<1>3. PICK v : v = VarsOf(type, types)
  OBVIOUS
<1>4. Listed(m) /\ Listed(c) /\ Listed(v)
  BY <1>1, <1>2, <1>3, VarsListed, ConstantsListed, MacrosListed
<1>5. Listed(m \o c) /\ ToSet(m \o c) = ToSet(m) \cup ToSet(c)
  BY <1>4, ConcatHolds
<1>6. Listed((m \o c) \o v) /\ ToSet((m \o c) \o v) = ToSet(m \o c) \cup ToSet(v)
  BY <1>4, <1>5, ConcatHolds
<1>7. BaseExprs(type, types, macros) = m \o c \o v
  BY <1>1, <1>2, <1>3 DEF BaseExprs
<1>8. \A e \in ToSet(m) \cup ToSet(c) \cup ToSet(v) : ~IsIf(e) /\ ~IsBinOp(e)
  BY <1>1, <1>2, <1>3, VarsListed, ConstantsListed, MacrosListed
<1> QED
  BY <1>5, <1>6, <1>7, <1>8

\* The depths below a depth.
LEMMA DepthsHold ==
    ASSUME NEW depth \in Nat
    PROVE  Listed(Depths(depth)) /\ ToSet(Depths(depth)) = 0..(depth - 1)
<1>1. PICK f : f = [i \in 1..depth |-> i - 1]
  OBVIOUS
<1>2. f = [i \in 1..depth |-> f[i]] /\ \A i \in 1..depth : f[i] = i - 1
  BY <1>1
<1>3. Listed(f) /\ DOMAIN f = 1..depth
  BY <1>2, FunctionListed
<1>4. ToSet(f) = {i - 1 : i \in 1..depth}
  BY <1>2, <1>3 DEF ToSet
<1>5. {i - 1 : i \in 1..depth} = 0..(depth - 1)
  <2>1. ASSUME NEW d \in 0..(depth - 1)
        PROVE  d + 1 \in 1..depth /\ d = (d + 1) - 1
    OBVIOUS
  <2>2. ASSUME NEW i \in 1..depth
        PROVE  i - 1 \in 0..(depth - 1)
    OBVIOUS
  <2> QED
    BY <2>1, <2>2
<1> QED
  BY <1>1, <1>3, <1>4, <1>5 DEF Depths

\* Of the depths of the parts, those stay of which one is the depth below.
LEMMA SplitsHold ==
    ASSUME NEW turns, NEW depth, Listed(turns)
    PROVE  /\ Listed(Splits(turns, depth))
           /\ ToSet(Splits(turns, depth)) = {d \in ToSet(turns) : \E i \in DOMAIN d : d[i] = depth - 1}
<1> DEFINE Shallow(d) == [i \in DOMAIN d |-> Truth(d[i] # depth - 1)]
           Key(d) == <<FoldLeft(LAMBDA a, b : a + b, 0, d)>> \o Shallow(d) \o d
           full == Only(turns, {d \in ToSet(turns) : \E i \in DOMAIN d : d[i] = depth - 1})
<1>1. Splits(turns, depth) = Sorted([k \in DOMAIN full |-> <<Key(full[k]), full[k]>>])
  BY DEF Splits
<1> HIDE DEF Key, Shallow
<1>2. Listed(full) /\ ToSet(full) = {d \in ToSet(turns) : \E i \in DOMAIN d : d[i] = depth - 1}
  BY OnlyHolds
<1> HIDE DEF full
<1>3. PICK f : f = [k \in DOMAIN full |-> <<Key(full[k]), full[k]>>]
  OBVIOUS
<1>4. f = [k \in DOMAIN full |-> f[k]] /\ \A k \in DOMAIN full : f[k][2] = full[k]
  BY <1>3
<1>5. Listed(f) /\ ToSet(f) = {f[k] : k \in DOMAIN full}
  BY <1>2, <1>4, MappedListed
<1>6. Listed(Sorted(f)) /\ ToSet(Sorted(f)) = {p[2] : p \in ToSet(f)}
  BY <1>5, SortedHolds
<1>7. {p[2] : p \in ToSet(f)} = ToSet(full)
  BY <1>4, <1>5 DEF ToSet
<1> QED
  BY <1>1, <1>2, <1>3, <1>6, <1>7

\* The depths of two operands: all pairs with one of the depth below.
LEMMA DepthPairsHold ==
    ASSUME NEW depth \in Nat
    PROVE  /\ Listed(DepthPairs(depth))
           /\ \A d \in ToSet(DepthPairs(depth)) : d[1] \in 0..(depth - 1) /\ d[2] \in 0..(depth - 1)
           /\ \A a, b \in 0..(depth - 1) :
                depth - 1 \in {a, b} => <<a, b>> \in ToSet(DepthPairs(depth))
<1> DEFINE D == 0..(depth - 1)
<1>1. PICK turns : turns = Pairs(Depths(depth), Depths(depth))
  OBVIOUS
<1>2. Listed(turns) /\ ToSet(turns) = D \X D
  BY <1>1, DepthsHold, PairsHold
<1>3. /\ Listed(DepthPairs(depth))
      /\ ToSet(DepthPairs(depth)) = {d \in ToSet(turns) : \E i \in DOMAIN d : d[i] = depth - 1}
  BY <1>1, <1>2, SplitsHold DEF DepthPairs
<1>4. ASSUME NEW a \in D, NEW b \in D, depth - 1 \in {a, b}
      PROVE  <<a, b>> \in ToSet(DepthPairs(depth))
  <2>1. DOMAIN <<a, b>> = 1..2 /\ <<a, b>>[1] = a /\ <<a, b>>[2] = b
    OBVIOUS
  <2>2. \E i \in DOMAIN <<a, b>> : <<a, b>>[i] = depth - 1
    BY <1>4, <2>1
  <2>3. <<a, b>> \in ToSet(turns)
    BY <1>2
  <2> QED
    BY <1>3, <2>2, <2>3
<1>5. ASSUME NEW d \in ToSet(DepthPairs(depth))
      PROVE  d[1] \in D /\ d[2] \in D
  <2>1. d \in D \X D
    BY <1>2, <1>3
  <2> QED
    BY <2>1
<1> QED
  BY <1>3, <1>4, <1>5

\* The depths of the parts of a conditional: all triples with one of the depth below.
LEMMA DepthTriplesHold ==
    ASSUME NEW depth \in Nat
    PROVE  /\ Listed(DepthTriples(depth))
           /\ \A d \in ToSet(DepthTriples(depth)) :
                d[1] \in 0..(depth - 1) /\ d[2] \in 0..(depth - 1) /\ d[3] \in 0..(depth - 1)
           /\ \A a, b, c \in 0..(depth - 1) :
                depth - 1 \in {a, b, c} => <<a, b, c>> \in ToSet(DepthTriples(depth))
<1> DEFINE D == 0..(depth - 1)
<1>1. PICK turns : turns = Triples(Depths(depth), Depths(depth), Depths(depth))
  OBVIOUS
<1>2. PICK list : list = Depths(depth)
  OBVIOUS
<1>3. Listed(list) /\ ToSet(list) = D
  BY <1>2, DepthsHold
<1>4. Listed(turns) /\ \A x : x \in ToSet(turns) <=> \E a \in D, b \in D, c \in D : x = <<a, b, c>>
  BY <1>1, <1>2, <1>3, TriplesHold
<1>5. /\ Listed(DepthTriples(depth))
      /\ ToSet(DepthTriples(depth)) = {d \in ToSet(turns) : \E i \in DOMAIN d : d[i] = depth - 1}
  BY <1>1, <1>4, SplitsHold DEF DepthTriples
<1>6. ASSUME NEW a \in D, NEW b \in D, NEW c \in D, depth - 1 \in {a, b, c}
      PROVE  <<a, b, c>> \in ToSet(DepthTriples(depth))
  <2>1. DOMAIN <<a, b, c>> = 1..3 /\ <<a, b, c>>[1] = a /\ <<a, b, c>>[2] = b /\ <<a, b, c>>[3] = c
    OBVIOUS
  <2>2. \E i \in DOMAIN <<a, b, c>> : <<a, b, c>>[i] = depth - 1
    BY <1>6, <2>1
  <2>3. <<a, b, c>> \in ToSet(turns)
    BY <1>4
  <2> QED
    BY <1>5, <2>2, <2>3
<1>7. ASSUME NEW d \in ToSet(DepthTriples(depth))
      PROVE  d[1] \in D /\ d[2] \in D /\ d[3] \in D
  <2>1. PICK a \in D, b \in D, c \in D : d = <<a, b, c>>
    BY <1>4, <1>5
  <2> QED
    BY <2>1
<1> QED
  BY <1>5, <1>6, <1>7

\* Sorting by a key of the code loses nothing.
LEMMA ByKeyHolds ==
    ASSUME NEW s, Listed(s)
    PROVE  Listed(ByKey(s)) /\ ToSet(ByKey(s)) = ToSet(s)
<1>1. PICK f : f = [i \in DOMAIN s |-> <<KeyOf(s[i]), s[i]>>]
  OBVIOUS
<1>2. f = [i \in DOMAIN s |-> f[i]] /\ \A i \in DOMAIN s : f[i][2] = s[i]
  BY <1>1
<1>3. Listed(f) /\ ToSet(f) = {f[i] : i \in DOMAIN s}
  BY <1>2, MappedListed
<1>4. Listed(Sorted(f)) /\ ToSet(Sorted(f)) = {p[2] : p \in ToSet(f)}
  BY <1>3, SortedHolds
<1>5. {p[2] : p \in ToSet(f)} = ToSet(s)
  BY <1>2, <1>3 DEF ToSet
<1> QED
  BY <1>1, <1>4, <1>5 DEF ByKey

\* Neither does sorting the conditions.
LEMMA ByPatternHolds ==
    ASSUME NEW s, Listed(s)
    PROVE  Listed(ByPattern(s)) /\ ToSet(ByPattern(s)) = ToSet(s)
<1>1. PICK f : f = [i \in DOMAIN s |-> <<CondKey(s[i]), s[i]>>]
  OBVIOUS
<1>2. f = [i \in DOMAIN s |-> f[i]] /\ \A i \in DOMAIN s : f[i][2] = s[i]
  BY <1>1
<1>3. Listed(f) /\ ToSet(f) = {f[i] : i \in DOMAIN s}
  BY <1>2, MappedListed
<1>4. Listed(Sorted(f)) /\ ToSet(Sorted(f)) = {p[2] : p \in ToSet(f)}
  BY <1>3, SortedHolds
<1>5. {p[2] : p \in ToSet(f)} = ToSet(s)
  BY <1>2, <1>3 DEF ToSet
<1> QED
  BY <1>1, <1>4, <1>5 DEF ByPattern

\* The items of a list of a depth: the base has neither operations nor
\* conditionals, and any other depth has nothing else.
Uniform(exprs) ==
    \/ \A e \in exprs : ~IsIf(e) /\ ~IsBinOp(e)
    \/ \A e \in exprs : IsIf(e) \/ IsBinOp(e)

\* The conditions of a depth are all that are not conditionals, at least.
LEMMA ConditionsHold ==
    ASSUME NEW earlier, NEW depth, Listed(OfDepth(earlier, "Bool", depth)),
           Uniform(ToSet(OfDepth(earlier, "Bool", depth)))
    PROVE  /\ Listed(Conditions(earlier, depth))
           /\ Plain(ToSet(OfDepth(earlier, "Bool", depth))) \subseteq ToSet(Conditions(earlier, depth))
<1>1. PICK all : all = ToSet(OfDepth(earlier, "Bool", depth))
  OBVIOUS
<1>2. PICK list : list = ByPattern(OfDepth(earlier, "Bool", depth))
  OBVIOUS
<1>3. Listed(list) /\ ToSet(list) = all
  BY <1>1, <1>2, ByPatternHolds
<1> DEFINE likely == {e \in ToSet(list) : IsBinOp(e)}
<1>4. Conditions(earlier, depth) = Prefer(list, likely)
  BY <1>2 DEF Conditions
<1>5. PICK only : only = Only(list, likely)
  OBVIOUS
<1>6. Listed(only) /\ ToSet(only) = all \cap likely
  BY <1>3, <1>5, OnlyHolds
<1>7. Prefer(list, likely) = IF only = <<>> THEN list ELSE only
  BY <1>5 DEF Prefer
<1>8. CASE only = <<>>
  BY <1>1, <1>3, <1>4, <1>7, <1>8 DEF Plain
<1>9. CASE only # <<>>
  <2>1. \E e : e \in ToSet(only)
    <3>1. only # <<>> => DOMAIN only # {}
      <4>1. only \in Seq(ToSet(only))
        BY <1>6, ItemsListed
      <4> QED
        BY <4>1
    <3> QED
      BY <1>9, <3>1 DEF ToSet
  <2>2. \A e \in all : IsIf(e) \/ IsBinOp(e)
    BY <1>1, <1>6, <2>1 DEF Uniform
  <2>3. Plain(all) \subseteq ToSet(only)
    BY <1>3, <1>6, <2>2 DEF Plain
  <2> QED
    BY <1>1, <1>4, <1>6, <1>7, <1>9, <2>3
<1> QED
  BY <1>8, <1>9

\* The branches of a depth are all that are not conditionals, at least.
LEMMA BranchesHold ==
    ASSUME NEW earlier, NEW type, NEW depth, Listed(OfDepth(earlier, type, depth))
    PROVE  /\ Listed(Branches(earlier, type, depth))
           /\ Plain(ToSet(OfDepth(earlier, type, depth))) \subseteq ToSet(Branches(earlier, type, depth))
<1>1. PICK list : list = ByKey(OfDepth(earlier, type, depth))
  OBVIOUS
<1>2. Listed(list) /\ ToSet(list) = ToSet(OfDepth(earlier, type, depth))
  BY <1>1, ByKeyHolds
<1> DEFINE likely == {e \in ToSet(list) : ~IsIf(e)}
<1>3. Branches(earlier, type, depth) = Prefer(list, likely)
  BY <1>1 DEF Branches
<1>4. Plain(ToSet(list)) = ToSet(list) \cap likely
  BY DEF Plain
<1> HIDE DEF likely
<1> QED
  BY <1>2, <1>3, <1>4, PreferHolds

\* The operations of an operator on all pairs of operands.
LEMMA OperationsHold ==
    ASSUME NEW op, NEW lefts, NEW rights, Listed(lefts), Listed(rights)
    PROVE  /\ Listed(Operations(op, lefts, rights))
           /\ \A e \in ToSet(Operations(op, lefts, rights)) : IsBinOp(e)
           /\ \A l \in ToSet(lefts), r \in ToSet(rights) :
                BinOp(op, l, r) \in ToSet(Operations(op, lefts, rights))
<1>1. PICK turns : turns = Pairs(lefts, rights)
  OBVIOUS
<1>2. Listed(turns) /\ ToSet(turns) = ToSet(lefts) \X ToSet(rights)
  BY <1>1, PairsHold
<1>3. PICK f : f = [k \in DOMAIN turns |-> BinOp(op, turns[k][1], turns[k][2])]
  OBVIOUS
<1>4. f = [k \in DOMAIN turns |-> f[k]] /\ \A k \in DOMAIN turns : f[k] = BinOp(op, turns[k][1], turns[k][2])
  BY <1>3
<1>5. Listed(f) /\ ToSet(f) = {f[k] : k \in DOMAIN turns}
  BY <1>2, <1>4, MappedListed
<1>6. Operations(op, lefts, rights) = f
  BY <1>1, <1>3 DEF Operations
<1>7. \A e \in ToSet(f) : IsBinOp(e)
  BY <1>4, <1>5 DEF BinOp, IsBinOp
<1>8. ASSUME NEW l \in ToSet(lefts), NEW r \in ToSet(rights)
      PROVE  BinOp(op, l, r) \in ToSet(f)
  <2>1. <<l, r>> \in ToSet(turns)
    BY <1>2
  <2>2. PICK k \in DOMAIN turns : turns[k] = <<l, r>>
    BY <2>1 DEF ToSet
  <2>3. f[k] = BinOp(op, l, r)
    BY <1>4, <2>2
  <2> QED
    BY <1>5, <2>3
<1> QED
  BY <1>5, <1>6, <1>7, <1>8

\* The conditionals of all conditions and branches.
LEMMA ConditionalsHold ==
    ASSUME NEW conds, NEW yeses, NEW noes, Listed(conds), Listed(yeses), Listed(noes)
    PROVE  /\ Listed(Conditionals(conds, yeses, noes))
           /\ \A e \in ToSet(Conditionals(conds, yeses, noes)) : IsIf(e)
           /\ \A c \in ToSet(conds), y \in ToSet(yeses), n \in ToSet(noes) :
                IfThenElse(c, y, n) \in ToSet(Conditionals(conds, yeses, noes))
<1>1. PICK turns : turns = Triples(conds, yeses, noes)
  OBVIOUS
<1>2. /\ Listed(turns)
      /\ \A c \in ToSet(conds), y \in ToSet(yeses), n \in ToSet(noes) : <<c, y, n>> \in ToSet(turns)
  BY <1>1, TriplesHold
<1>3. PICK f : f = [k \in DOMAIN turns |-> IfThenElse(turns[k][1], turns[k][2], turns[k][3])]
  OBVIOUS
<1>4. /\ f = [k \in DOMAIN turns |-> f[k]]
      /\ \A k \in DOMAIN turns : f[k] = IfThenElse(turns[k][1], turns[k][2], turns[k][3])
  BY <1>3
<1>5. Listed(f) /\ ToSet(f) = {f[k] : k \in DOMAIN turns}
  BY <1>2, <1>4, MappedListed
<1>6. Conditionals(conds, yeses, noes) = f
  BY <1>1, <1>3, <1>5, ComputedSame DEF Conditionals
<1>7. \A e \in ToSet(f) : IsIf(e)
  BY <1>4, <1>5 DEF IfThenElse, IsIf
<1>8. ASSUME NEW c \in ToSet(conds), NEW y \in ToSet(yeses), NEW n \in ToSet(noes)
      PROVE  IfThenElse(c, y, n) \in ToSet(f)
  <2>1. <<c, y, n>> \in ToSet(turns)
    BY <1>2
  <2>2. PICK k \in DOMAIN turns : turns[k] = <<c, y, n>>
    BY <2>1 DEF ToSet
  <2>3. f[k] = IfThenElse(c, y, n)
    BY <1>4, <2>2
  <2> QED
    BY <1>5, <2>3
<1> QED
  BY <1>5, <1>6, <1>7, <1>8

\* A list of two items.
LEMMA TwoListed ==
    ASSUME NEW a, NEW b
    PROVE  Listed(<<a, b>>)
<1>1. <<a, b>> \in Seq({a, b})
  OBVIOUS
<1> QED
  BY <1>1, ListedSeq

\* Lists for the positions of a list, joined, are a list.
LEMMA JoinedListed ==
    ASSUME NEW s, Listed(s), NEW f, f = [i \in DOMAIN s |-> f[i]], \A i \in DOMAIN s : Listed(f[i])
    PROVE  /\ Listed(Joined(f))
           /\ \A x : x \in ToSet(Joined(f)) <=> \E i \in DOMAIN s : x \in ToSet(f[i])
<1>1. Listed(f) /\ DOMAIN f = DOMAIN s
  BY MappedListed
<1>2. Listed(Joined(f)) /\ ToSet(Joined(f)) = Held(f)
  BY <1>1, JoinedHolds
<1>3. \A x : x \in Held(f) <=> \E i \in DOMAIN f : x \in ToSet(f[i])
  BY DEF Held
<1> QED
  BY <1>1, <1>2, <1>3

\* The seeds add conditionals only.
LEMMA SeedsListed ==
    ASSUME NEW ints, Listed(ints), NEW depth
    PROVE  Listed(SeedIfs(ints, depth)) /\ \A e \in ToSet(SeedIfs(ints, depth)) : IsIf(e)
<1>1. Listed(SeedConstants)
  BY TwoListed DEF SeedConstants
<1>2. Listed(SeedConditions(ints))
  <2> DEFINE Both(f, g, p) == <<BinOp(f, p[1], p[2]), BinOp(g, p[1], p[2])>>
  <2>1. PICK wc : wc = Pairs(ints, SeedConstants)
    OBVIOUS
  <2>2. PICK wv : wv = Pairs(ints, ints)
    OBVIOUS
  <2>3. Listed(wc) /\ Listed(wv)
    BY <1>1, <2>1, <2>2, PairsHold
  <2>4. PICK f : f = [k \in DOMAIN wc |-> Both("lt", "gt", wc[k])]
    OBVIOUS
  <2>5. PICK g : g = [k \in DOMAIN wv |-> IF wv[k][1] = wv[k][2] THEN <<>> ELSE Both("gt", "lt", wv[k])]
    OBVIOUS
  <2>6. SeedConditions(ints) = Joined(f) \o Joined(g)
    BY <2>1, <2>2, <2>4, <2>5 DEF SeedConditions
  <2>7. f = [k \in DOMAIN wc |-> f[k]] /\ \A k \in DOMAIN wc : Listed(f[k])
    BY <2>4, TwoListed
  <2>8. g = [k \in DOMAIN wv |-> g[k]] /\ \A k \in DOMAIN wv : Listed(g[k])
    BY <2>5, TwoListed, ListedEmpty
  <2>9. Listed(Joined(f))
    BY <2>3, <2>7, JoinedListed
  <2>10. Listed(Joined(g))
    BY <2>3, <2>8, JoinedListed
  <2> QED
    BY <2>6, <2>9, <2>10, ConcatHolds
<1>3. Listed(SeedBranches(ints))
  <2>1. PICK pairs : pairs = Pairs(ints, SeedConstants)
    OBVIOUS
  <2>2. Listed(pairs)
    BY <1>1, <2>1, PairsHold
  <2>3. PICK f : f = [k \in DOMAIN pairs |-> <<BinOp("sub", pairs[k][2], pairs[k][1]),
                                              BinOp("sub", pairs[k][1], pairs[k][2])>>]
    OBVIOUS
  <2>4. SeedBranches(ints) = ints \o SeedConstants \o Joined(f)
    BY <2>1, <2>3 DEF SeedBranches
  <2>5. f = [k \in DOMAIN pairs |-> f[k]] /\ \A k \in DOMAIN pairs : Listed(f[k])
    BY <2>3, TwoListed
  <2>6. Listed(Joined(f))
    BY <2>2, <2>5, JoinedListed
  <2>7. Listed(ints \o SeedConstants)
    BY <1>1, ConcatHolds
  <2> QED
    BY <2>4, <2>6, <2>7, ConcatHolds
<1>4. PICK all : all = Conditionals(SeedConditions(ints), SeedBranches(ints), SeedBranches(ints))
  OBVIOUS
<1>5. Listed(all) /\ \A e \in ToSet(all) : IsIf(e)
  BY <1>2, <1>3, <1>4, ConditionalsHold
<1>6. PICK deep : deep = Only(all, {e \in ToSet(all) : DepthOf(e) = depth})
  OBVIOUS
<1>7. Listed(deep) /\ ToSet(deep) \subseteq ToSet(all)
  BY <1>5, <1>6, OnlyHolds
<1>8. SeedIfs(ints, depth) = Deduped(deep)
  BY <1>4, <1>6 DEF SeedIfs, Seeds
<1> QED
  BY <1>5, <1>7, <1>8, DedupedHolds

Types == {"Int", "Bool"}

\* The lists below a depth can be used.
Usable(earlier, depth) ==
    \A type \in Types, d \in 0..(depth - 1) :
        Listed(OfDepth(earlier, type, d)) /\ Uniform(ToSet(OfDepth(earlier, type, d)))

\* Expressions have the operations of which one operand is of the depth below.
HasOperations(exprs, type, earlier, depth) ==
    \A a, b \in 0..(depth - 1) : depth - 1 \in {a, b} =>
        \A op \in ToSet(OpsOf(type)), l \in ToSet(OfDepth(earlier, "Int", a)),
           r \in ToSet(OfDepth(earlier, "Int", b)) : BinOp(op, l, r) \in exprs

\* And the conditionals, of parts that are not conditionals.
HasConditionals(exprs, type, earlier, depth) ==
    \A a, b, c \in 0..(depth - 1) : depth - 1 \in {a, b, c} =>
        \A cond \in Plain(ToSet(OfDepth(earlier, "Bool", a))),
           yes \in Plain(ToSet(OfDepth(earlier, type, b))),
           no \in Plain(ToSet(OfDepth(earlier, type, c))) : IfThenElse(cond, yes, no) \in exprs

\* The operators of a type are listed.
LEMMA OpsListed ==
    ASSUME NEW type \in Types
    PROVE  Listed(OpsOf(type))
  BY LanguageAssumption, ListedSeq DEF OpsOf, Types

\* All operations of a depth are listed.
LEMMA BinOpsHold ==
    ASSUME NEW type \in Types, NEW depth \in Nat, NEW earlier, Usable(earlier, depth)
    PROVE  /\ Listed(BinOpExprs(type, depth, earlier))
           /\ \A e \in ToSet(BinOpExprs(type, depth, earlier)) : IsBinOp(e)
           /\ HasOperations(ToSet(BinOpExprs(type, depth, earlier)), type, earlier, depth)
<1> DEFINE D == 0..(depth - 1)
<1>1. PICK turns : turns = Pairs(OpsOf(type), DepthPairs(depth))
  OBVIOUS
<1>2. PICK pairs : pairs = DepthPairs(depth)
  OBVIOUS
<1>3. /\ Listed(pairs) /\ \A d \in ToSet(pairs) : d[1] \in D /\ d[2] \in D
      /\ \A a, b \in D : depth - 1 \in {a, b} => <<a, b>> \in ToSet(pairs)
  BY <1>2, DepthPairsHold
<1>4. Listed(turns) /\ ToSet(turns) = ToSet(OpsOf(type)) \X ToSet(pairs)
  BY <1>1, <1>2, <1>3, OpsListed, PairsHold
<1>5. ASSUME NEW d \in D
      PROVE  /\ Listed(Operands(earlier, d))
             /\ ToSet(Operands(earlier, d)) = ToSet(OfDepth(earlier, "Int", d))
  <2>1. Listed(OfDepth(earlier, "Int", d))
    BY DEF Usable, Types
  <2> QED
    BY <2>1, ByKeyHolds DEF Operands
<1> DEFINE Piece(k) == Operations(turns[k][1], Operands(earlier, turns[k][2][1]),
                                               Operands(earlier, turns[k][2][2]))
<1>6. PICK f : f = [k \in DOMAIN turns |-> Piece(k)]
  OBVIOUS
<1>7. f = [k \in DOMAIN turns |-> f[k]] /\ \A k \in DOMAIN turns : f[k] = Piece(k)
  BY <1>6
<1>8. BinOpExprs(type, depth, earlier) = Joined(f)
  BY <1>1, <1>6 DEF BinOpExprs
<1>9. ASSUME NEW k \in DOMAIN turns
      PROVE  /\ Listed(f[k])
             /\ \A e \in ToSet(f[k]) : IsBinOp(e)
  <2>1. turns[k] \in ToSet(OpsOf(type)) \X ToSet(pairs)
    BY <1>4 DEF ToSet
  <2>2. turns[k][2][1] \in D /\ turns[k][2][2] \in D
    BY <1>3, <2>1
  <2> QED
    BY <1>5, <1>7, <2>2, OperationsHold
<1>10. /\ Listed(Joined(f))
       /\ \A x : x \in ToSet(Joined(f)) <=> \E k \in DOMAIN turns : x \in ToSet(f[k])
  BY <1>4, <1>7, <1>9, JoinedListed
<1>11. \A e \in ToSet(Joined(f)) : IsBinOp(e)
  BY <1>9, <1>10
<1>12. HasOperations(ToSet(Joined(f)), type, earlier, depth)
  <2> SUFFICES ASSUME NEW a \in D, NEW b \in D, depth - 1 \in {a, b}, NEW op \in ToSet(OpsOf(type)),
                      NEW l \in ToSet(OfDepth(earlier, "Int", a)),
                      NEW r \in ToSet(OfDepth(earlier, "Int", b))
               PROVE  BinOp(op, l, r) \in ToSet(Joined(f))
    BY DEF HasOperations
  <2>1. <<op, <<a, b>>>> \in ToSet(turns)
    BY <1>3, <1>4
  <2>2. PICK k \in DOMAIN turns : turns[k] = <<op, <<a, b>>>>
    BY <2>1 DEF ToSet
  <2>3. f[k] = Operations(op, Operands(earlier, a), Operands(earlier, b))
    BY <1>7, <2>2
  <2>4. BinOp(op, l, r) \in ToSet(f[k])
    BY <1>5, <2>3, OperationsHold
  <2> QED
    BY <1>10, <2>4
<1> QED
  BY <1>8, <1>10, <1>11, <1>12

\* All conditionals of a depth are listed.
LEMMA IfsHold ==
    ASSUME NEW type \in Types, NEW types, Listed(types),
           NEW depth \in Nat, NEW earlier, Usable(earlier, depth)
    PROVE  /\ Listed(IfExprs(type, types, depth, earlier))
           /\ \A e \in ToSet(IfExprs(type, types, depth, earlier)) : IsIf(e)
           /\ HasConditionals(ToSet(IfExprs(type, types, depth, earlier)), type, earlier, depth)
<1> DEFINE D == 0..(depth - 1)
<1>1. PICK turns : turns = DepthTriples(depth)
  OBVIOUS
<1>2. /\ Listed(turns) /\ \A d \in ToSet(turns) : d[1] \in D /\ d[2] \in D /\ d[3] \in D
      /\ \A a, b, c \in D : depth - 1 \in {a, b, c} => <<a, b, c>> \in ToSet(turns)
  BY <1>1, DepthTriplesHold
<1>3. ASSUME NEW d \in D
      PROVE  /\ Listed(Conditions(earlier, d)) /\ Listed(Branches(earlier, type, d))
             /\ Plain(ToSet(OfDepth(earlier, "Bool", d))) \subseteq ToSet(Conditions(earlier, d))
             /\ Plain(ToSet(OfDepth(earlier, type, d))) \subseteq ToSet(Branches(earlier, type, d))
  <2>1. /\ Listed(OfDepth(earlier, "Bool", d)) /\ Uniform(ToSet(OfDepth(earlier, "Bool", d)))
        /\ Listed(OfDepth(earlier, type, d))
    BY DEF Usable, Types
  <2> QED
    BY <2>1, ConditionsHold, BranchesHold
<1> DEFINE Piece(k) == Conditionals(Conditions(earlier, turns[k][1]),
                                    Branches(earlier, type, turns[k][2]),
                                    Branches(earlier, type, turns[k][3]))
<1>4. PICK f : f = [k \in DOMAIN turns |-> Piece(k)]
  OBVIOUS
<1>5. f = [k \in DOMAIN turns |-> f[k]] /\ \A k \in DOMAIN turns : f[k] = Piece(k)
  BY <1>4
<1>6. PICK seeds : seeds = IF type = "Int" THEN SeedIfs(VarsOf("Int", types), depth) ELSE <<>>
  OBVIOUS
<1>7. IfExprs(type, types, depth, earlier) = seeds \o Joined(f)
  BY <1>1, <1>4, <1>6 DEF IfExprs
<1>8. Listed(seeds) /\ \A e \in ToSet(seeds) : IsIf(e)
  <2>1. CASE type = "Int"
    BY <1>6, <2>1, VarsListed, SeedsListed
  <2>2. CASE type # "Int"
    BY <1>6, <2>2, EmptyHolds
  <2> QED
    BY <2>1, <2>2
<1>9. ASSUME NEW k \in DOMAIN turns
      PROVE  /\ Listed(f[k])
             /\ \A e \in ToSet(f[k]) : IsIf(e)
  <2>1. turns[k] \in ToSet(turns)
    BY DEF ToSet
  <2>2. turns[k][1] \in D /\ turns[k][2] \in D /\ turns[k][3] \in D
    BY <1>2, <2>1
  <2> QED
    BY <1>3, <1>5, <2>2, ConditionalsHold
<1>10. /\ Listed(Joined(f))
       /\ \A x : x \in ToSet(Joined(f)) <=> \E k \in DOMAIN turns : x \in ToSet(f[k])
  BY <1>2, <1>5, <1>9, JoinedListed
<1>11. Listed(seeds \o Joined(f)) /\ ToSet(seeds \o Joined(f)) = ToSet(seeds) \cup ToSet(Joined(f))
  BY <1>8, <1>10, ConcatHolds
<1>12. \A e \in ToSet(seeds \o Joined(f)) : IsIf(e)
  BY <1>8, <1>9, <1>10, <1>11
<1>13. HasConditionals(ToSet(seeds \o Joined(f)), type, earlier, depth)
  <2> SUFFICES ASSUME NEW a \in D, NEW b \in D, NEW c \in D, depth - 1 \in {a, b, c},
                      NEW cond \in Plain(ToSet(OfDepth(earlier, "Bool", a))),
                      NEW yes \in Plain(ToSet(OfDepth(earlier, type, b))),
                      NEW no \in Plain(ToSet(OfDepth(earlier, type, c)))
               PROVE  IfThenElse(cond, yes, no) \in ToSet(seeds \o Joined(f))
    BY DEF HasConditionals
  <2>1. <<a, b, c>> \in ToSet(turns)
    BY <1>2
  <2>2. PICK k \in DOMAIN turns : turns[k] = <<a, b, c>>
    BY <2>1 DEF ToSet
  <2>3. f[k] = Conditionals(Conditions(earlier, a), Branches(earlier, type, b), Branches(earlier, type, c))
    BY <1>5, <2>2
  <2>4. IfThenElse(cond, yes, no) \in ToSet(f[k])
    BY <1>3, <2>3, ConditionalsHold
  <2> QED
    BY <1>10, <1>11, <2>4
<1> QED
  BY <1>7, <1>11, <1>12, <1>13

\* What a depth lists: operations and conditionals only, and all of them.
LEMMA DepthHolds ==
    ASSUME NEW type \in Types, NEW types, Listed(types),
           NEW depth \in Nat, NEW earlier, Usable(earlier, depth)
    PROVE  /\ Listed(ExprsAtDepth(type, types, depth, earlier))
           /\ Uniform(ToSet(ExprsAtDepth(type, types, depth, earlier)))
           /\ HasOperations(ToSet(ExprsAtDepth(type, types, depth, earlier)), type, earlier, depth)
           /\ HasConditionals(ToSet(ExprsAtDepth(type, types, depth, earlier)), type, earlier, depth)
<1>1. PICK ifs : ifs = IfExprs(type, types, depth, earlier)
  OBVIOUS
<1>2. PICK binops : binops = BinOpExprs(type, depth, earlier)
  OBVIOUS
<1>3. /\ Listed(ifs) /\ \A e \in ToSet(ifs) : IsIf(e)
      /\ HasConditionals(ToSet(ifs), type, earlier, depth)
  BY <1>1, IfsHold
<1>4. /\ Listed(binops) /\ \A e \in ToSet(binops) : IsBinOp(e)
      /\ HasOperations(ToSet(binops), type, earlier, depth)
  BY <1>2, BinOpsHold
<1>5. PICK list : list = Ordered(type, ifs, binops)
  OBVIOUS
<1>6. Listed(list) /\ ToSet(list) = ToSet(ifs) \cup ToSet(binops)
  BY <1>3, <1>4, <1>5, ConcatHolds DEF Ordered
<1>7. PICK exprs : exprs = ToSet(Deduped(list))
  OBVIOUS
<1>8. Listed(Deduped(list)) /\ exprs = ToSet(ifs) \cup ToSet(binops)
  BY <1>6, <1>7, DedupedHolds
<1>9. Uniform(exprs)
  BY <1>3, <1>4, <1>8 DEF Uniform
<1>10. HasOperations(exprs, type, earlier, depth)
  BY <1>4, <1>8 DEF HasOperations
<1>11. HasConditionals(exprs, type, earlier, depth)
  BY <1>3, <1>8 DEF HasConditionals
<1>12. ExprsAtDepth(type, types, depth, earlier) = Deduped(list)
  BY <1>1, <1>2, <1>5 DEF ExprsAtDepth
<1> QED
  BY <1>7, <1>8, <1>9, <1>10, <1>11, <1>12

\* Of which type an expression of a level is.
LEMMA LevelTypes ==
    ASSUME NEW a, NEW b
    PROVE  Of(<<a, b>>, "Int") = a /\ Of(<<a, b>>, "Bool") = b
  BY DEF Of

\* The levels up to a depth, each complete with respect to those before.
Whole(levels, depth) ==
    /\ Listed(levels) /\ Len(levels) = depth + 1
    /\ Usable(levels, depth + 1)
    /\ \A type \in Types, d \in 1..depth :
        /\ HasOperations(ToSet(OfDepth(levels, type, d)), type, levels, d)
        /\ HasConditionals(ToSet(OfDepth(levels, type, d)), type, levels, d)

\* The first level is complete.
LEMMA BaseWhole ==
    ASSUME NEW types, NEW macros, Listed(types), Listed(macros)
    PROVE  /\ Whole(<<BaseLevel(types, macros)>>, 0)
           /\ \A type \in Types :
                OfDepth(<<BaseLevel(types, macros)>>, type, 0) = BaseExprs(type, types, macros)
<1> DEFINE levels == <<BaseLevel(types, macros)>>
<1>1. Listed(levels) /\ Len(levels) = 0 + 1 /\ levels[0 + 1] = BaseLevel(types, macros)
  BY OneListed
<1>2. ASSUME NEW type \in Types
      PROVE  OfDepth(levels, type, 0) = BaseExprs(type, types, macros)
  BY <1>1, LevelTypes DEF OfDepth, BaseLevel, Types
<1> HIDE DEF levels
<1>3. Usable(levels, 0 + 1)
  <2> SUFFICES ASSUME NEW type \in Types, NEW d \in 0..((0 + 1) - 1)
               PROVE  Listed(OfDepth(levels, type, d)) /\ Uniform(ToSet(OfDepth(levels, type, d)))
    BY DEF Usable
  <2>1. d = 0
    OBVIOUS
  <2> QED
    BY <1>2, <2>1, BaseListed DEF Uniform
<1>4. Whole(levels, 0)
  BY <1>1, <1>3 DEF Whole
<1> QED
  BY <1>2, <1>4 DEF levels

\* The next level is complete if those before are, and changes none of them.
LEMMA NextWhole ==
    ASSUME NEW types, Listed(types), NEW depth \in Nat, NEW levels, Whole(levels, depth)
    PROVE  /\ Whole(Append(levels, NextLevel(types, depth + 1, levels)), depth + 1)
           /\ \A type \in Types, d \in 0..depth :
                OfDepth(Append(levels, NextLevel(types, depth + 1, levels)), type, d) = OfDepth(levels, type, d)
<1>1. PICK level : level = NextLevel(types, depth + 1, levels)
  OBVIOUS
<1>2. PICK more : more = Append(levels, level)
  OBVIOUS
<1>3. /\ Listed(more) /\ Len(more) = (depth + 1) + 1
      /\ \A d \in 0..depth : more[d + 1] = levels[d + 1]
      /\ more[(depth + 1) + 1] = level
  <2> DEFINE S == ToSet(levels) \cup {level}
  <2>1. levels \in Seq(S) /\ level \in S /\ Len(levels) = depth + 1
    <3>1. levels \in Seq(ToSet(levels))
      BY ItemsListed DEF Whole
    <3>2. ToSet(levels) \subseteq S /\ level \in S
      OBVIOUS
    <3> HIDE DEF S
    <3> QED
      BY <3>1, <3>2, SeqMonotonic DEF Whole
  <2> HIDE DEF S
  <2>2. /\ more \in Seq(S) /\ Len(more) = (depth + 1) + 1
        /\ \A i \in 1..(depth + 1) : more[i] = levels[i]
        /\ more[(depth + 1) + 1] = level
    BY <1>2, <2>1, AppendProperties
  <2>3. \A d \in 0..depth : d + 1 \in 1..(depth + 1)
    OBVIOUS
  <2> QED
    BY <2>2, <2>3, ListedSeq
<1>4. \A type \in Types, d \in 0..depth : OfDepth(more, type, d) = OfDepth(levels, type, d)
  BY <1>3 DEF OfDepth
<1>5. \A type \in Types :
        OfDepth(more, type, depth + 1) = ExprsAtDepth(type, types, depth + 1, levels)
  BY <1>1, <1>3, LevelTypes DEF OfDepth, NextLevel, Types
<1>6. Usable(levels, depth + 1)
  BY DEF Whole
<1>7. ASSUME NEW type \in Types
      PROVE  /\ Listed(OfDepth(more, type, depth + 1))
             /\ Uniform(ToSet(OfDepth(more, type, depth + 1)))
             /\ HasOperations(ToSet(OfDepth(more, type, depth + 1)), type, levels, depth + 1)
             /\ HasConditionals(ToSet(OfDepth(more, type, depth + 1)), type, levels, depth + 1)
  BY <1>5, <1>6, DepthHolds
<1>8. Usable(more, (depth + 1) + 1)
  <2> SUFFICES ASSUME NEW type \in Types, NEW d \in 0..(((depth + 1) + 1) - 1)
               PROVE  Listed(OfDepth(more, type, d)) /\ Uniform(ToSet(OfDepth(more, type, d)))
    BY DEF Usable
  <2>1. CASE d = depth + 1
    BY <1>7, <2>1
  <2>2. CASE d # depth + 1
    <3>1. d \in 0..depth /\ d \in 0..((depth + 1) - 1)
      BY <2>2
    <3> QED
      BY <1>4, <1>6, <3>1 DEF Usable
  <2> QED
    BY <2>1, <2>2
<1>9. ASSUME NEW exprs, NEW type \in Types, NEW d \in 1..(depth + 1)
      PROVE  /\ HasOperations(exprs, type, levels, d) => HasOperations(exprs, type, more, d)
             /\ HasConditionals(exprs, type, levels, d) => HasConditionals(exprs, type, more, d)
  <2>1. \A a \in 0..(d - 1) : a \in 0..depth
    OBVIOUS
  <2>2. \A a \in 0..(d - 1) : /\ OfDepth(more, "Int", a) = OfDepth(levels, "Int", a)
                              /\ OfDepth(more, "Bool", a) = OfDepth(levels, "Bool", a)
                              /\ OfDepth(more, type, a) = OfDepth(levels, type, a)
    BY <1>4, <2>1 DEF Types
  <2>3. HasOperations(exprs, type, levels, d) => HasOperations(exprs, type, more, d)
    BY <2>2 DEF HasOperations
  <2>4. HasConditionals(exprs, type, levels, d) => HasConditionals(exprs, type, more, d)
    BY <2>2 DEF HasConditionals
  <2> QED
    BY <2>3, <2>4
<1>10. ASSUME NEW type \in Types, NEW d \in 1..(depth + 1)
       PROVE  /\ HasOperations(ToSet(OfDepth(more, type, d)), type, more, d)
              /\ HasConditionals(ToSet(OfDepth(more, type, d)), type, more, d)
  <2>1. CASE d = depth + 1
    BY <1>7, <1>9, <2>1
  <2>2. CASE d # depth + 1
    <3>1. d \in 1..depth /\ d \in 0..depth
      BY <2>2
    <3>2. /\ HasOperations(ToSet(OfDepth(levels, type, d)), type, levels, d)
          /\ HasConditionals(ToSet(OfDepth(levels, type, d)), type, levels, d)
      BY <3>1 DEF Whole
    <3> QED
      BY <1>4, <1>9, <3>1, <3>2
  <2> QED
    BY <2>1, <2>2
<1>11. Whole(more, depth + 1)
  BY <1>3, <1>8, <1>10 DEF Whole
<1> QED
  BY <1>1, <1>2, <1>4, <1>11

\* The expressions of a depth at most.
Reached(levels, type, depth) == UNION {ToSet(OfDepth(levels, type, d)) : d \in 0..depth}

\* An expression of a depth at most is one of some such depth.
LEMMA ReachedAt ==
    ASSUME NEW levels, NEW type, NEW depth, NEW x
    PROVE  x \in Reached(levels, type, depth) <=> \E d \in 0..depth : x \in ToSet(OfDepth(levels, type, d))
  BY DEF Reached

\* An operation is listed at the depth after that of its deeper operand.
LEMMA OperationReached ==
    ASSUME NEW depth \in Nat, NEW levels, Whole(levels, depth + 1), NEW type \in Types,
           NEW op \in ToSet(OpsOf(type)),
           NEW l \in Reached(levels, "Int", depth), NEW r \in Reached(levels, "Int", depth)
    PROVE  BinOp(op, l, r) \in Reached(levels, type, depth + 1)
<1>1. PICK a \in 0..depth : l \in ToSet(OfDepth(levels, "Int", a))
  BY ReachedAt
<1>2. PICK b \in 0..depth : r \in ToSet(OfDepth(levels, "Int", b))
  BY ReachedAt
<1>3. PICK d \in 1..(depth + 1) : a \in 0..(d - 1) /\ b \in 0..(d - 1) /\ d - 1 \in {a, b}
  <2>1. CASE a <= b
    <3>1. b + 1 \in 1..(depth + 1) /\ a \in 0..((b + 1) - 1) /\ b \in 0..((b + 1) - 1) /\ (b + 1) - 1 = b
      BY <2>1
    <3> QED
      BY <3>1
  <2>2. CASE ~(a <= b)
    <3>1. a + 1 \in 1..(depth + 1) /\ a \in 0..((a + 1) - 1) /\ b \in 0..((a + 1) - 1) /\ (a + 1) - 1 = a
      BY <2>2
    <3> QED
      BY <3>1
  <2> QED
    BY <2>1, <2>2
<1>4. HasOperations(ToSet(OfDepth(levels, type, d)), type, levels, d)
  BY DEF Whole
<1>5. BinOp(op, l, r) \in ToSet(OfDepth(levels, type, d))
  BY <1>1, <1>2, <1>3, <1>4 DEF HasOperations
<1>6. d \in 0..(depth + 1)
  OBVIOUS
<1> QED
  BY <1>5, <1>6, ReachedAt

\* And a conditional, at the depth after that of its deepest part.
LEMMA ConditionalReached ==
    ASSUME NEW depth \in Nat, NEW levels, Whole(levels, depth + 1), NEW type \in Types,
           NEW cond \in Plain(Reached(levels, "Bool", depth)),
           NEW yes \in Plain(Reached(levels, type, depth)),
           NEW no \in Plain(Reached(levels, type, depth))
    PROVE  IfThenElse(cond, yes, no) \in Reached(levels, type, depth + 1)
<1>1. PICK a \in 0..depth : cond \in Plain(ToSet(OfDepth(levels, "Bool", a)))
  BY ReachedAt DEF Plain
<1>2. PICK b \in 0..depth : yes \in Plain(ToSet(OfDepth(levels, type, b)))
  BY ReachedAt DEF Plain
<1>3. PICK c \in 0..depth : no \in Plain(ToSet(OfDepth(levels, type, c)))
  BY ReachedAt DEF Plain
<1>4. PICK m \in {a, b, c} : a <= m /\ b <= m /\ c <= m
  <2>1. CASE a <= b /\ c <= b
    BY <2>1
  <2>2. CASE a <= c /\ b <= c
    BY <2>2
  <2>3. CASE b <= a /\ c <= a
    BY <2>3
  <2> QED
    BY <2>1, <2>2, <2>3
<1>5. PICK d \in 1..(depth + 1) :
        a \in 0..(d - 1) /\ b \in 0..(d - 1) /\ c \in 0..(d - 1) /\ d - 1 \in {a, b, c}
  <2>1. m \in 0..depth
    BY <1>4
  <2>2. m + 1 \in 1..(depth + 1) /\ (m + 1) - 1 = m
    BY <2>1
  <2>3. a \in 0..m /\ b \in 0..m /\ c \in 0..m
    BY <1>4, <2>1
  <2> QED
    BY <1>4, <2>2, <2>3
<1>6. HasConditionals(ToSet(OfDepth(levels, type, d)), type, levels, d)
  BY DEF Whole
<1>7. IfThenElse(cond, yes, no) \in ToSet(OfDepth(levels, type, d))
  BY <1>1, <1>2, <1>3, <1>5, <1>6 DEF HasConditionals
<1>8. d \in 0..(depth + 1)
  OBVIOUS
<1> QED
  BY <1>7, <1>8, ReachedAt

\* The levels up to each depth, made from those before.
AllLevels(g, types, macros, n) ==
    g = [depth \in 0..n |-> IF depth = 0 THEN <<BaseLevel(types, macros)>>
                            ELSE Append(g[depth - 1], NextLevel(types, depth, g[depth - 1]))]

\* There are such levels.
LEMMA LevelsExist ==
    ASSUME NEW types, NEW macros, NEW n \in Nat
    PROVE  \E g : AllLevels(g, types, macros, n)
<1> DEFINE From(depth, level) == IF depth = 0 THEN <<BaseLevel(types, macros)>>
                                 ELSE Append(level, NextLevel(types, depth, level))
<1> HIDE DEF From
<1> DEFINE Good == {m \in Nat : \E g : g = [depth \in 0..m |-> From(depth, g[depth - 1])]}
<1>1. 0 \in Good
  <2>1. PICK c : c = From(0, [depth \in 0..0 |-> {}][0 - 1])
    OBVIOUS
  <2>2. \A level : From(0, level) = c
    BY <2>1 DEF From
  <2>3. PICK g : g = [depth \in 0..0 |-> c]
    OBVIOUS
  <2>4. \A depth \in 0..0 : depth = 0
    OBVIOUS
  <2>5. \A depth \in 0..0 : From(depth, g[depth - 1]) = c
    BY <2>2, <2>4
  <2>6. g = [depth \in 0..0 |-> From(depth, g[depth - 1])]
    BY <2>3, <2>5
  <2> QED
    BY <2>6
<1>2. ASSUME NEW m \in Good PROVE m + 1 \in Good
  <2>1. PICK g : g = [depth \in 0..m |-> From(depth, g[depth - 1])]
    OBVIOUS
  <2>2. m \in Nat
    OBVIOUS
  <2> HIDE DEF Good
  <2>3. PICK h : h = [depth \in 0..(m + 1) |-> IF depth = m + 1 THEN From(m + 1, g[m]) ELSE g[depth]]
    OBVIOUS
  <2>4. \A depth \in 0..m : h[depth] = g[depth]
    BY <2>2, <2>3
  <2>5. ASSUME NEW depth \in 0..(m + 1)
        PROVE  h[depth] = From(depth, h[depth - 1])
    <3>1. CASE depth = m + 1
      <4>1. h[depth] = From(m + 1, g[m]) /\ depth - 1 = m /\ m \in 0..m
        BY <2>2, <2>3, <3>1
      <4> QED
        BY <2>4, <3>1, <4>1
    <3>2. CASE depth = 0
      <4>1. depth \in 0..m
        BY <2>2, <3>2
      <4>2. h[depth] = From(depth, g[depth - 1])
        BY <2>1, <2>4, <4>1
      <4> QED
        BY <3>2, <4>2 DEF From
    <3>3. CASE depth # m + 1 /\ depth # 0
      <4>1. depth \in 0..m /\ depth - 1 \in 0..m
        BY <2>2, <3>3
      <4>2. h[depth] = From(depth, g[depth - 1])
        BY <2>1, <2>4, <4>1
      <4> QED
        BY <2>4, <4>1, <4>2
    <3> QED
      BY <3>1, <3>2, <3>3
  <2>6. h = [depth \in 0..(m + 1) |-> h[depth]]
    BY <2>3
  <2>7. h = [depth \in 0..(m + 1) |-> From(depth, h[depth - 1])]
    BY <2>5, <2>6
  <2> QED
    BY <2>2, <2>7 DEF Good
<1>3. Good = Nat
  <2>1. Good \in SUBSET Nat
    OBVIOUS
  <2> HIDE DEF Good
  <2> QED
    BY <1>1, <1>2, <2>1, SetInduction
<1>4. \E g : g = [depth \in 0..n |-> From(depth, g[depth - 1])]
  BY <1>3
<1> QED
  BY <1>4 DEF From, AllLevels

\* The expressions of the grammar up to each depth.
AllMeant(g, types, macros, n) ==
    g = [depth \in 0..n |->
            IF depth = 0
            THEN <<ToSet(BaseExprs("Int", types, macros)), ToSet(BaseExprs("Bool", types, macros))>>
            ELSE <<Grown("Int", g[depth - 1]), Grown("Bool", g[depth - 1])>>]

\* There are such expressions.
LEMMA GrammarExists ==
    ASSUME NEW types, NEW macros, NEW n \in Nat
    PROVE  \E g : AllMeant(g, types, macros, n)
<1> DEFINE From(depth, smaller) ==
             IF depth = 0
             THEN <<ToSet(BaseExprs("Int", types, macros)), ToSet(BaseExprs("Bool", types, macros))>>
             ELSE <<Grown("Int", smaller), Grown("Bool", smaller)>>
<1> HIDE DEF From
<1> DEFINE Good == {m \in Nat : \E g : g = [depth \in 0..m |-> From(depth, g[depth - 1])]}
<1>1. 0 \in Good
  <2>1. PICK c : c = From(0, [depth \in 0..0 |-> {}][0 - 1])
    OBVIOUS
  <2>2. \A level : From(0, level) = c
    BY <2>1 DEF From
  <2>3. PICK g : g = [depth \in 0..0 |-> c]
    OBVIOUS
  <2>4. \A depth \in 0..0 : depth = 0
    OBVIOUS
  <2>5. \A depth \in 0..0 : From(depth, g[depth - 1]) = c
    BY <2>2, <2>4
  <2>6. g = [depth \in 0..0 |-> From(depth, g[depth - 1])]
    BY <2>3, <2>5
  <2> QED
    BY <2>6
<1>2. ASSUME NEW m \in Good PROVE m + 1 \in Good
  <2>1. PICK g : g = [depth \in 0..m |-> From(depth, g[depth - 1])]
    OBVIOUS
  <2>2. m \in Nat
    OBVIOUS
  <2> HIDE DEF Good
  <2>3. PICK h : h = [depth \in 0..(m + 1) |-> IF depth = m + 1 THEN From(m + 1, g[m]) ELSE g[depth]]
    OBVIOUS
  <2>4. \A depth \in 0..m : h[depth] = g[depth]
    BY <2>2, <2>3
  <2>5. ASSUME NEW depth \in 0..(m + 1)
        PROVE  h[depth] = From(depth, h[depth - 1])
    <3>1. CASE depth = m + 1
      <4>1. h[depth] = From(m + 1, g[m]) /\ depth - 1 = m /\ m \in 0..m
        BY <2>2, <2>3, <3>1
      <4> QED
        BY <2>4, <3>1, <4>1
    <3>2. CASE depth = 0
      <4>1. depth \in 0..m
        BY <2>2, <3>2
      <4>2. h[depth] = From(depth, g[depth - 1])
        BY <2>1, <2>4, <4>1
      <4> QED
        BY <3>2, <4>2 DEF From
    <3>3. CASE depth # m + 1 /\ depth # 0
      <4>1. depth \in 0..m /\ depth - 1 \in 0..m
        BY <2>2, <3>3
      <4>2. h[depth] = From(depth, g[depth - 1])
        BY <2>1, <2>4, <4>1
      <4> QED
        BY <2>4, <4>1, <4>2
    <3> QED
      BY <3>1, <3>2, <3>3
  <2>6. h = [depth \in 0..(m + 1) |-> h[depth]]
    BY <2>3
  <2>7. h = [depth \in 0..(m + 1) |-> From(depth, h[depth - 1])]
    BY <2>5, <2>6
  <2> QED
    BY <2>2, <2>7 DEF Good
<1>3. Good = Nat
  <2>1. Good \in SUBSET Nat
    OBVIOUS
  <2> HIDE DEF Good
  <2> QED
    BY <1>1, <1>2, <2>1, SetInduction
<1>4. \E g : g = [depth \in 0..n |-> From(depth, g[depth - 1])]
  BY <1>3
<1> QED
  BY <1>4 DEF From, AllMeant

\* enumerate_programs lists every expression of the language of the depth that is
\* asked for or less, except conditionals directly in conditionals, for any
\* operators, constants, types, macros and sort keys: the shapes that are tried
\* first, and the splits that leave out depths done before, lose nothing.
THEOREM EnumerationComplete ==
    ASSUME NEW type \in Types, NEW types, NEW macros, NEW maxDepth \in Nat,
           Listed(types), Listed(macros)
    PROVE  /\ Listed(EnumeratePrograms(type, types, maxDepth, macros))
           /\ Grammar(type, types, maxDepth, macros)
                \subseteq ToSet(EnumeratePrograms(type, types, maxDepth, macros))
<1>1. PICK g : AllLevels(g, types, macros, maxDepth)
  BY LevelsExist
<1>2. PICK h : AllMeant(h, types, macros, maxDepth)
  BY GrammarExists
<1> DEFINE upTo[depth \in 0..maxDepth] ==
             IF depth = 0 THEN <<BaseLevel(types, macros)>>
             ELSE LET earlier == upTo[depth - 1]
                  IN  Append(earlier, NextLevel(types, depth, earlier))
           meant[depth \in 0..maxDepth] ==
             IF depth = 0
             THEN <<ToSet(BaseExprs("Int", types, macros)), ToSet(BaseExprs("Bool", types, macros))>>
             ELSE LET smaller == meant[depth - 1]
                  IN  <<Grown("Int", smaller), Grown("Bool", smaller)>>
<1>3. upTo = [depth \in 0..maxDepth |->
                IF depth = 0 THEN <<BaseLevel(types, macros)>>
                ELSE Append(upTo[depth - 1], NextLevel(types, depth, upTo[depth - 1]))]
  BY <1>1 DEF AllLevels
<1>4. meant = [depth \in 0..maxDepth |->
                IF depth = 0
                THEN <<ToSet(BaseExprs("Int", types, macros)), ToSet(BaseExprs("Bool", types, macros))>>
                ELSE <<Grown("Int", meant[depth - 1]), Grown("Bool", meant[depth - 1])>>]
  BY <1>2 DEF AllMeant
<1>5. Levels(types, macros, maxDepth) = upTo[maxDepth]
  BY DEF Levels
<1>6. Grammar(type, types, maxDepth, macros) = Of(meant[maxDepth], type)
  BY DEF Grammar
<1> HIDE DEF upTo, meant
<1>7. ASSUME NEW m \in 0..maxDepth
      PROVE  /\ Whole(upTo[m], m)
             /\ \A t \in Types : Of(meant[m], t) \subseteq Reached(upTo[m], t, m)
  <2> DEFINE Good == {k \in Nat : k <= maxDepth =>
                        /\ Whole(upTo[k], k)
                        /\ \A t \in Types : Of(meant[k], t) \subseteq Reached(upTo[k], t, k)}
  <2>1. 0 \in Good
    <3>1. PICK u : u = upTo[0]
      OBVIOUS
    <3>2. u = <<BaseLevel(types, macros)>>
      BY <1>3, <3>1
    <3>3. Whole(u, 0) /\ \A t \in Types : OfDepth(u, t, 0) = BaseExprs(t, types, macros)
      BY <3>2, BaseWhole
    <3>4. meant[0] = <<ToSet(BaseExprs("Int", types, macros)), ToSet(BaseExprs("Bool", types, macros))>>
      BY <1>4
    <3>5. \A t \in Types : Of(meant[0], t) = ToSet(BaseExprs(t, types, macros))
      BY <3>4, LevelTypes DEF Types
    <3>6. \A t \in Types : Of(meant[0], t) \subseteq Reached(u, t, 0)
      BY <3>3, <3>5, ReachedAt
    <3> QED
      BY <3>1, <3>3, <3>6
  <2>2. ASSUME NEW k \in Good PROVE k + 1 \in Good
    <3> SUFFICES ASSUME k + 1 <= maxDepth PROVE k + 1 \in Good
      OBVIOUS
    <3>1. k \in Nat /\ k + 1 \in 0..maxDepth /\ k + 1 # 0 /\ (k + 1) - 1 = k
      OBVIOUS
    <3>2. PICK u : u = upTo[k]
      OBVIOUS
    <3>3. PICK s : s = meant[k]
      OBVIOUS
    <3>4. PICK v : v = upTo[k + 1]
      OBVIOUS
    <3>5. PICK b : b = meant[k + 1]
      OBVIOUS
    <3>6. Whole(u, k) /\ \A t \in Types : Of(s, t) \subseteq Reached(u, t, k)
      BY <3>2, <3>3
    <3> HIDE DEF Good
    <3>7. v = Append(u, NextLevel(types, k + 1, u))
      BY <1>3, <3>1, <3>2, <3>4
    <3>8. b = <<Grown("Int", s), Grown("Bool", s)>>
      BY <1>4, <3>1, <3>3, <3>5
    <3>9. Whole(v, k + 1) /\ \A t \in Types, d \in 0..k : OfDepth(v, t, d) = OfDepth(u, t, d)
      BY <3>1, <3>6, <3>7, NextWhole
    <3>10. \A t \in Types : Of(s, t) \subseteq Reached(v, t, k)
      BY <3>6, <3>9, ReachedAt
    <3>11. ASSUME NEW t \in Types, NEW x \in Reached(v, t, k)
           PROVE  x \in Reached(v, t, k + 1)
      <4>1. PICK d \in 0..k : x \in ToSet(OfDepth(v, t, d))
        BY <3>11, ReachedAt
      <4>2. d \in 0..(k + 1)
        BY <3>1
      <4> QED
        BY <4>1, <4>2, ReachedAt
    <3>12. "Int" \in Types /\ "Bool" \in Types
      BY DEF Types
    <3>13. ASSUME NEW t \in Types, NEW x \in Grown(t, s)
           PROVE  x \in Reached(v, t, k + 1)
      <4>1. CASE x \in Of(s, t)
        BY <3>10, <3>11, <4>1
      <4>2. CASE \E op \in ToSet(OpsOf(t)), l \in Of(s, "Int"), r \in Of(s, "Int") : x = BinOp(op, l, r)
        BY <3>1, <3>9, <3>10, <3>12, <4>2, OperationReached
      <4>3. CASE \E c \in Plain(Of(s, "Bool")), y \in Plain(Of(s, t)), n \in Plain(Of(s, t)) :
                   x = IfThenElse(c, y, n)
        <5>1. /\ Plain(Of(s, "Bool")) \subseteq Plain(Reached(v, "Bool", k))
              /\ Plain(Of(s, t)) \subseteq Plain(Reached(v, t, k))
          BY <3>10, <3>12 DEF Plain
        <5> QED
          BY <3>1, <3>9, <4>3, <5>1, ConditionalReached
      <4> QED
        BY <4>1, <4>2, <4>3 DEF Grown
    <3>14. \A t \in Types : Of(b, t) = Grown(t, s)
      BY <3>8, LevelTypes DEF Types
    <3>15. \A t \in Types : Of(b, t) \subseteq Reached(v, t, k + 1)
      BY <3>13, <3>14
    <3> QED
      BY <3>1, <3>4, <3>5, <3>9, <3>15 DEF Good
  <2> HIDE DEF Good
  <2>3. Good = Nat
    <3>1. Good \in SUBSET Nat
      BY DEF Good
    <3> QED
      BY <2>1, <2>2, <3>1, SetInduction
  <2>4. m \in Good /\ m <= maxDepth
    BY <2>3
  <2> QED
    BY <2>4 DEF Good
<1>8. PICK levels : levels = Levels(types, macros, maxDepth)
  OBVIOUS
<1>9. Whole(levels, maxDepth) /\ Grammar(type, types, maxDepth, macros) \subseteq Reached(levels, type, maxDepth)
  BY <1>5, <1>6, <1>7, <1>8
<1>10. PICK f : f = [d \in 1..(maxDepth + 1) |-> Of(levels[d], type)]
  OBVIOUS
<1>11. EnumeratePrograms(type, types, maxDepth, macros) = Joined(f)
  BY <1>8, <1>10 DEF EnumeratePrograms
<1>12. /\ f = [d \in 1..(maxDepth + 1) |-> f[d]]
       /\ \A d \in 0..maxDepth : d + 1 \in 1..(maxDepth + 1) /\ f[d + 1] = OfDepth(levels, type, d)
  BY <1>10 DEF OfDepth
<1>13. Listed(f) /\ DOMAIN f = 1..(maxDepth + 1)
  BY <1>12, FunctionListed
<1>14. ASSUME NEW i \in DOMAIN f
       PROVE  Listed(f[i])
  <2>1. i - 1 \in 0..maxDepth /\ (i - 1) + 1 = i /\ i - 1 \in 0..((maxDepth + 1) - 1)
    BY <1>13
  <2>2. f[i] = OfDepth(levels, type, i - 1)
    BY <1>12, <2>1
  <2> QED
    BY <1>9, <2>1, <2>2 DEF Whole, Usable
<1>15. Listed(Joined(f)) /\ ToSet(Joined(f)) = Held(f)
  BY <1>13, <1>14, JoinedHolds
<1>16. Reached(levels, type, maxDepth) \subseteq Held(f)
  <2> SUFFICES ASSUME NEW d \in 0..maxDepth, NEW x \in ToSet(OfDepth(levels, type, d))
               PROVE  x \in Held(f)
    BY ReachedAt
  <2> QED
    BY <1>12, <1>13 DEF Held
<1> QED
  BY <1>9, <1>11, <1>15, <1>16

-----------------------------------------------------------------------------
(* The episode: one of the two components works, the other is idle, and what *)
(* the search looks through is what the enumerator lists.                    *)

\* An episode is a behaviour of the search and of the kernel.
THEOREM EpisodeComposes == SolveSpec => Spec /\ KernelSpec
<1>1. SolveInit => Init /\ KernelInit
  BY DEF SolveInit
<1>2. [SolveNext]_solveVars => [Next]_vars
  <2> SUFFICES ASSUME [SolveNext]_solveVars PROVE [Next]_vars
    OBVIOUS
  <2>1. CASE SolveNext
    BY <2>1 DEF SolveNext, SearchIdle
  <2>2. CASE UNCHANGED solveVars
    BY <2>2 DEF solveVars
  <2> QED
    BY <2>1, <2>2
<1>3. [SolveNext]_solveVars => [KernelNext]_kernelVars
  <2> SUFFICES ASSUME [SolveNext]_solveVars PROVE [KernelNext]_kernelVars
    OBVIOUS
  <2>1. CASE SolveNext
    BY <2>1 DEF SolveNext, KernelIdle
  <2>2. CASE UNCHANGED solveVars
    BY <2>2 DEF solveVars
  <2> QED
    BY <2>1, <2>2
<1> QED
  BY <1>1, <1>2, <1>3, PTL DEF SolveSpec, Spec, KernelSpec

\* The search looks through what is enumerated for its specification, and raises
\* on the first candidate whose macros cannot be expanded.
OrderKept ==
    /\ order = OrderOf[spec]
    /\ stage = "synthesize" /\ pc \in {"search", "verify", "done"} =>
          \A i \in 1..(next - 1) : order[i] # NoExpansion
    /\ pc \in {"verify", "done"} =>
          next \in DOMAIN Candidates /\ program = Candidate /\ Candidate # NoExpansion
    /\ pc = "failed" => \A i \in DOMAIN order : i <= Budget => order[i] # NoExpansion

\* At first nothing has been tried.
LEMMA OrderInit == SolveInit => OrderKept
  BY DEF SolveInit, Init, OrderKept

\* A step that gives up a candidate has expanded it.
LEMMA OrderTryNext ==
    ASSUME IInv, OrderKept, Trying, TryNext
    PROVE  OrderKept'
<1> USE DEF Trying, TryNext
<1>1. /\ next \in Nat /\ next >= 1 /\ next' = next + 1 /\ Candidate # NoExpansion
      /\ UNCHANGED <<spec, order, stage>> /\ Budget' = Budget
  BY DEF IInv, TypeOK, task, Budget
<1>2. stage = "synthesize" => \A i \in 1..next : order[i] # NoExpansion
  <2> SUFFICES ASSUME stage = "synthesize", NEW i \in 1..next PROVE order[i] # NoExpansion
    OBVIOUS
  <2>1. CASE i = next
    BY <1>1, <2>1 DEF Candidate, Candidates
  <2>2. CASE i # next
    BY <1>1, <2>2 DEF OrderKept
  <2> QED
    BY <2>1, <2>2
<1>3. ASSUME pc' = "failed", NEW i \in DOMAIN order, i <= Budget
      PROVE  order[i] # NoExpansion
  <2>1. stage = "synthesize" /\ next >= spec.maxPrograms
    BY <1>3 DEF OutOfBudget
  <2>2. spec.maxPrograms \in Int /\ DOMAIN order = 1..Len(order) /\ Len(order) \in Nat
    BY SpecAssumption, OrderAssumption DEF IInv, Lists
  <2>3. i \in 1..next
    BY <1>1, <1>3, <2>1, <2>2 DEF Budget
  <2> QED
    BY <1>2, <2>1, <2>3
<1> QED
  BY <1>1, <1>2, <1>3 DEF OrderKept

\* Every step of the search keeps the order, and passes over expanded programs only.
LEMMA OrderStep ==
    ASSUME IInv, OrderKept, [Next]_vars
    PROVE  OrderKept'
<1>1. CASE Prepare
  BY <1>1 DEF Prepare, OrderKept, task
<1>2. CASE PrepareRaises \/ ExpandRaises
  BY <1>2 DEF PrepareRaises, ExpandRaises, OrderKept, task
<1>3. CASE Reject
  BY <1>3, OrderTryNext DEF Reject
<1>4. CASE Accept
  BY <1>4 DEF Accept, Trying, Candidate, Candidates, OrderKept, task
<1>5. CASE Exhausted
  <2>1. UNCHANGED <<spec, order, next>> /\ pc' \in {"prepare", "failed"}
    BY <1>5 DEF Exhausted, task
  <2>2. ASSUME pc' = "failed", NEW i \in DOMAIN order
        PROVE  order[i] # NoExpansion
    <3>1. stage = "synthesize" /\ Candidates = order /\ pc = "search" /\ next \notin DOMAIN Candidates
      BY <1>5, <2>2 DEF Exhausted, IInv, TypeOK, Candidates
    <3>2. next > Len(Candidates) /\ i \in 1..Len(Candidates) /\ next \in Nat /\ Len(Candidates) \in Nat
      BY <3>1, CandidatesListed DEF IInv, TypeOK
    <3>3. i \in 1..(next - 1)
      BY <3>2
    <3> QED
      BY <3>1, <3>3 DEF OrderKept
  <2> QED
    BY <2>1, <2>2 DEF OrderKept
<1>6. CASE \E k \in Trials : Refute(k)
  BY <1>6, OrderTryNext DEF Refute
<1>7. CASE \E k \in Trials : FuzzRaises(k)
  BY <1>7 DEF FuzzRaises, OrderKept, task
<1>8. CASE \E drawn \in Draws : Verify(drawn)
  BY <1>8 DEF Verify, Candidate, Candidates, OrderKept, search, task
<1>9. CASE \E drawn \in Draws : VerifyRaises(drawn)
  BY <1>9 DEF VerifyRaises, OrderKept, search, task
<1>10. CASE UNCHANGED vars
  BY <1>10 DEF vars, task, search, OrderKept, Candidate, Candidates, Budget
<1> QED
  BY <1>1, <1>2, <1>3, <1>4, <1>5, <1>6, <1>7, <1>8, <1>9, <1>10 DEF Next

\* A program satisfies the specification exactly if its expression does.
LEMMA ExpressionDecides ==
    ASSUME Lists, OrderKept, NEW p \in Met(spec, order)
    PROVE  Satisfies(Body[p]) <=> Consistent(p)
<1> DEFINE Gives1(in) == IF \E i \in DOMAIN in : spec.params[i] = "Int" /\ in[i].bool
                         THEN Raises ELSE Interpreted(Body[p], in)
<1>1. spec \in Specs /\ fuzz \in [1..spec.trials -> TypedInputs] /\ order = OrderOf[spec]
  BY DEF Lists, OrderKept
<1>2. ASSUME NEW in \in Given(spec)
      PROVE  Gives1(in) = Evaluate(p, in)
  BY <1>1, InterpreterAssumption DEF Evaluate
<1>3. \A k \in Trials : fuzz[k] \in Given(spec)
  BY <1>1 DEF Trials, Given, TypedInputs
<1>4. \A i \in DOMAIN spec.examples : Expected(spec.examples[i]).in \in Given(spec)
  BY DEF Expected, Given
<1> HIDE DEF Gives1
<1>5. /\ \A i \in DOMAIN spec.examples :
            Gives1(Expected(spec.examples[i]).in) = Evaluate(p, Expected(spec.examples[i]).in)
      /\ \A k \in Trials : Gives1(fuzz[k]) = Evaluate(p, fuzz[k])
  BY <1>2, <1>3, <1>4
<1>6. Satisfies(Body[p]) <=>
        /\ \A i \in DOMAIN spec.examples :
              LET ex == Expected(spec.examples[i]) IN ex.out # Missing /\ Gives1(ex.in) = ex.out
        /\ \A k \in Trials : ~OracleRaises(fuzz[k]) /\ Gives1(fuzz[k]) = Evaluate(spec.oracle, fuzz[k])
  BY DEF Satisfies, Gives1
<1> QED
  BY <1>5, <1>6 DEF Consistent, Agrees, Survives, Differs

\* Each expression of the language has a position among the candidates.
LEMMA ExpressionListed ==
    ASSUME spec \in Specs, order = OrderOf[spec],
           NEW e \in Grammar(spec.output, spec.params, spec.depth, spec.macros)
    PROVE  \E i \in DOMAIN order : Expression(order[i]) = Expands(e, spec.macros)
<1>1. PICK bodies : bodies = EnumeratePrograms(spec.output, spec.params, spec.depth, spec.macros)
  OBVIOUS
<1>2. Listed(bodies) /\ e \in ToSet(bodies)
  BY <1>1, SpecAssumption, ShapeAssumption, EnumerationComplete DEF Types
<1>3. PICK f : f = [i \in DOMAIN bodies |-> Expands(bodies[i], spec.macros)]
  OBVIOUS
<1>4. /\ f = [i \in DOMAIN bodies |-> f[i]]
      /\ \A i \in DOMAIN bodies : f[i] = Expands(bodies[i], spec.macros)
  BY <1>3
<1>5. Enumerated(spec) = f
  <2>1. Listed(f)
    BY <1>2, <1>4, MappedListed
  <2> QED
    BY <1>1, <1>3, <2>1, ComputedSame DEF Enumerated
<1>6. PICK i \in DOMAIN bodies : bodies[i] = e
  BY <1>2 DEF ToSet
<1>7. [j \in DOMAIN order |-> Expression(order[j])] = f
  BY <1>5, EnumerationAssumption
<1>8. DOMAIN order = DOMAIN bodies /\ Expression(order[i]) = f[i]
  BY <1>4, <1>6, <1>7
<1> QED
  BY <1>4, <1>6, <1>8

\* The candidates that are programs are among those met.
LEMMA CandidateMet ==
    ASSUME Lists, NEW i \in DOMAIN order, order[i] # NoExpansion
    PROVE  order[i] \in Met(spec, order)
<1>1. order \in Seq(Programs \cup {NoExpansion})
  BY OrderAssumption DEF Lists
<1>2. order[i] \in Programs
  BY <1>1
<1>3. order[i] # NoProgram
  BY <1>2, ProgramAssumption
<1> QED
  BY <1>3 DEF Met, ToSet

\* So a search that fails has tried every expression of the language.
LEMMA NothingLeftOut ==
    ASSUME IInv, OrderKept
    PROVE  NothingOverlooked
<1> SUFFICES ASSUME pc = "failed", Budget >= Len(order),
                    NEW e \in Grammar(spec.output, spec.params, spec.depth, spec.macros)
             PROVE  ~Satisfies(Expands(e, spec.macros))
  BY DEF NothingOverlooked
<1>1. Lists /\ spec \in Specs /\ order = OrderOf[spec]
  BY DEF IInv, Lists, OrderKept
<1>2. PICK i \in DOMAIN order : Expression(order[i]) = Expands(e, spec.macros)
  BY <1>1, ExpressionListed
<1>3. i <= Budget
  <2>1. order \in Seq(Programs \cup {NoExpansion})
    BY <1>1, OrderAssumption DEF Lists
  <2>2. i \in 1..Len(order) /\ Len(order) \in Nat
    BY <2>1
  <2>3. Budget \in Int
    BY <1>1, SpecAssumption DEF Budget
  <2> QED
    BY <2>2, <2>3
<1>4. order[i] # NoExpansion /\ ~Consistent(order[i])
  BY <1>3 DEF OrderKept, IInv, FindsFirst
<1>5. Expands(e, spec.macros) = Body[order[i]]
  BY <1>2, <1>4 DEF Expression
<1> QED
  BY <1>1, <1>4, <1>5, CandidateMet, ExpressionDecides

\* A search that has tried all that it lists fails only where no expression of the
\* language, of the depth asked for or less, satisfies the specification: for any
\* operators, constants, macros and sort keys, and whatever expressions mean.
THEOREM NothingIsOverlooked == SolveSpec => []NothingOverlooked
<1>1. SolveInit => OrderKept
  BY OrderInit
<1>2. IInv /\ OrderKept /\ [Next]_vars => OrderKept'
  BY OrderStep
<1>3. SolveSpec => []IInv /\ [][Next]_vars
  BY EpisodeComposes, Inductive, PTL DEF Spec
<1>4. IInv /\ OrderKept => NothingOverlooked
  BY NothingLeftOut
<1> QED
  BY <1>1, <1>2, <1>3, <1>4, PTL DEF SolveSpec

\* What the search answers satisfies the specification, and what was enumerated
\* before it does not.
AnswerIsFirst ==
    pc \in {"verify", "done"} =>
        /\ Satisfies(Body[program])
        /\ stage = "synthesize" =>
              /\ program = order[next]
              /\ \A i \in 1..(next - 1) : ~Satisfies(Body[order[i]])

\* So an answer is an expression, and those before it were expanded and refused.
LEMMA AnswerMet ==
    ASSUME IInv, OrderKept
    PROVE  AnswerIsFirst
<1> SUFFICES ASSUME pc \in {"verify", "done"} PROVE AnswerIsFirst
  BY DEF AnswerIsFirst
<1>1. Lists /\ next \in DOMAIN Candidates /\ program = Candidates[next] /\ program # NoExpansion
  BY DEF IInv, OrderKept, Candidate
<1>2. program \in Programs /\ program # NoProgram
  <2>1. Candidates \in Seq(Programs \cup {NoExpansion})
    BY <1>1, CandidatesListed
  <2> QED
    BY <1>1, <2>1, ProgramAssumption
<1>3. program \in Met(spec, order)
  BY <1>1, <1>2 DEF Met, Candidates, ToSet
<1>4. Satisfies(Body[program])
  BY <1>1, <1>2, <1>3, ExpressionDecides DEF IInv, FindsFirst
<1>5. ASSUME stage = "synthesize", NEW i \in 1..(next - 1)
      PROVE  ~Satisfies(Body[order[i]])
  <2>1. order[i] # NoExpansion /\ ~Consistent(order[i])
    BY <1>5 DEF OrderKept, IInv, FindsFirst
  <2>2. i \in DOMAIN order
    <3>1. next \in 1..Len(Candidates) /\ Len(Candidates) \in Nat /\ Candidates = order
      BY <1>1, <1>5, CandidatesListed DEF Candidates
    <3>2. i \in 1..Len(Candidates)
      BY <3>1
    <3> QED
      BY <1>1, <3>1, <3>2, CandidatesListed
  <2> QED
    BY <1>1, <2>1, <2>2, CandidateMet, ExpressionDecides
<1> QED
  BY <1>1, <1>4, <1>5 DEF AnswerIsFirst, Candidates

\* The answer of a search is the first of the enumerated expressions that gives
\* what the examples and the oracle ask for.
THEOREM AnswerIsTheFirst == SolveSpec => []AnswerIsFirst
<1>1. SolveInit => OrderKept
  BY OrderInit
<1>2. IInv /\ OrderKept /\ [Next]_vars => OrderKept'
  BY OrderStep
<1>3. SolveSpec => []IInv /\ [][Next]_vars
  BY EpisodeComposes, Inductive, PTL DEF Spec
<1>4. IInv /\ OrderKept => AnswerIsFirst
  BY AnswerMet
<1> QED
  BY <1>1, <1>2, <1>3, <1>4, PTL DEF SolveSpec
=============================================================================
