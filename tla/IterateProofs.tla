--------------------------- MODULE IterateProofs ---------------------------
(***************************************************************************)
(* Proofs about Iterate.                                                   *)
(*                                                                         *)
(* RunThrough takes its step as an operator, and a lemma that assumes an   *)
(* operator cannot be used; so the step, and what is known of its values,  *)
(* are the constants of this module, which the modules that use it         *)
(* instantiate once per run.  RunRule is the induction over the elements   *)
(* of a run; the lemmas after it compare runs with each other and with     *)
(* the runs over the first elements.  LimitIsHull, the rule for Limit,     *)
(* does not depend on the constants.                                       *)
(***************************************************************************)
EXTENDS Iterate, WellFoundedInduction, TLAPS

CONSTANTS
  step(_, _, _),   \* a step of a run, with what it depends on as first argument
  known(_, _, _)   \* what is known, under a hypothesis, of the value after n steps

\* A set of natural numbers has a least element.
LEMMA LeastNat ==
  ASSUME NEW T \in SUBSET Nat, T # {}
  PROVE  \E x \in T : \A y \in T : x <= y
<1>1. PICK x \in T : \A y \in T : ~(<<y, x>> \in OpToRel(<, Nat))
  BY NatLessThanWellFounded, WFMin
<1>2. \A y \in T : ~(y < x)
  BY <1>1 DEF OpToRel
<1> QED
  BY <1>2

(***************************************************************************)
(* RunThrough.  If known(hyp, 0, _) holds of the start, and the n-th step  *)
(* leads from what is known after n - 1 steps to what is known after n,    *)
(* then what is known after the last one holds of the result.              *)
(***************************************************************************)
Run(env, start, seq) ==
  LET perform(value, x) == step(env, value, x) IN RunThrough(perform, start, seq)

\* what RunThrough calls after
IsAfter(env, start, seq, len, a) ==
  a = [n \in 0 .. len |->
         IF n = 0 THEN start
         ELSE CHOOSE r \in {step(env, value, seq[n]) : value \in {a[n - 1]}} : TRUE]

LEMMA AfterSteps ==
  ASSUME NEW env, NEW start, NEW seq, NEW len \in Nat, NEW a, IsAfter(env, start, seq, len, a)
  PROVE  /\ a[0] = start
         /\ \A n \in 1 .. len : a[n] = step(env, a[n - 1], seq[n])
<1>1. \A x, v : (CHOOSE r \in {step(env, value, x) : value \in {v}} : TRUE) = step(env, v, x)
  OBVIOUS
<1>2. \A n \in 0 .. len :
        a[n] = IF n = 0 THEN start
               ELSE CHOOSE r \in {step(env, value, seq[n]) : value \in {a[n - 1]}} : TRUE
  BY DEF IsAfter
<1> QED
  BY <1>1, <1>2

LEMMA AfterExists ==
  ASSUME NEW env, NEW start, NEW seq, NEW len \in Nat
  PROVE  \E a : IsAfter(env, start, seq, len, a)
<1> DEFINE Upto(k) == \E a : IsAfter(env, start, seq, k, a)
           Bad == {k \in Nat : ~Upto(k)}
<1> SUFFICES ASSUME Bad # {} PROVE FALSE
  OBVIOUS
<1>1. PICK k \in Bad : \A j \in Bad : k <= j
  <2>1. Bad \in SUBSET Nat
    OBVIOUS
  <2> HIDE DEF Bad
  <2> QED
    BY <2>1, LeastNat
<1>2. Upto(0)
  <2>1. IsAfter(env, start, seq, 0, [n \in 0 .. 0 |-> start])
    BY DEF IsAfter
  <2> QED
    BY <2>1
<1>3. k \in Nat /\ k # 0 /\ k - 1 \in Nat /\ k - 1 \notin Bad
  BY <1>1, <1>2
<1>4. PICK a : IsAfter(env, start, seq, k - 1, a)
  BY <1>3
<1> DEFINE Step(n, v) == CHOOSE r \in {step(env, value, seq[n]) : value \in {v}} : TRUE
           b == [n \in 0 .. k |-> IF n = k THEN Step(k, a[k - 1]) ELSE a[n]]
<1>5. \A n \in 0 .. k - 1 : a[n] = IF n = 0 THEN start ELSE Step(n, a[n - 1])
  BY <1>4 DEF IsAfter
<1> HIDE DEF Step
<1>6. ASSUME NEW n \in 0 .. k PROVE b[n] = IF n = 0 THEN start ELSE Step(n, b[n - 1])
  <2>1. CASE n = k
    BY <1>3, <2>1
  <2>2. CASE n # k
    <3>1. n \in 0 .. k - 1 /\ (n # 0 => n - 1 \in 0 .. k - 1 /\ n - 1 # k)
      BY <1>3, <2>2
    <3> QED
      BY <1>3, <1>5, <2>2, <3>1
  <2> QED
    BY <2>1, <2>2
<1>7. b = [n \in 0 .. k |-> b[n]]
  OBVIOUS
<1> HIDE DEF b
<1>8. b = [n \in 0 .. k |-> IF n = 0 THEN start ELSE Step(n, b[n - 1])]
  BY <1>6, <1>7
<1>9. IsAfter(env, start, seq, k, b)
  BY <1>8 DEF IsAfter, Step
<1> QED
  BY <1>1, <1>9

\* a starts at start and goes through len steps of the run
Goes(env, start, seq, len, a) ==
  a[0] = start /\ \A n \in 1 .. len : a[n] = step(env, a[n - 1], seq[n])

\* A run goes through values that follow its steps.
LEMMA RunValues ==
  ASSUME NEW env, NEW start, NEW seq, Len(seq) \in Nat
  PROVE  \E a : Goes(env, start, seq, Len(seq), a) /\ Run(env, start, seq) = a[Len(seq)]
<1>1. PICK a : IsAfter(env, start, seq, Len(seq), a) /\ Run(env, start, seq) = a[Len(seq)]
  <2> DEFINE Is(a) == IsAfter(env, start, seq, Len(seq), a)
  <2>1. Is(CHOOSE a : Is(a))
    BY AfterExists
  <2>2. Run(env, start, seq) = (CHOOSE a : Is(a))[Len(seq)]
    BY DEF Run, RunThrough, IsAfter
  <2> HIDE DEF Is
  <2>3. PICK a : Is(a) /\ Run(env, start, seq) = a[Len(seq)]
    BY <2>1, <2>2
  <2> QED
    BY <2>3 DEF Is
<1>2. Goes(env, start, seq, Len(seq), a)
  BY <1>1, AfterSteps DEF Goes
<1> QED
  BY <1>1, <1>2

LEMMA RunRule ==
  ASSUME NEW env, NEW start, NEW seq, Len(seq) \in Nat,
         NEW hyp, known(hyp, 0, start),
         \A n \in 1 .. Len(seq) : \A x :
           known(hyp, n - 1, x) => known(hyp, n, step(env, x, seq[n]))
  PROVE  known(hyp, Len(seq), Run(env, start, seq))
<1>1. PICK a : Goes(env, start, seq, Len(seq), a) /\ Run(env, start, seq) = a[Len(seq)]
  BY RunValues
<1>2. a[0] = start /\ \A n \in 1 .. Len(seq) : a[n] = step(env, a[n - 1], seq[n])
  BY <1>1 DEF Goes
<1> DEFINE Bad == {n \in 0 .. Len(seq) : ~known(hyp, n, a[n])}
<1> SUFFICES ASSUME Bad # {} PROVE FALSE
  BY <1>1
<1>3. PICK n \in Bad : \A j \in Bad : n <= j
  <2>1. Bad \in SUBSET Nat
    OBVIOUS
  <2> HIDE DEF Bad
  <2> QED
    BY <2>1, LeastNat
<1>4. n # 0 /\ n \in 1 .. Len(seq) /\ n - 1 \in 0 .. Len(seq)
  BY <1>2, <1>3
<1>5. n - 1 \notin Bad
  BY <1>3, <1>4
<1> QED
  BY <1>2, <1>3, <1>4, <1>5

\* The values a run goes through are those of any function that follows its steps.
LEMMA AfterUnique ==
  ASSUME NEW env, NEW start, NEW seq, NEW len \in Nat, NEW a, Goes(env, start, seq, len, a),
         NEW b, Goes(env, start, seq, len, b)
  PROVE  a[len] = b[len]
<1>0. /\ a[0] = start /\ \A n \in 1 .. len : a[n] = step(env, a[n - 1], seq[n])
      /\ b[0] = start /\ \A n \in 1 .. len : b[n] = step(env, b[n - 1], seq[n])
  BY DEF Goes
<1> DEFINE Bad == {n \in 0 .. len : a[n] # b[n]}
<1> SUFFICES ASSUME Bad # {} PROVE FALSE
  OBVIOUS
<1>1. PICK n \in Bad : \A j \in Bad : n <= j
  <2>1. Bad \in SUBSET Nat
    OBVIOUS
  <2> HIDE DEF Bad
  <2> QED
    BY <2>1, LeastNat
<1>2. n # 0 /\ n \in 1 .. len /\ n - 1 \in 0 .. len /\ n - 1 \notin Bad
  BY <1>0, <1>1
<1>3. a[n - 1] = b[n - 1]
  BY <1>2
<1> QED
  BY <1>0, <1>1, <1>2, <1>3

\* So a run returns the last value of any such function.
LEMMA RunIs ==
  ASSUME NEW env, NEW start, NEW seq, Len(seq) \in Nat,
         NEW b, Goes(env, start, seq, Len(seq), b)
  PROVE  Run(env, start, seq) = b[Len(seq)]
BY RunValues, AfterUnique

\* the run over the first n elements
Upto(env, start, seq, n) == Run(env, start, SubSeq(seq, 1, n))

\* The values a run goes through are those of the runs over the first elements.
LEMMA RunPrefix ==
  ASSUME NEW env, NEW start, NEW S, NEW seq \in Seq(S)
  PROVE  \E a : /\ Goes(env, start, seq, Len(seq), a)
                /\ \A n \in 0 .. Len(seq) : Upto(env, start, seq, n) = a[n]
<1>0. Len(seq) \in Nat
  OBVIOUS
<1>1. PICK a : Goes(env, start, seq, Len(seq), a)
  BY <1>0, RunValues
<1>2. a[0] = start /\ \A n \in 1 .. Len(seq) : a[n] = step(env, a[n - 1], seq[n])
  BY <1>1 DEF Goes
<1>3. ASSUME NEW n \in 0 .. Len(seq) PROVE Upto(env, start, seq, n) = a[n]
  <2>1. PICK s : s = SubSeq(seq, 1, n)
    OBVIOUS
  <2>2. Len(s) = n /\ Len(s) \in Nat /\ \A i \in 1 .. n : s[i] = seq[i] /\ i \in 1 .. Len(seq)
    BY <2>1
  <2>3. Goes(env, start, s, Len(s), a)
    BY <1>2, <2>2 DEF Goes
  <2>4. Run(env, start, s) = a[Len(s)]
    BY <2>2, <2>3, RunIs
  <2> QED
    BY <2>1, <2>2, <2>4 DEF Upto
<1> QED
  BY <1>1, <1>3

\* A run over no elements is its start, one over all of them is the run.
LEMMA RunUpto ==
  ASSUME NEW env, NEW start, NEW S, NEW seq \in Seq(S)
  PROVE  Upto(env, start, seq, 0) = start /\ Upto(env, start, seq, Len(seq)) = Run(env, start, seq)
<1>0. Len(seq) \in Nat
  OBVIOUS
<1>1. PICK a : /\ Goes(env, start, seq, Len(seq), a)
               /\ \A n \in 0 .. Len(seq) : Upto(env, start, seq, n) = a[n]
  BY RunPrefix
<1>2. a[0] = start
  BY <1>1 DEF Goes
<1>3. SubSeq(seq, 1, Len(seq)) = seq
  OBVIOUS
<1>4. Upto(env, start, seq, Len(seq)) = Run(env, start, seq)
  BY <1>3 DEF Upto
<1> QED
  BY <1>0, <1>1, <1>2, <1>4

\* One over an element more takes a step more.
LEMMA RunLonger ==
  ASSUME NEW env, NEW start, NEW S, NEW seq \in Seq(S), NEW n \in 1 .. Len(seq)
  PROVE  Upto(env, start, seq, n) = step(env, Upto(env, start, seq, n - 1), seq[n])
<1>1. PICK a : /\ Goes(env, start, seq, Len(seq), a)
               /\ \A k \in 0 .. Len(seq) : Upto(env, start, seq, k) = a[k]
  BY RunPrefix
<1>2. a[n] = step(env, a[n - 1], seq[n])
  BY <1>1 DEF Goes
<1>3. n \in 0 .. Len(seq) /\ n - 1 \in 0 .. Len(seq)
  OBVIOUS
<1> QED
  BY <1>1, <1>2, <1>3

\* Runs whose steps agree, element by element, agree.
LEMMA RunSame ==
  ASSUME NEW env, NEW env2, NEW start, NEW seq, NEW seq2, Len(seq) \in Nat, Len(seq2) = Len(seq),
         \A n \in 1 .. Len(seq) : \A x : step(env, x, seq[n]) = step(env2, x, seq2[n])
  PROVE  Run(env, start, seq) = Run(env2, start, seq2)
<1>1. PICK a : Goes(env, start, seq, Len(seq), a) /\ Run(env, start, seq) = a[Len(seq)]
  BY RunValues
<1>2. Goes(env2, start, seq2, Len(seq2), a)
  BY <1>1 DEF Goes
<1>3. Len(seq2) \in Nat
  OBVIOUS
<1>4. Run(env2, start, seq2) = a[Len(seq2)]
  BY <1>2, <1>3, RunIs
<1> QED
  BY <1>1, <1>4

\* An element at the end takes a step at the end.
LEMMA RunAppend ==
  ASSUME NEW env, NEW start, NEW S, NEW seq \in Seq(S), NEW x \in S
  PROVE  Run(env, start, Append(seq, x)) = step(env, Run(env, start, seq), x)
<1>1. PICK s : s = Append(seq, x)
  OBVIOUS
<1>2. /\ s \in Seq(S) /\ s[Len(s)] = x /\ Len(s) \in 1 .. Len(s)
      /\ Len(s) - 1 = Len(seq) /\ SubSeq(s, 1, Len(seq)) = seq
  BY <1>1
<1>3. Upto(env, start, s, Len(s)) = Run(env, start, s)
  BY <1>2, RunUpto
<1>4. Upto(env, start, s, Len(s)) = step(env, Upto(env, start, s, Len(s) - 1), s[Len(s)])
  BY <1>2, RunLonger
<1>5. Upto(env, start, s, Len(seq)) = Run(env, start, seq)
  BY <1>2 DEF Upto
<1> QED
  BY <1>1, <1>2, <1>3, <1>4, <1>5

-----------------------------------------------------------------------------
(***************************************************************************)
(* Limit.  When every round adds to a set of elements of B, and more to a  *)
(* larger one, what X ends as is what is in every superset of X that a     *)
(* round leaves as it is (Hull).                                           *)
(***************************************************************************)
Growing(B, grow) ==
  /\ grow \in [SUBSET B -> SUBSET B]
  /\ \A X \in SUBSET B : X \subseteq grow[X]
  /\ \A X, Z \in SUBSET B : X \subseteq Z => grow[X] \subseteq grow[Z]

Hull(B, grow, X) ==
  {b \in B : \A Z \in SUBSET B : X \subseteq Z /\ grow[Z] = Z => b \in Z}

\* R takes the rounds of Limit
Rounds(B, grow, R) ==
  R = [X \in SUBSET B |-> IF grow[X] = X THEN X ELSE R[grow[X]]]

StrictSubsets(B) ==
  {ss \in (SUBSET B) \X (SUBSET B) : ss[1] \subseteq ss[2] /\ ss[1] # ss[2]}

\* The hull of a set is that of its next round, so hulls take the rounds of Limit.
LEMMA HullIsRounds ==
  ASSUME NEW B, NEW grow, Growing(B, grow)
  PROVE  Rounds(B, grow, [X \in SUBSET B |-> Hull(B, grow, X)])
<1>1. ASSUME NEW X \in SUBSET B
      PROVE  grow[X] \in SUBSET B /\ X \subseteq grow[X]
             /\ Hull(B, grow, X) = IF grow[X] = X THEN X ELSE Hull(B, grow, grow[X])
  <2>1. /\ grow[X] \in SUBSET B /\ X \subseteq grow[X]
        /\ \A Z \in SUBSET B : X \subseteq Z => grow[X] \subseteq grow[Z]
    BY DEF Growing
  <2>2. CASE grow[X] = X
    BY <2>1, <2>2 DEF Hull
  <2>3. CASE grow[X] # X
    <3>1. \A Z \in SUBSET B : grow[Z] = Z => (X \subseteq Z <=> grow[X] \subseteq Z)
      BY <2>1
    <3>2. Hull(B, grow, X) = Hull(B, grow, grow[X])
      BY <3>1 DEF Hull
    <3> QED
      BY <2>1, <2>3, <3>2
  <2> QED
    BY <2>1, <2>2, <2>3
<1> DEFINE H == [X \in SUBSET B |-> Hull(B, grow, X)]
<1>2. \A X \in SUBSET B : H[X] = Hull(B, grow, X)
  OBVIOUS
<1>3. H = [X \in SUBSET B |-> H[X]]
  OBVIOUS
<1> HIDE DEF H
<1>4. \A X \in SUBSET B : H[X] = IF grow[X] = X THEN X ELSE H[grow[X]]
  BY <1>1, <1>2
<1>5. Rounds(B, grow, H)
  BY <1>3, <1>4 DEF Rounds
<1> QED
  BY <1>5 DEF H

\* The rounds have one fixed point only: of the sets where a second one differs, a
\* largest would be its own next round, or have a larger one where they differ too.
LEMMA RoundsUnique ==
  ASSUME NEW B, IsWellFoundedOn(StrictSubsets(B), SUBSET B), NEW grow, Growing(B, grow),
         NEW R, Rounds(B, grow, R), NEW X \in SUBSET B
  PROVE  R[X] = Hull(B, grow, X)
<1> DEFINE Bad == {Y \in SUBSET B : R[B \ Y] # Hull(B, grow, B \ Y)}
<1>0. B \ (B \ X) = X
  OBVIOUS
<1> SUFFICES Bad = {}
  <2>1. B \ X \in SUBSET B
    OBVIOUS
  <2> QED
    BY <1>0, <2>1
<1> SUFFICES ASSUME Bad # {} PROVE FALSE
  OBVIOUS
<1>2. PICK Y \in Bad : \A Z \in Bad : ~(<<Z, Y>> \in StrictSubsets(B))
  <2> HIDE DEF Bad
  <2>1. Bad \subseteq SUBSET B
    BY DEF Bad
  <2> QED
    BY <2>1, WFMin
<1>3. PICK W, V : W = B \ Y /\ V = grow[W]
  OBVIOUS
<1>4. W \in SUBSET B /\ W \subseteq V /\ V \in SUBSET B
  BY <1>3 DEF Growing
<1>5. R[W] = IF V = W THEN W ELSE R[V]
  <2>1. \A Z \in SUBSET B : R[Z] = IF grow[Z] = Z THEN Z ELSE R[grow[Z]]
    BY DEF Rounds
  <2> QED
    BY <1>3, <1>4, <2>1
<1>6. Hull(B, grow, W) = IF V = W THEN W ELSE Hull(B, grow, V)
  <2>1. PICK H : H = [Z \in SUBSET B |-> Hull(B, grow, Z)] /\ Rounds(B, grow, H)
    BY HullIsRounds
  <2>2. \A Z \in SUBSET B : H[Z] = IF grow[Z] = Z THEN Z ELSE H[grow[Z]]
    BY <2>1 DEF Rounds
  <2>3. \A Z \in SUBSET B : H[Z] = Hull(B, grow, Z)
    BY <2>1
  <2> QED
    BY <1>3, <1>4, <2>2, <2>3
<1>7. V # W /\ R[V] # Hull(B, grow, V)
  BY <1>2, <1>3, <1>5, <1>6
<1>8. B \ V \in Bad
  <2>1. B \ (B \ V) = V
    BY <1>4
  <2> QED
    BY <1>7, <2>1
<1>9. B \ V \subseteq Y /\ B \ V # Y
  BY <1>2, <1>3, <1>4, <1>7
<1> QED
  BY <1>2, <1>8, <1>9 DEF StrictSubsets

LEMMA LimitIsHull ==
  ASSUME NEW B, IsWellFoundedOn(StrictSubsets(B), SUBSET B), NEW grow, Growing(B, grow),
         NEW X \in SUBSET B
  PROVE  Limit(grow)[X] = Hull(B, grow, X)
<1>1. DOMAIN grow = SUBSET B
  BY DEF Growing
<1> DEFINE IsR(R) == R = [Y \in DOMAIN grow |-> IF grow[Y] = Y THEN Y ELSE R[grow[Y]]]
<1>2. PICK H : IsR(H)
  <2>1. PICK H : Rounds(B, grow, H)
    BY HullIsRounds
  <2>2. IsR(H)
    BY <1>1, <2>1 DEF Rounds
  <2> QED
    BY <2>2
<1>3. IsR(CHOOSE R : IsR(R))
  BY <1>2
<1>4. Limit(grow) = (CHOOSE R : IsR(R))
  BY DEF Limit
<1>5. PICK R : IsR(R) /\ Limit(grow) = R
  BY <1>3, <1>4
<1>6. Rounds(B, grow, R)
  BY <1>1, <1>5 DEF Rounds
<1> QED
  BY <1>5, <1>6, RoundsUnique
=============================================================================
