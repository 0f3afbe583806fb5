---------------------------- MODULE UseDefProofs ----------------------------
(***************************************************************************)
(* Proofs about UseDef, for any set of values and any number of operands.  *)
(*                                                                         *)
(* The inductive invariant states the agreement of the two lists point by  *)
(* point (Mirror), and what a destruction relies on: a value that does not *)
(* exist has no operands (DeadEmpty), and the value being destroyed has    *)
(* none any more (JobOK).                                                  *)
(***************************************************************************)
EXTENDS UseDef, TLAPS

Mirror ==
  \A v \in Values, u \in Users, i \in Nat :
    <<u, i>> \in uses[v] <=> i \in DOMAIN operands[u] /\ operands[u][i] = v

OperandsAlive ==
  \A u \in Users : \A i \in DOMAIN operands[u] : operands[u][i] \in alive \cup {Null}

DeadEmpty == \A u \in Users : u \notin alive => operands[u] = << >>

JobOK ==
  job # NoJob =>
    /\ job.from \in alive
    /\ job.to \in alive \cup {Null}
    /\ job.from # job.to
    /\ job.dying => job.from \in Users /\ operands[job.from] = << >>

Inv == TypeOK /\ Mirror /\ OperandsAlive /\ DeadEmpty /\ JobOK

-----------------------------------------------------------------------------
\* A job in progress has a value to replace: only NoJob has Null there.
LEMMA JobFacts ==
  ASSUME TypeOK, job # NoJob
  PROVE  job \in [from : Values, to : Values \cup {Null}, dying : BOOLEAN]
BY DEF TypeOK, Jobs

\* Replacing an operand keeps a list a list of values.
LEMMA ListTypes ==
  ASSUME NEW S, NEW s \in Seq(S), NEW v \in S
  PROVE  \A i \in DOMAIN s : [s EXCEPT ![i] = v] \in Seq(S)
OBVIOUS

-----------------------------------------------------------------------------
\* set_operand, called by a pass or by the loop of replace_all_use_with, keeps
\* the two lists in agreement, whether or not the new value is the old one.
LEMMA RewriteKeepsMirror ==
  ASSUME TypeOK, Mirror, NEW u \in Users, NEW i, NEW v \in Values \cup {Null},
         Rewrite(u, i, v)
  PROVE  /\ operands' \in [Users -> Seq(Values \cup {Null})]
         /\ uses' \in [Values -> SUBSET (Users \X Nat)]
         /\ Mirror'
<1>1. i \in DOMAIN operands[u] /\ i \in Nat
  BY DEF TypeOK, Rewrite
<1>2. operands' \in [Users -> Seq(Values \cup {Null})]
  BY <1>1, ListTypes DEF TypeOK, Rewrite
<1>3. uses' \in [Values -> SUBSET (Users \X Nat)]
  BY <1>1 DEF TypeOK, Rewrite
<1>4. ASSUME NEW w \in Values, NEW x \in Users, NEW j \in Nat
      PROVE  <<x, j>> \in uses'[w] <=> j \in DOMAIN operands'[x] /\ operands'[x][j] = w
  <2>1. CASE x = u /\ j = i
    <3>1. operands'[x][j] = v /\ j \in DOMAIN operands'[x]
      BY <1>1, <2>1 DEF TypeOK, Rewrite
    <3>2. <<x, j>> \in uses[w] => w = operands[u][i]
      BY <2>1 DEF Mirror
    <3> QED
      BY <2>1, <3>1, <3>2 DEF Rewrite
  <2>2. CASE ~(x = u /\ j = i)
    <3>1. <<x, j>> \in uses'[w] <=> <<x, j>> \in uses[w]
      BY <2>2 DEF Rewrite
    <3>2. DOMAIN operands'[x] = DOMAIN operands[x]
      BY <1>1 DEF TypeOK, Rewrite
    <3>3. j \in DOMAIN operands[x] => operands'[x][j] = operands[x][j]
      BY <1>1, <2>2 DEF TypeOK, Rewrite
    <3> QED
      BY <3>1, <3>2, <3>3 DEF Mirror
  <2> QED
    BY <2>1, <2>2
<1> QED
  BY <1>2, <1>3, <1>4 DEF Mirror

\* What set_operand does to the operand lists, for the other conjuncts.
LEMMA RewriteOperands ==
  ASSUME TypeOK, NEW u \in Users, NEW i, NEW v, Rewrite(u, i, v)
  PROVE  \A x \in Users :
           /\ DOMAIN operands'[x] = DOMAIN operands[x]
           /\ \A j \in DOMAIN operands[x] :
                operands'[x][j] = IF x = u /\ j = i THEN v ELSE operands[x][j]
BY DEF TypeOK, Rewrite

\* remove_operand moves every later operand down by one together with its use;
\* when the removed operand differs from its right neighbour, the use it drops
\* at the end is its own.
LEMMA RemoveKeepsMirror ==
  ASSUME TypeOK, Mirror, NEW u \in Users, NEW idx \in DOMAIN operands[u], RemoveOperand(u, idx)
  PROVE  /\ operands' \in [Users -> Seq(Values \cup {Null})]
         /\ uses' \in [Values -> SUBSET (Users \X Nat)]
         /\ Mirror'
<1> DEFINE s == operands[u]
           later(v) == {i \in idx + 1 .. Len(s) : s[i] = v}
           t == [i \in 1 .. Len(s) - 1 |-> IF i < idx THEN s[i] ELSE s[i + 1]]
<1>1. s \in Seq(Values \cup {Null}) /\ idx \in 1 .. Len(s) /\ Len(s) \in Nat
  BY DEF TypeOK
<1>2. t \in Seq(Values \cup {Null})
  <2>1. Len(s) - 1 \in Nat
    BY <1>1
  <2>2. \A i \in 1 .. Len(s) - 1 : (IF i < idx THEN s[i] ELSE s[i + 1]) \in Values \cup {Null}
    BY <1>1
  <2> QED
    BY <2>1, <2>2
<1>3. operands' = [operands EXCEPT ![u] = t]
  BY DEF RemoveOperand
<1>4. operands' \in [Users -> Seq(Values \cup {Null})]
  BY <1>2, <1>3 DEF TypeOK
<1>5. \A v \in Values : uses'[v] =
        IF v = s[idx]
        THEN ((uses[v] \ {<<u, i>> : i \in later(v)}) \cup {<<u, i - 1>> : i \in later(v)})
               \ {<<u, idx>>}
        ELSE (uses[v] \ {<<u, i>> : i \in later(v)}) \cup {<<u, i - 1>> : i \in later(v)}
  BY DEF RemoveOperand
<1>6. uses' \in [Values -> SUBSET (Users \X Nat)]
  <2>1. \A v \in Values : uses'[v] \subseteq uses[v] \cup {<<u, i - 1>> : i \in later(v)}
    BY <1>5
  <2>2. \A v \in Values : {<<u, i - 1>> : i \in later(v)} \subseteq Users \X Nat
    BY <1>1
  <2>3. DOMAIN uses' = Values /\ uses' = [v \in Values |-> uses'[v]]
    BY DEF RemoveOperand
  <2>4. \A v \in Values : uses'[v] \in SUBSET (Users \X Nat)
    BY <2>1, <2>2 DEF TypeOK
  <2> QED
    BY <2>3, <2>4
<1>7. ASSUME NEW v \in Values, NEW x \in Users, NEW j \in Nat
      PROVE  <<x, j>> \in uses'[v] <=> j \in DOMAIN operands'[x] /\ operands'[x][j] = v
  <2>1. CASE x # u
    <3>1. operands'[x] = operands[x]
      BY <1>3, <2>1 DEF TypeOK
    <3>2. /\ <<x, j>> \notin {<<u, i>> : i \in later(v)}
          /\ <<x, j>> \notin {<<u, i - 1>> : i \in later(v)}
          /\ <<x, j>> # <<u, idx>>
      BY <2>1
    <3>3. <<x, j>> \in uses'[v] <=> <<x, j>> \in uses[v]
      BY <1>5, <3>2
    <3> QED
      BY <3>1, <3>3 DEF Mirror
  <2>2. CASE x = u
    <3>1. operands'[x] = t
      BY <1>3, <2>2 DEF TypeOK
    <3>2. <<x, j>> \in {<<u, i>> : i \in later(v)} <=> j \in later(v)
      BY <2>2
    <3>3. <<x, j>> \in {<<u, i - 1>> : i \in later(v)} <=> j + 1 \in later(v)
      BY <1>1, <2>2
    <3>4. <<x, j>> \in uses[v] <=> j \in 1 .. Len(s) /\ s[j] = v
      BY <1>1, <2>2 DEF Mirror
    <3>5. j \in DOMAIN t <=> j \in 1 .. Len(s) - 1
      OBVIOUS
    <3>6. CASE j < idx
      <4>1. j \notin later(v) /\ j + 1 \notin later(v) /\ <<x, j>> # <<u, idx>>
        BY <1>1, <3>6
      <4>2. <<x, j>> \in uses'[v] <=> <<x, j>> \in uses[v]
        BY <1>5, <3>2, <3>3, <4>1
      <4>3. j \in 1 .. Len(s) - 1 <=> j \in 1 .. Len(s)
        BY <1>1, <3>6
      <4>4. j \in 1 .. Len(s) - 1 => t[j] = s[j]
        BY <3>6
      <4> QED
        BY <3>1, <3>4, <3>5, <4>2, <4>3, <4>4
    <3>7. CASE j = idx
      <4>1. idx < Len(s) => s[idx] # s[idx + 1]
        BY DEF RemoveOperand, Removable
      <4>2. j \notin later(v)
        BY <1>1, <3>7
      <4>3. j + 1 \in later(v) <=> j < Len(s) /\ s[j + 1] = v
        BY <1>1, <3>7
      <4>4. <<x, j>> \in uses'[v] <=> j < Len(s) /\ s[j + 1] = v
        BY <1>1, <1>5, <2>2, <3>2, <3>3, <3>4, <3>7, <4>1, <4>2, <4>3
      <4>5. j < Len(s) => t[j] = s[j + 1]
        BY <1>1, <3>7
      <4> QED
        BY <1>1, <3>1, <3>5, <3>7, <4>4, <4>5
    <3>8. CASE j > idx
      <4>1. <<x, j>> # <<u, idx>>
        BY <1>1, <3>8
      <4>2. <<x, j>> \in uses'[v] <=>
              (j \in 1 .. Len(s) /\ s[j] = v /\ j \notin later(v)) \/ j + 1 \in later(v)
        BY <1>5, <3>2, <3>3, <3>4, <4>1
      <4>3. <<x, j>> \in uses'[v] <=> j + 1 \in 1 .. Len(s) /\ s[j + 1] = v
        BY <1>1, <3>8, <4>2
      <4>4. j \in 1 .. Len(s) - 1 => t[j] = s[j + 1]
        BY <1>1, <3>8
      <4> QED
        BY <1>1, <3>1, <3>5, <3>8, <4>3, <4>4
    <3> QED
      BY <1>1, <3>6, <3>7, <3>8
  <2> QED
    BY <2>1, <2>2
<1> QED
  BY <1>4, <1>6, <1>7 DEF Mirror

\* ~User and remove_all_operands leave no use of the user's behind.
LEMMA DropKeepsMirror ==
  ASSUME TypeOK, Mirror, NEW u \in Users, DropOperands(u)
  PROVE  /\ operands' \in [Users -> Seq(Values \cup {Null})]
         /\ uses' \in [Values -> SUBSET (Users \X Nat)]
         /\ Mirror'
<1>1. operands' \in [Users -> Seq(Values \cup {Null})]
  BY DEF TypeOK, DropOperands
<1>2. uses' \in [Values -> SUBSET (Users \X Nat)]
  BY DEF TypeOK, DropOperands
<1>3. ASSUME NEW w \in Values, NEW x \in Users, NEW j \in Nat
      PROVE  <<x, j>> \in uses'[w] <=> j \in DOMAIN operands'[x] /\ operands'[x][j] = w
  <2>1. <<x, j>> \in uses'[w] <=>
          <<x, j>> \in uses[w] /\ <<x, j>> \notin UsesOf(u, operands[u], w)
    BY DEF DropOperands
  <2>2. CASE x = u
    <3>1. <<x, j>> \in uses[w] => <<x, j>> \in UsesOf(u, operands[u], w)
      BY <2>2 DEF Mirror, UsesOf, Positions
    <3>2. operands'[x] = << >>
      BY <2>2 DEF TypeOK, DropOperands
    <3> QED
      BY <2>1, <3>1, <3>2
  <2>3. CASE x # u
    <3>1. <<x, j>> \notin UsesOf(u, operands[u], w)
      BY <2>3 DEF UsesOf
    <3>2. operands'[x] = operands[x]
      BY <2>3 DEF TypeOK, DropOperands
    <3> QED
      BY <2>1, <3>1, <3>2 DEF Mirror
  <2> QED
    BY <2>2, <2>3
<1> QED
  BY <1>1, <1>2, <1>3 DEF Mirror

-----------------------------------------------------------------------------
\* At the start no instruction exists and no list has an entry.
LEMMA InitInv == Init => Inv
<1> SUFFICES ASSUME Init PROVE Inv
  OBVIOUS
<1>1. TypeOK
  BY UsersAssumption DEF Init, TypeOK, Jobs, NoJob
<1> QED
  BY <1>1 DEF Init, Inv, Mirror, OperandsAlive, DeadEmpty, JobOK

\* A new instruction adds one use per operand and touches nobody else's.
LEMMA CreateStep ==
  ASSUME Inv, NEW u \in Users, NEW s \in OperandLists, Create(u, s)
  PROVE  Inv'
<1> USE DEF Inv
<1>1. PICK n \in 0 .. MaxOperands : s \in [1 .. n -> alive]
  BY DEF OperandLists
<1>2. s \in Seq(alive) /\ s \in Seq(Values \cup {Null})
  BY <1>1, MaxOperandsAssumption DEF TypeOK
<1>3. operands[u] = << >>
  BY DEF Create, DeadEmpty
<1>4. operands' \in [Users -> Seq(Values \cup {Null})]
  BY <1>2 DEF Create, TypeOK
<1>5. \A v \in Values : UsesOf(u, s, v) \subseteq Users \X Nat
  BY <1>2 DEF UsesOf, Positions
<1>6. uses' \in [Values -> SUBSET (Users \X Nat)]
  BY <1>5 DEF Create, TypeOK
<1>7. TypeOK'
  BY <1>4, <1>6, UsersAssumption DEF Create, TypeOK
<1>8. ASSUME NEW v \in Values, NEW x \in Users, NEW j \in Nat
      PROVE  <<x, j>> \in uses'[v] <=> j \in DOMAIN operands'[x] /\ operands'[x][j] = v
  <2>1. <<x, j>> \in uses'[v] <=> <<x, j>> \in uses[v] \/ <<x, j>> \in UsesOf(u, s, v)
    BY DEF Create
  <2>2. <<x, j>> \in UsesOf(u, s, v) <=> x = u /\ j \in DOMAIN s /\ s[j] = v
    BY DEF UsesOf, Positions
  <2>3. x = u => operands'[x] = s /\ <<x, j>> \notin uses[v]
    BY <1>3 DEF Create, TypeOK, Mirror
  <2>4. x # u => operands'[x] = operands[x]
    BY DEF Create, TypeOK
  <2> QED
    BY <2>1, <2>2, <2>3, <2>4 DEF Mirror
<1>9. \A x \in Users : operands'[x] = IF x = u THEN s ELSE operands[x]
  BY DEF Create, TypeOK
<1>10. OperandsAlive'
  BY <1>2, <1>9 DEF Create, OperandsAlive
<1>11. DeadEmpty' /\ JobOK'
  BY <1>9 DEF Create, DeadEmpty, JobOK, Idle
<1> QED
  BY <1>7, <1>8, <1>10, <1>11 DEF Mirror

\* add_operand: the new use has the number of the new last operand.
LEMMA AddStep ==
  ASSUME Inv, NEW u \in Users, NEW v \in Values, AddOperand(u, v)
  PROVE  Inv'
<1> USE DEF Inv
<1> DEFINE s == operands[u]
<1>1. s \in Seq(Values \cup {Null}) /\ Len(s) \in Nat
  BY DEF TypeOK
<1> DEFINE t == Append(s, v)
<1>2. \A x \in Users : operands'[x] = IF x = u THEN t ELSE operands[x]
  BY DEF AddOperand, TypeOK
<1>3. /\ DOMAIN s = 1 .. Len(s) /\ DOMAIN t = 1 .. Len(s) + 1
      /\ t[Len(s) + 1] = v
      /\ \A j \in 1 .. Len(s) : t[j] = s[j]
  BY <1>1
<1> HIDE DEF t
<1>4. operands' \in [Users -> Seq(Values \cup {Null})]
  BY <1>1 DEF AddOperand, TypeOK, t
<1>5. uses' \in [Values -> SUBSET (Users \X Nat)]
  BY <1>1 DEF AddOperand, TypeOK
<1>6. TypeOK'
  BY <1>4, <1>5 DEF AddOperand, TypeOK
<1>7. ASSUME NEW w \in Values, NEW x \in Users, NEW j \in Nat
      PROVE  <<x, j>> \in uses'[w] <=> j \in DOMAIN operands'[x] /\ operands'[x][j] = w
  <2>1. <<x, j>> \in uses'[w] <=>
          <<x, j>> \in uses[w] \/ (w = v /\ x = u /\ j = Len(s) + 1)
    BY DEF AddOperand, TypeOK
  <2>2. CASE x = u /\ j = Len(s) + 1
    <3>1. <<x, j>> \notin uses[w]
      BY <1>1, <2>2 DEF Mirror
    <3> QED
      BY <1>1, <1>2, <1>3, <2>1, <2>2, <3>1
  <2>3. CASE x = u /\ j # Len(s) + 1
    <3>1. <<x, j>> \in uses[w] <=> j \in 1 .. Len(s) /\ s[j] = w
      BY <1>3, <2>3 DEF Mirror
    <3>2. j \in 1 .. Len(s) + 1 <=> j \in 1 .. Len(s)
      BY <1>1, <2>3
    <3> QED
      BY <1>2, <1>3, <2>1, <2>3, <3>1, <3>2
  <2>4. CASE x # u
    BY <1>2, <2>1, <2>4 DEF Mirror
  <2> QED
    BY <2>2, <2>3, <2>4
<1>8. OperandsAlive'
  <2> SUFFICES ASSUME NEW x \in Users, NEW j \in DOMAIN operands'[x]
               PROVE  operands'[x][j] \in alive \cup {Null}
    BY DEF AddOperand, OperandsAlive
  <2>1. CASE x = u
    BY <1>1, <1>2, <1>3, <2>1 DEF AddOperand, OperandsAlive
  <2>2. CASE x # u
    BY <1>2, <2>2 DEF OperandsAlive
  <2> QED
    BY <2>1, <2>2
<1>9. DeadEmpty' /\ JobOK'
  BY <1>2 DEF AddOperand, DeadEmpty, JobOK, Idle
<1> QED
  BY <1>6, <1>7, <1>8, <1>9 DEF Mirror

\* set_operand to a value that exists.
LEMMA SetStep ==
  ASSUME Inv, NEW u \in Users, NEW i, NEW v \in Values, SetOperand(u, i, v)
  PROVE  Inv'
<1> USE DEF Inv
<1>1. Rewrite(u, i, v)
  BY DEF SetOperand
<1>2. TypeOK' /\ Mirror'
  BY <1>1, RewriteKeepsMirror DEF SetOperand, TypeOK
<1>3. OperandsAlive'
  BY <1>1, RewriteOperands DEF SetOperand, OperandsAlive
<1>4. DeadEmpty'
  <2> SUFFICES ASSUME NEW x \in Users, x \notin alive' PROVE operands'[x] = << >>
    BY DEF DeadEmpty
  <2>1. x # u
    BY DEF SetOperand
  <2> QED
    BY <2>1 DEF SetOperand, Rewrite, DeadEmpty, TypeOK
<1>5. JobOK'
  BY DEF SetOperand, JobOK, Idle
<1> QED
  BY <1>2, <1>3, <1>4, <1>5

\* remove_operand of a phi's value or block.
LEMMA RemoveStep ==
  ASSUME Inv, NEW u \in Users, NEW idx \in DOMAIN operands[u], RemoveOperand(u, idx)
  PROVE  Inv'
<1> USE DEF Inv
<1>1. TypeOK' /\ Mirror'
  BY RemoveKeepsMirror DEF RemoveOperand, TypeOK
<1>2. \A x \in Users : x # u => operands'[x] = operands[x]
  BY DEF RemoveOperand, TypeOK
<1>3. OperandsAlive'
  <2> SUFFICES ASSUME NEW x \in Users, NEW j \in DOMAIN operands'[x]
               PROVE  operands'[x][j] \in alive \cup {Null}
    BY DEF RemoveOperand, OperandsAlive
  <2>1. CASE x # u
    BY <1>2, <2>1 DEF OperandsAlive
  <2>2. CASE x = u
    <3> DEFINE s == operands[u]
    <3>1. s \in Seq(Values \cup {Null}) /\ Len(s) \in Nat /\ DOMAIN s = 1 .. Len(s)
      BY DEF TypeOK
    <3>2. operands'[x] = [i \in 1 .. Len(s) - 1 |-> IF i < idx THEN s[i] ELSE s[i + 1]]
      BY <2>2 DEF RemoveOperand, TypeOK
    <3>3. j \in 1 .. Len(s) - 1 /\ operands'[x][j] \in {s[j], s[j + 1]}
      BY <3>2
    <3>4. j \in DOMAIN s /\ j + 1 \in DOMAIN s
      BY <3>1, <3>3
    <3> QED
      BY <3>3, <3>4 DEF OperandsAlive
  <2> QED
    BY <2>1, <2>2
<1>4. DeadEmpty' /\ JobOK'
  BY <1>2 DEF RemoveOperand, DeadEmpty, JobOK, Idle
<1> QED
  BY <1>1, <1>3, <1>4

\* Dropping all operands, on its own or as the first half of a destruction.
LEMMA DropStep ==
  ASSUME Inv, NEW u \in Users, u \in alive,
         RemoveAllOperands(u) \/ BeginErase(u)
  PROVE  Inv'
<1> USE DEF Inv
<1>1. DropOperands(u) /\ Idle /\ alive' = alive
  BY DEF RemoveAllOperands, BeginErase
<1>2. \A x \in Users : operands'[x] = IF x = u THEN << >> ELSE operands[x]
  BY <1>1 DEF DropOperands, TypeOK
<1>3. job' = job \/ job' = [from |-> u, to |-> Null, dying |-> TRUE]
  BY DEF RemoveAllOperands, BeginErase
<1>4. job' \in Jobs /\ (job'.dying => job'.to = Null)
  <2>1. CASE job' = job
    BY <2>1 DEF TypeOK
  <2>2. CASE job' = [from |-> u, to |-> Null, dying |-> TRUE]
    <3>1. job' \in [from : Values, to : Values \cup {Null}, dying : BOOLEAN]
      BY <2>2, UsersAssumption
    <3> QED
      BY <2>2, <3>1 DEF Jobs
  <2> QED
    BY <1>3, <2>1, <2>2
<1>5. TypeOK' /\ Mirror'
  BY <1>1, <1>4, DropKeepsMirror DEF TypeOK
<1>6. OperandsAlive' /\ DeadEmpty'
  BY <1>1, <1>2 DEF OperandsAlive, DeadEmpty
<1>7. JobOK'
  BY <1>1, <1>2, <1>3, UsersAssumption, NullAssumption DEF JobOK, Idle
<1> QED
  BY <1>5, <1>6, <1>7

\* One turn of the loop: the user it rewrites has an operand, so it is alive,
\* and it is not the value that is being destroyed.
LEMMA ReplaceStepInv ==
  ASSUME Inv, ReplaceStep
  PROVE  Inv'
<1> USE DEF Inv
<1>1. job # NoJob /\ job.from \in Values /\ job.to \in Values \cup {Null}
  BY JobFacts DEF ReplaceStep, Idle
<1>2. PICK use \in uses[job.from] : Rewrite(use[1], use[2], job.to)
  BY DEF ReplaceStep
<1>3. use[1] \in Users
  BY <1>1 DEF TypeOK
<1>4. TypeOK' /\ Mirror'
  BY <1>1, <1>2, <1>3, RewriteKeepsMirror DEF ReplaceStep, TypeOK
<1>5. OperandsAlive'
  BY <1>1, <1>2, <1>3, RewriteOperands DEF ReplaceStep, OperandsAlive, JobOK
<1>6. \A x \in Users : operands[x] = << >> => operands'[x] = << >>
  BY <1>2, <1>3 DEF Rewrite, TypeOK
<1>7. DeadEmpty' /\ JobOK'
  BY <1>6 DEF ReplaceStep, DeadEmpty, JobOK
<1> QED
  BY <1>4, <1>5, <1>7

\* When no use is left, no operand holds the value: it can be destroyed.
LEMMA ReplaceDoneInv ==
  ASSUME Inv, ReplaceDone
  PROVE  Inv'
<1> USE DEF Inv
<1>1. job # NoJob /\ job.from \in Values /\ job.dying \in BOOLEAN
  BY JobFacts DEF ReplaceDone, Idle
<1>2. TypeOK' /\ Mirror'
  BY DEF ReplaceDone, TypeOK, Mirror, Jobs, NoJob
<1>3. \A u \in Users : \A i \in DOMAIN operands[u] : operands[u][i] # job.from
  <2> SUFFICES ASSUME NEW u \in Users, NEW i \in DOMAIN operands[u], operands[u][i] = job.from
               PROVE  FALSE
    OBVIOUS
  <2>1. i \in Nat
    BY DEF TypeOK
  <2>2. <<u, i>> \in uses[job.from]
    BY <1>1, <2>1 DEF Mirror
  <2> QED
    BY <2>2 DEF ReplaceDone
<1>4. OperandsAlive'
  BY <1>3 DEF ReplaceDone, OperandsAlive
<1>5. DeadEmpty' /\ JobOK'
  BY <1>1 DEF ReplaceDone, DeadEmpty, JobOK, NoJob
<1> QED
  BY <1>2, <1>4, <1>5

\* A replacement starts between two values that exist.
LEMMA BeginReplaceInv ==
  ASSUME Inv, NEW v \in Values, NEW w \in Values, BeginReplace(v, w)
  PROVE  Inv'
BY DEF Inv, BeginReplace, TypeOK, Jobs, Mirror, OperandsAlive, DeadEmpty, JobOK

LEMMA NextInv == Inv /\ [Next]_vars => Inv'
<1> SUFFICES ASSUME Inv, [Next]_vars PROVE Inv'
  OBVIOUS
<1>1. ASSUME NEW u \in Users, NEW s \in OperandLists, Create(u, s) PROVE Inv'
  BY <1>1, CreateStep
<1>2. ASSUME NEW u \in Users, NEW v \in Values, AddOperand(u, v) PROVE Inv'
  BY <1>2, AddStep
<1>3. ASSUME NEW u \in Users, NEW v \in Values, NEW i \in DOMAIN operands[u], SetOperand(u, i, v)
      PROVE  Inv'
  BY <1>3, SetStep
<1>4. ASSUME NEW u \in Users, NEW i \in DOMAIN operands[u], RemoveOperand(u, i) PROVE Inv'
  BY <1>4, RemoveStep
<1>5. ASSUME NEW u \in Users, RemoveAllOperands(u) \/ BeginErase(u) PROVE Inv'
  BY <1>5, DropStep DEF RemoveAllOperands, BeginErase
<1>6. ASSUME NEW v \in Values, NEW w \in Values, BeginReplace(v, w) PROVE Inv'
  BY <1>6, BeginReplaceInv
<1>7. CASE ReplaceStep
  BY <1>7, ReplaceStepInv
<1>8. CASE ReplaceDone
  BY <1>8, ReplaceDoneInv
<1>9. CASE UNCHANGED vars
  BY <1>9 DEF vars, Inv, TypeOK, Mirror, OperandsAlive, DeadEmpty, JobOK
<1> QED
  BY <1>1, <1>2, <1>3, <1>4, <1>5, <1>6, <1>7, <1>8, <1>9 DEF Next

\* The inductive invariant holds throughout every behaviour.
LEMMA SpecInv == Spec => []Inv
<1>1. Init => Inv
  BY InitInv
<1>2. Inv /\ [Next]_vars => Inv'
  BY NextInv
<1> QED
  BY <1>1, <1>2, PTL DEF Spec

-----------------------------------------------------------------------------
\* The types of the lists, for any number of values, users and operands.
THEOREM TypeCorrect == Spec => []TypeOK
<1>1. Inv => TypeOK
  BY DEF Inv
<1> QED
  BY <1>1, SpecInv, PTL

\* Every operation of User and Value leaves the use lists and the operand lists
\* in agreement, set_operand inside replace_all_use_with included.
THEOREM ListsAgree == Spec => []UsesMirrorOperands
<1>1. ASSUME Inv, NEW v \in Values
      PROVE  uses[v] = UNION {UsesOf(u, operands[u], v) : u \in Users}
  <2>1. \A use \in uses[v] : use = <<use[1], use[2]>> /\ use[1] \in Users /\ use[2] \in Nat
    BY <1>1 DEF Inv, TypeOK
  <2>2. \A u \in Users : \A i \in DOMAIN operands[u] : i \in Nat
    BY <1>1 DEF Inv, TypeOK
  <2>3. \A u \in Users, i \in Nat : <<u, i>> \in uses[v] <=> <<u, i>> \in UsesOf(u, operands[u], v)
    <3>1. \A u \in Users, i \in Nat :
            <<u, i>> \in UsesOf(u, operands[u], v) <=> i \in DOMAIN operands[u] /\ operands[u][i] = v
      BY DEF UsesOf, Positions
    <3> QED
      BY <1>1, <3>1 DEF Inv, Mirror
  <2>4. ASSUME NEW use \in uses[v] PROVE use \in UNION {UsesOf(u, operands[u], v) : u \in Users}
    BY <2>1, <2>3
  <2>5. ASSUME NEW u \in Users, NEW use \in UsesOf(u, operands[u], v) PROVE use \in uses[v]
    BY <2>2, <2>3 DEF UsesOf, Positions
  <2> QED
    BY <2>4, <2>5
<1>2. Inv => UsesMirrorOperands
  BY <1>1 DEF UsesMirrorOperands
<1> QED
  BY <1>2, SpecInv, PTL

\* No operand of an instruction is ever a destroyed value, and no use list names
\* a destroyed instruction.
THEOREM NoDangling == Spec => []NothingDangles
<1>1. ASSUME Inv, NEW v \in Values, NEW use \in uses[v]
      PROVE  use[1] \in alive
  <2>1. use = <<use[1], use[2]>> /\ use[1] \in Users /\ use[2] \in Nat
    BY <1>1 DEF Inv, TypeOK
  <2>2. use[2] \in DOMAIN operands[use[1]]
    BY <1>1, <2>1 DEF Inv, Mirror
  <2> QED
    BY <1>1, <2>1, <2>2 DEF Inv, DeadEmpty
<1>2. Inv => NothingDangles
  BY <1>1 DEF Inv, NothingDangles, OperandsAlive
<1> QED
  BY <1>2, SpecInv, PTL

\* A running replacement changes operands from the old value to the new one only.
THEOREM ReplaceExact == Spec => OnlyReplaced
<1> DEFINE Exact == job # NoJob =>
       \A u \in Users :
         /\ DOMAIN operands'[u] = DOMAIN operands[u]
         /\ \A i \in DOMAIN operands[u] :
              operands'[u][i] # operands[u][i] =>
                operands[u][i] = job.from /\ operands'[u][i] = job.to
<1>1. ASSUME Inv, [Next]_vars, job # NoJob PROVE Exact
  <2>1. ReplaceStep \/ operands' = operands
    BY <1>1 DEF Next, vars, Create, AddOperand, SetOperand, RemoveOperand, RemoveAllOperands,
                BeginReplace, BeginErase, ReplaceDone, Idle
  <2>2. CASE ReplaceStep
    <3>1. job.from \in Values /\ TypeOK /\ Mirror
      BY <1>1, JobFacts DEF Inv
    <3>2. PICK use \in uses[job.from] : Rewrite(use[1], use[2], job.to)
      BY <2>2 DEF ReplaceStep
    <3>3. use = <<use[1], use[2]>> /\ use[1] \in Users /\ use[2] \in Nat
      BY <3>1 DEF TypeOK
    <3>4. operands[use[1]][use[2]] = job.from
      BY <3>1, <3>3 DEF Mirror
    <3> QED
      BY <3>1, <3>2, <3>3, <3>4, RewriteOperands
  <2>3. CASE operands' = operands
    BY <2>3
  <2> QED
    BY <2>1, <2>2, <2>3
<1>2. Inv /\ [Next]_vars => [Exact]_vars
  BY <1>1
<1> QED
  BY <1>2, SpecInv, PTL DEF Spec, OnlyReplaced
=============================================================================
