------------------------------- MODULE UseDef -------------------------------
(***************************************************************************)
(* The use-def chains of the light IR: User keeps the list of its          *)
(* operands, Value the list of its uses, and every operation of the two    *)
(* classes updates both.  The passes depend on the lists agreeing:         *)
(* replace_all_use_with walks the use list and writes operand lists.       *)
(*                                                                         *)
(* A Use is a pair <<user, arg_no>>, with arg_no counted from 1.  The use  *)
(* list is a set of them: remove_use deletes every equal record, so how    *)
(* often one is stored cannot be told from outside.                        *)
(***************************************************************************)
EXTENDS Naturals, Sequences

CONSTANTS
  Values,       \* every Value object
  Users,        \* the values that are Users (instructions)
  Null,         \* nullptr
  MaxOperands   \* bound on the operands of a user

ASSUME UsersAssumption == Users \subseteq Values
ASSUME NullAssumption == Null \notin Values
ASSUME MaxOperandsAssumption == MaxOperands \in Nat

VARIABLES
  alive,      \* the values that exist
  operands,   \* operands_: user -> sequence of values or Null
  uses,       \* use_list_: value -> set of uses
  job         \* the replace_all_use_with call that is running

vars == <<alive, operands, uses, job>>

\* no call is running
NoJob == [from |-> Null, to |-> Null, dying |-> FALSE]

Idle == job = NoJob

Init ==
  /\ alive = Values \ Users
  /\ operands = [u \in Users |-> << >>]
  /\ uses = [v \in Values |-> {}]
  /\ job = NoJob

-----------------------------------------------------------------------------
\* the positions at which the operand list s holds v
Positions(s, v) == {i \in DOMAIN s : s[i] = v}

\* the uses of v that user u has by the operand list s
UsesOf(u, s, v) == {<<u, i>> : i \in Positions(s, v)}

\* a new instruction: its constructor adds its operands in order
Create(u, s) ==
  /\ Idle
  /\ u \notin alive
  /\ alive' = alive \cup {u}
  /\ operands' = [operands EXCEPT ![u] = s]
  /\ uses' = [v \in Values |-> uses[v] \cup UsesOf(u, s, v)]
  /\ UNCHANGED job

\* mutant: an operand is added while another value is being replaced
AddOperandLate(u, v) ==
  /\ u \in alive /\ v \in alive
  /\ Len(operands[u]) < MaxOperands
  /\ uses' = [uses EXCEPT ![v] = @ \cup {<<u, Len(operands[u]) + 1>>}]
  /\ operands' = [operands EXCEPT ![u] = Append(@, v)]
  /\ UNCHANGED <<alive, job>>

AddOperand(u, v) ==
  /\ Idle
  /\ u \in alive /\ v \in alive
  /\ Len(operands[u]) < MaxOperands
  /\ uses' = [uses EXCEPT ![v] = @ \cup {<<u, Len(operands[u]) + 1>>}]
  /\ operands' = [operands EXCEPT ![u] = Append(@, v)]
  /\ UNCHANGED <<alive, job>>

\* set_operand: the old operand forgets the use, the new one records it
Rewrite(u, i, v) ==
  /\ i \in DOMAIN operands[u]
  /\ uses' = [w \in Values |->
                (IF w = operands[u][i] THEN uses[w] \ {<<u, i>>} ELSE uses[w])
                  \cup (IF w = v THEN {<<u, i>>} ELSE {})]
  /\ operands' = [operands EXCEPT ![u][i] = v]

SetOperand(u, i, v) ==
  /\ Idle
  /\ u \in alive /\ v \in alive
  /\ Rewrite(u, i, v)
  /\ UNCHANGED <<alive, job>>

(***************************************************************************)
(* remove_operand: the uses of the later operands move down by one, each   *)
(* in turn, and only then is the use of the removed operand dropped.  Its  *)
(* one caller removes values or blocks of a phi, which alternate: no two   *)
(* neighbours are equal and none is Null.                                  *)
(***************************************************************************)
\* mutant: equal neighbours are allowed
RemovableAny(s, idx) == \A i \in idx .. Len(s) : s[i] # Null

Removable(s, idx) ==
  /\ \A i \in idx .. Len(s) : s[i] # Null
  /\ idx < Len(s) => s[idx] # s[idx + 1]

RemoveOperand(u, idx) ==
  /\ Idle
  /\ u \in alive
  /\ idx \in DOMAIN operands[u]
  /\ Removable(operands[u], idx)
  /\ LET s == operands[u]
         later(v) == {i \in idx + 1 .. Len(s) : s[i] = v}
         moved(v) == (uses[v] \ {<<u, i>> : i \in later(v)})
                       \cup {<<u, i - 1>> : i \in later(v)}
     IN  /\ uses' = [v \in Values |-> IF v = s[idx] THEN moved(v) \ {<<u, idx>>} ELSE moved(v)]
         /\ operands' = [operands EXCEPT ![u] =
                           [i \in 1 .. Len(s) - 1 |-> IF i < idx THEN s[i] ELSE s[i + 1]]]
  /\ UNCHANGED <<alive, job>>

\* mutant: the operands do not forget their uses
DropOperandsOnly(u) ==
  /\ operands' = [operands EXCEPT ![u] = << >>]
  /\ UNCHANGED uses

\* remove_all_operands, also the body of ~User
DropOperands(u) ==
  /\ uses' = [v \in Values |-> uses[v] \ UsesOf(u, operands[u], v)]
  /\ operands' = [operands EXCEPT ![u] = << >>]

RemoveAllOperands(u) ==
  /\ Idle
  /\ u \in alive
  /\ DropOperands(u)
  /\ UNCHANGED <<alive, job>>

-----------------------------------------------------------------------------
(***************************************************************************)
(* replace_all_use_with: rewrite the operand the first use names, until no *)
(* use is left.  Destroying an instruction drops its operands, then        *)
(* replaces its uses with nullptr.                                         *)
(***************************************************************************)
BeginReplace(v, w) ==
  /\ Idle
  /\ v \in alive /\ w \in alive /\ v # w
  /\ job' = [from |-> v, to |-> w, dying |-> FALSE]
  /\ UNCHANGED <<alive, operands, uses>>

BeginErase(u) ==
  /\ Idle
  /\ u \in alive
  /\ DropOperands(u)
  /\ job' = [from |-> u, to |-> Null, dying |-> TRUE]
  /\ UNCHANGED alive

ReplaceStep ==
  /\ ~Idle
  /\ \E use \in uses[job.from] : Rewrite(use[1], use[2], job.to)
  /\ UNCHANGED <<alive, job>>

\* mutant: the value dies with uses left
ReplaceDoneEarly ==
  /\ ~Idle
  /\ alive' = IF job.dying THEN alive \ {job.from} ELSE alive
  /\ job' = NoJob
  /\ UNCHANGED <<operands, uses>>

ReplaceDone ==
  /\ ~Idle
  /\ uses[job.from] = {}
  /\ alive' = IF job.dying THEN alive \ {job.from} ELSE alive
  /\ job' = NoJob
  /\ UNCHANGED <<operands, uses>>

-----------------------------------------------------------------------------
OperandLists == UNION {[1 .. n -> alive] : n \in 0 .. MaxOperands}

Next ==
  \/ \E u \in Users : \E s \in OperandLists : Create(u, s)
  \/ \E u \in Users, v \in Values : AddOperand(u, v)
  \/ \E u \in Users, v \in Values : \E i \in DOMAIN operands[u] : SetOperand(u, i, v)
  \/ \E u \in Users : \E i \in DOMAIN operands[u] : RemoveOperand(u, i)
  \/ \E u \in Users : RemoveAllOperands(u)
  \/ \E v, w \in Values : BeginReplace(v, w)
  \/ \E u \in Users : BeginErase(u)
  \/ ReplaceStep
  \/ ReplaceDone

Spec == Init /\ [][Next]_vars /\ WF_vars(ReplaceStep) /\ WF_vars(ReplaceDone)

-----------------------------------------------------------------------------
(***************************************************************************)
(* Properties.                                                             *)
(***************************************************************************)
Jobs == {NoJob} \cup
  [from : Values, to : Values \cup {Null}, dying : BOOLEAN]

TypeOK ==
  /\ alive \subseteq Values
  /\ operands \in [Users -> Seq(Values \cup {Null})]
  /\ uses \in [Values -> SUBSET (Users \X Nat)]
  /\ job \in Jobs
  /\ job.dying => job.to = Null

\* Between any two list operations, also in the middle of a replacement, the
\* use lists and the operand lists say the same: v lists the use <<u, i>>
\* exactly when operand i of u is v.
UsesMirrorOperands ==
  \A v \in Values : uses[v] = UNION {UsesOf(u, operands[u], v) : u \in Users}

\* No operand points to a destroyed value, and no use list names a destroyed
\* user, whatever order the instructions are erased in.
NothingDangles ==
  /\ \A u \in Users : \A i \in DOMAIN operands[u] : operands[u][i] \in alive \cup {Null}
  /\ \A v \in Values : \A use \in uses[v] : use[1] \in alive

\* While a value is being replaced, no operand changes except from the old
\* value to the new one, although set_operand is told only a user and a number.
OnlyReplaced ==
  [][job # NoJob =>
       \A u \in Users :
         /\ DOMAIN operands'[u] = DOMAIN operands[u]
         /\ \A i \in DOMAIN operands[u] :
              operands'[u][i] # operands[u][i] =>
                operands[u][i] = job.from /\ operands'[u][i] = job.to]_vars

\* The loop of replace_all_use_with ends: each turn takes one use off the list.
ReplaceEnds == job # NoJob ~> job = NoJob
=============================================================================
