------------------------------ MODULE DeadCode ------------------------------
(***************************************************************************)
(* The DeadCode pass: it runs FuncInfo, then marks and sweeps one function *)
(* after the other until a whole round over the module deletes nothing.    *)
(*                                                                         *)
(* An instruction is a "value" (arithmetic, load, phi...), an "effect"     *)
(* (store, br, ret) or a "call"; its operands are the instructions of the  *)
(* same function whose results it uses.                                    *)
(***************************************************************************)
EXTENDS FuncInfo

CONSTANTS
  Instrs,   \* the instructions of the module
  FuncOf,   \* instruction -> the function it is in
  MayUse    \* bound: instruction -> the instructions that may be its operands

ASSUME InstrsAssumption ==
  /\ FuncOf \in [Instrs -> Funcs \ Library]
  /\ MayUse \in [Instrs -> SUBSET Instrs]
  /\ \A i \in Instrs : \A j \in MayUse[i] : FuncOf[j] = FuncOf[i]

VARIABLES
  kind,      \* instruction -> "value", "effect" or "call"
  callee,    \* instruction -> the function a call calls
  operands,  \* instruction -> its operands
  live,      \* the instructions that are still in their block
  dpc,       \* "info", "next", "mark" or "done"
  at,        \* the function run() is at
  changed,   \* changed: this round deleted something
  marked,    \* marked, cleared for every function
  pending    \* work_list: a set, as the result does not depend on its order

code == <<kind, callee>>
dcVars == <<code, operands, live, dpc, at, changed, marked, pending>>
allVars == <<vars, dcVars>>

Kinds == {"value", "effect", "call"}

\* the call graph FuncInfo reads off the use lists of the functions
CallsOf(f) == {callee[i] : i \in {j \in Instrs : FuncOf[j] = f /\ kind[j] = "call"}}

-----------------------------------------------------------------------------
IsCode ==
  /\ kind \in [Instrs -> Kinds]
  /\ callee \in [Instrs -> Funcs]
  /\ \A i \in Instrs : callee[i] <= IF kind[i] = "call" THEN FuncOf[i] ELSE 1

\* a store, br or ret has no result that could be an operand
DeadInit ==
  /\ IsCode
  /\ operands \in [Instrs -> SUBSET Instrs]
  /\ \A i \in Instrs : operands[i] \subseteq {j \in MayUse[i] : kind[j] # "effect"}
  /\ calls = [f \in Funcs |-> CallsOf(f)]
  /\ Init
  /\ live = Instrs
  /\ dpc = "info" /\ at = 1 /\ changed = FALSE
  /\ marked = {} /\ pending = {}

RunFuncInfo ==
  /\ dpc = "info"
  /\ Analyse
  /\ UNCHANGED dcVars

BeginRounds ==
  /\ dpc = "info" /\ fpc = "done"
  /\ dpc' = "next"
  /\ UNCHANGED <<vars, code, operands, live, at, changed, marked, pending>>

\* mutant: a call is never critical
CriticalEffects(i) == kind[i] = "effect"

\* is_critical: a call of a pure function is not
Critical(i) ==
  \/ kind[i] = "effect"
  \/ kind[i] = "call" /\ ~is_pure[callee[i]]

InFunc(f) == {i \in live : FuncOf[i] = f}

\* mutant: an instruction that is used counts as critical
BeginMarkUsed ==
  /\ dpc = "next" /\ at \in Funcs
  /\ marked' = {i \in InFunc(at) : Critical(i) \/ \E j \in live : i \in operands[j]}
  /\ pending' = marked'
  /\ dpc' = "mark"
  /\ UNCHANGED <<vars, code, operands, live, at, changed>>

\* mark(func), up to its work list loop
BeginMark ==
  /\ dpc = "next" /\ at \in Funcs
  /\ marked' = {i \in InFunc(at) : Critical(i)}
  /\ pending' = marked'
  /\ dpc' = "mark"
  /\ UNCHANGED <<vars, code, operands, live, at, changed>>

\* mutant: what is marked is not put on the work list
MarkOperandsOnly(i) ==
  /\ dpc = "mark" /\ i \in pending
  /\ LET new == {j \in operands[i] : j \notin marked /\ FuncOf[j] = FuncOf[i]}
     IN  /\ marked' = marked \cup new
         /\ pending' = pending \ {i}
  /\ UNCHANGED <<vars, code, operands, live, dpc, at, changed>>

\* mark(ins)
MarkOperands(i) ==
  /\ dpc = "mark" /\ i \in pending
  /\ LET new == {j \in operands[i] : j \notin marked /\ FuncOf[j] = FuncOf[i]}
     IN  /\ marked' = marked \cup new
         /\ pending' = (pending \ {i}) \cup new
  /\ UNCHANGED <<vars, code, operands, live, dpc, at, changed>>

\* mutant: every sweep reports a change
SweepChanged ==
  /\ dpc = "mark" /\ pending = {}
  /\ LET wait_del == InFunc(at) \ marked
     IN  /\ operands' = [i \in Instrs |-> IF i \in wait_del THEN {} ELSE operands[i]]
         /\ live' = live \ wait_del
         /\ changed' = TRUE
  /\ at' = at + 1
  /\ dpc' = "next"
  /\ UNCHANGED <<vars, code, marked, pending>>

\* sweep(func): the operands of all the instructions to delete go first
Sweep ==
  /\ dpc = "mark" /\ pending = {}
  /\ LET wait_del == InFunc(at) \ marked
     IN  /\ operands' = [i \in Instrs |-> IF i \in wait_del THEN {} ELSE operands[i]]
         /\ live' = live \ wait_del
         /\ changed' = (changed \/ wait_del # {})
  /\ at' = at + 1
  /\ dpc' = "next"
  /\ UNCHANGED <<vars, code, marked, pending>>

NextRound ==
  /\ dpc = "next" /\ at \notin Funcs /\ changed
  /\ at' = 1
  /\ changed' = FALSE
  /\ UNCHANGED <<vars, code, operands, live, dpc, marked, pending>>

RoundsDone ==
  /\ dpc = "next" /\ at \notin Funcs /\ ~changed
  /\ dpc' = "done"
  /\ UNCHANGED <<vars, code, operands, live, at, changed, marked, pending>>

DeadNext ==
  \/ RunFuncInfo
  \/ BeginRounds
  \/ BeginMark
  \/ \E i \in pending : MarkOperands(i)
  \/ Sweep
  \/ NextRound
  \/ RoundsDone

DeadSpec == DeadInit /\ [][DeadNext]_allVars /\ WF_allVars(DeadNext)

-----------------------------------------------------------------------------
(***************************************************************************)
(* Properties.                                                             *)
(***************************************************************************)
DeadTypeOK ==
  /\ TypeOK
  /\ IsCode
  /\ operands \in [Instrs -> SUBSET Instrs]
  /\ \A i \in Instrs : \A j \in operands[i] : FuncOf[j] = FuncOf[i]
  /\ live \subseteq Instrs
  /\ dpc \in {"info", "next", "mark", "done"}
  /\ dpc # "info" => fpc = "done"
  /\ at \in 1 .. NumFuncs + 1
  /\ changed \in BOOLEAN
  /\ pending \subseteq marked /\ marked \subseteq Instrs

\* No instruction that stays uses one that was deleted: the mark list is carried
\* from user to operand to the end before anything is swept.
NoUseOfDeleted == \A i \in live : operands[i] \subseteq live

\* What the pass may never delete: an effect, or a call from which a chain of
\* calls leads to a function that touches memory that is not its own.
Observable(i) ==
  \/ kind[i] = "effect"
  \/ kind[i] = "call" /\
       \A T \in SUBSET Funcs : ClosedUnderCallers(T) => callee[i] \in T

NothingObservableDeleted == \A i \in Instrs \ live : ~Observable(i)

\* S contains the live critical instructions and the operands of its members
ClosedUnderOperands(S) ==
  \A i \in live : Critical(i) \/ (\E j \in S \cap live : i \in operands[j]) => i \in S

\* At the end nothing useless is left: what remains is the least set that holds
\* the critical instructions and the operands of its members.
NothingUselessLeft ==
  dpc = "done" => \A S \in SUBSET Instrs : ClosedUnderOperands(S) => live \subseteq S

\* The rounds end: a round that deletes nothing is the last.
PassEnds == <>(dpc = "done")
=============================================================================
