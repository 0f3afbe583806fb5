--------------------------------- MODULE Ir ---------------------------------
(***************************************************************************)
(* The body of one function of the light IR: its basic blocks in the order *)
(* they were created (block 1 is "label_entry"), their successor and       *)
(* predecessor lists, their instructions, and the builder's insert point.  *)
(* BasicBlock, BranchInst, ReturnInst and the IRBuilder calls that touch   *)
(* them are operators from a body to a body.                               *)
(*                                                                         *)
(* An instruction keeps what the passes look at: loads and stores of stack *)
(* variables, the i1 phis of short-circuit conditions, branches, returns.  *)
(* A value is a triple <<kind, n, a>>: the constant or the load with       *)
(* number n, or the phi of variable a in block n.                          *)
(***************************************************************************)
EXTENDS Naturals, Sequences, FiniteSets, SequencesExt, Iterate

Const(n)  == <<"const", n, 0>>
Loaded(n) == <<"load", n, 0>>
Phi(b, a) == <<"phi", b, a>>
Undef     == <<"undef", 0, 0>>

Load(n, a)     == [op |-> "load", id |-> n, var |-> a]
Store(n, a, v) == [op |-> "store", id |-> n, var |-> a, val |-> v]
CondPhi(from)  == [op |-> "phi", from |-> from]
Branch         == [op |-> "br"]
Ret            == [op |-> "ret"]

(***************************************************************************)
(* Blocks.                                                                 *)
(***************************************************************************)
Entry     == 1
Blocks(f) == DOMAIN f.code

EmptyBody ==
  [succ |-> << >>, pre |-> << >>, code |-> << >>, cur |-> 0, ids |-> 0, aborted |-> FALSE]

NewBlock(f) ==
  [f EXCEPT !.succ = Append(@, << >>), !.pre = Append(@, << >>), !.code = Append(@, << >>)]

LastBlock(f) == Len(f.code)

\* is_terminated: the last instruction of the block is a ret or a br
Terminated(f, b) == f.code[b] # << >> /\ Last(f.code[b]).op \in {"br", "ret"}

SetInsert(f, b) == [f EXCEPT !.cur = b]

(***************************************************************************)
(* add_instruction: the assertion "Inserting instruction to terminated bb" *)
(* stops the compiler.                                                     *)
(***************************************************************************)
Emit(f, instr) ==
  IF Terminated(f, f.cur)
  THEN [f EXCEPT !.aborted = TRUE]
  ELSE [f EXCEPT !.code[f.cur] = Append(@, instr)]

EmitLoad(f, a) == [Emit(f, Load(f.ids + 1, a)) EXCEPT !.ids = @ + 1]

EmitStore(f, a, v) == [Emit(f, Store(f.ids + 1, a, v)) EXCEPT !.ids = @ + 1]

AddInstrBegin(f, b, instr) == [f EXCEPT !.code[b] = <<instr>> \o @]

\* mutant: the predecessor list is forgotten
AddEdgeOneWay(f, b, t) == [f EXCEPT !.succ[b] = Append(@, t)]

\* the edges a branch from block b to t adds: b to t's pre list, t to b's succ list
AddEdge(f, b, t) == [f EXCEPT !.pre[t] = Append(@, b), !.succ[b] = Append(@, t)]

Br(f, t) == AddEdge(Emit(f, Branch), f.cur, t)

CondBr(f, t, e) == AddEdge(AddEdge(Emit(f, Branch), f.cur, t), f.cur, e)

(***************************************************************************)
(* Reachability, for the properties: the blocks a path from S leads to     *)
(* without entering a block of Avoid.                                      *)
(***************************************************************************)
Grow(f, Avoid) ==
  [X \in SUBSET Blocks(f) |-> X \cup ((UNION {ToSet(f.succ[b]) : b \in X}) \ Avoid)]

ReachFrom(f, S, Avoid) == Limit(Grow(f, Avoid))[S \ Avoid]

Reachable(f) == ReachFrom(f, {Entry}, {})
=============================================================================
