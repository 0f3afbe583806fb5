------------------------------ MODULE PhiCopies ------------------------------
(***************************************************************************)
(* How code generation removes the phis that Mem2Reg placed: every value   *)
(* has a stack slot, and gen_phi, called before the branch of a block,     *)
(* copies the operands of the phis of its successors into their slots, one *)
(* after the other.  The compiled function is executed next to the         *)
(* promoted one, whose phis all take their operands at once.               *)
(*                                                                         *)
(* The i1 phis of conditions are left out: they stand in blocks without    *)
(* other phis and no operand of theirs is a phi of the same block.         *)
(***************************************************************************)
EXTENDS LoweredMem2Reg

VARIABLES
  order,   \* the variables in the order of their phis in a block
  slots    \* stack slots of the phis: block -> variable -> constant

copyVars == <<allVars, order, slots>>

-----------------------------------------------------------------------------
(***************************************************************************)
(* The phis of a block stand in the order generate_phi left them in: it    *)
(* goes through a set ordered by the address of the alloca and puts every  *)
(* phi first, so the order is arbitrary but the same in all blocks.        *)
(***************************************************************************)
PhisInOrder(b) == SelectSeq(order, LAMBDA a : a \in DOMAIN phis[b])

\* mutant: the predecessor of an operand is not looked at
CopiesAny(p, s) ==
  LET all(a) == [i \in DOMAIN phis[s][a] |-> [bb |-> s, var |-> a, val |-> phis[s][a][i][1]]]
  IN  FlattenSeq([k \in DOMAIN PhisInOrder(s) |-> all(PhisInOrder(s)[k])])

\* the copies for the phis of s: one for every pair whose block is p
Copies(p, s) ==
  LET mine(a)   == SelectSeq(phis[s][a], LAMBDA pair : pair[2] = p)
      copies(a) == [i \in DOMAIN mine(a) |-> [bb |-> s, var |-> a, val |-> mine(a)[i][1]]]
  IN  FlattenSeq([k \in DOMAIN PhisInOrder(s) |-> copies(PhisInOrder(s)[k])])

\* load_to_greg of the operand, store_from_greg to the slot of the phi
Copy(sl, c) == [sl EXCEPT ![c.bb][c.var] = ValueIn(sl, c.val)]

\* gen_phi before the branch of p: for every successor, whichever is taken
GenPhi(p, sl) ==
  RunThrough(Copy, sl, FlattenSeq([k \in DOMAIN ir.succ[p] |-> Copies(p, ir.succ[p][k])]))

-----------------------------------------------------------------------------
CopiesInit == PipelineInit /\ order = << >> /\ slots = << >>

Compile == (Lower \/ RunDominators \/ RunMem2Reg) /\ UNCHANGED <<order, slots>>

StartCompiled ==
  /\ Start
  /\ order' \in SetToSeqs(Variables)
  /\ slots' = env'

JumpCompiled ==
  /\ Jump
  /\ slots' = GenPhi(block, slots)
  /\ UNCHANGED order

Stopped == Finished /\ UNCHANGED <<order, slots>>

CopiesNext == Compile \/ StartCompiled \/ JumpCompiled \/ Stopped

CopiesSpec ==
  /\ CopiesInit /\ [][CopiesNext]_copyVars
  /\ WF_copyVars(RunDominators /\ UNCHANGED <<order, slots>>)
  /\ WF_copyVars(RunMem2Reg /\ UNCHANGED <<order, slots>>)

-----------------------------------------------------------------------------
\* A value that the promoted function uses in place of a load is what the
\* compiled function finds in its slot: no copy made for another phi, or for a
\* successor that was not taken, has overwritten it.
SlotsAgree ==
  block # 0 =>
    \A i \in ToSet(Instrs(block)) :
       i.op = "load" /\ i.id \in DOMAIN repl =>
          ValueIn(slots, repl[i.id]) = ValueIn(env, repl[i.id])

\* one phi of a block takes another phi of that block as an operand
PhiTakesPhi ==
  \E b \in Blocks(ir) : \E a, c \in DOMAIN phis[b] :
     a # c /\ \E i \in DOMAIN phis[b][a] : phis[b][a][i][1] = Phi(b, c)

\* The copies of gen_phi agree with phis taken all at once on every path, in
\* every order of the phis, provided no phi takes another phi of its block.
SlotsAgreeUnlessSwapped ==
  mpc = "done" /\ ~PhiTakesPhi => SlotsAgree
=============================================================================
