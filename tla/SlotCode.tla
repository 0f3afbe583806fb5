------------------------------ MODULE SlotCode ------------------------------
(***************************************************************************)
(* CodeGen, the code generator of -o0 and -o1: no value stays in a         *)
(* register.  Every gen_* loads its operands from their slots into fixed   *)
(* registers, computes, and stores the result into its slot.  The function *)
(* and the form of the emitted code are those of RegAlloca.                *)
(***************************************************************************)
EXTENDS RegAlloca

T(k)       == <<"g", k>>          \* $t
FT(k)      == <<"f", k>>          \* $ft
Temp(v, k) == <<File(v), k>>

ToReg(v, r)  == Move({<<Home(v), r>>})   \* load_to_greg, load_to_freg
ToSlot(r, v) == Move({<<r, Home(v)>>})   \* store_from_greg, store_from_freg

\* operand j is in regs[j]
Compute(i, regs, to, kills) ==
  <<[do |-> "exec", id |-> i.id, reads |-> {<<regs[j], i.ops[j]>> : j \in DOMAIN regs},
     to |-> to, kills |-> kills]>>
  \o (IF to = NoPlace THEN << >> ELSE <<ToSlot(to, i.id)>>)

\* operand j is loaded into regs[j] first
LoadCompute(i, regs, to, kills) ==
  [j \in DOMAIN regs |-> ToReg(i.ops[j], regs[j])] \o Compute(i, regs, to, kills)

-----------------------------------------------------------------------------
SlotRet(i) == LoadCompute(i, [j \in DOMAIN i.ops |-> Result], NoPlace, {})

\* gen_phi
SlotPhis(b) ==
  LET copy(pair) == <<ToReg(pair.op, Temp(pair.op, 0)), ToSlot(Temp(pair.op, 0), pair.phi)>>
  IN  FoldLeft(LAMBDA acc, pair : acc \o copy(pair), << >>, PhiPairs(b))

SlotBr(i, b) == SlotPhis(b) \o LoadCompute(i, [j \in DOMAIN i.ops |-> T(0)], NoPlace, {})

\* a remainder is computed in $t1, so its second operand is lost
SlotBinary(i) ==
  LoadCompute(i, <<Temp(i.id, 0), Temp(i.id, 1)>>, Temp(i.id, 2), {Temp(i.id, 1)})

SlotIcmp(i)   == LoadCompute(i, <<T(0), T(1)>>, T(2), {})
SlotFcmp(i)   == LoadCompute(i, <<FT(0), FT(1)>>, T(0), {})
SlotAlloca(i) == Compute(i, << >>, T(0), {})
SlotLoad(i)   == LoadCompute(i, <<T(0)>>, IF i.id \in Floats THEN FT(0) ELSE T(1), {})

\* the pointer first
SlotStore(i) ==
  LET r == IF i.ops[1] \in Floats THEN FT(0) ELSE T(1)
  IN  <<ToReg(i.ops[2], T(0)), ToReg(i.ops[1], r)>> \o Compute(i, <<r, T(0)>>, NoPlace, {})

SlotZext(i)   == LoadCompute(i, <<T(0)>>, T(0), {})
SlotSitofp(i) == LoadCompute(i, <<T(0)>>, FT(1), {FT(0)})
SlotFptosi(i) == LoadCompute(i, <<FT(0)>>, T(0), {FT(1)})

\* $t1 is the size of an element
SlotGep(i) ==
  <<ToReg(i.ops[1], T(0)), ToReg(Last(i.ops), T(2))>>
  \o Compute([i EXCEPT !.ops = <<i.ops[1], Last(i.ops)>>], <<T(0), T(2)>>, T(0), {T(1)})

\* arguments in registers, or all of them in memory
SlotArgs(i) ==
  IF Len(i.ops) <= ArgRegs
  THEN [j \in DOMAIN i.ops |-> ToReg(i.ops[j], Arg(j))]
  ELSE FoldLeft(LAMBDA acc, v : acc \o <<ToReg(v, Temp(v, 0)),
                                         Move({<<Temp(v, 0), Arg(Len(acc) \div 2 + 1)>>})>>,
                << >>, i.ops)

SlotCall(i) ==
  SlotArgs(i) \o Compute(i, [j \in DOMAIN i.ops |-> Arg(j)],
                         IF IsVoid(i) THEN NoPlace ELSE Result,
                         UNION {{f} \X Regs(f) : f \in Files} \cup {Arg(j) : j \in DOMAIN i.ops})

SlotCode(i, b) ==
  CASE i.op = "ret"    -> SlotRet(i)
    [] i.op = "br"     -> SlotBr(i, b)
    [] i.op = "binary" -> SlotBinary(i)
    [] i.op = "icmp"   -> SlotIcmp(i)
    [] i.op = "fcmp"   -> SlotFcmp(i)
    [] i.op = "alloca" -> SlotAlloca(i)
    [] i.op = "load"   -> SlotLoad(i)
    [] i.op = "store"  -> SlotStore(i)
    [] i.op = "zext"   -> SlotZext(i)
    [] i.op = "sitofp" -> SlotSitofp(i)
    [] i.op = "fptosi" -> SlotFptosi(i)
    [] i.op = "gep"    -> SlotGep(i)
    [] i.op \in {"call", "voidcall"} -> SlotCall(i)
    [] i.op = "phi"    -> << >>

-----------------------------------------------------------------------------
(***************************************************************************)
(* run: the blocks in the order of the function, their instructions in     *)
(* order.                                                                  *)
(***************************************************************************)
BlockDone == current_bb_num > 0 => ins = Len(body[current_bb_num])

SlotBlock ==
  /\ current_bb_num < NumBlocks /\ BlockDone
  /\ current_bb_num' = current_bb_num + 1 /\ ins' = 0
  /\ UNCHANGED <<input, live, numbers, cache, pins, todo, got, asm>>

SlotInstr ==
  /\ ~BlockDone
  /\ ins' = ins + 1
  /\ asm' = [asm EXCEPT ![current_bb_num] = @ \o SlotCode(body[current_bb_num][ins + 1], current_bb_num)]
  /\ UNCHANGED <<input, live, numbers, cache, pins, current_bb_num, todo, got>>

SlotNext == SlotBlock \/ SlotInstr

SlotsCompiled == current_bb_num = NumBlocks /\ BlockDone
=============================================================================
