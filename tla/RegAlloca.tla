----------------------------- MODULE RegAlloca -----------------------------
(***************************************************************************)
(* CodeGen_Reg, the code generator of -o2, on one function: LiveVar, the   *)
(* numbering of the instructions, then one gen_* handler per instruction.  *)
(* The registers are a cache of the stack slots.  What a handler does is   *)
(* the sequence todo of requests for registers and of emissions; one step  *)
(* serves one of them.  The cache is followed along bb_order, the order in *)
(* which the code is laid out, not along the branches.                     *)
(*                                                                         *)
(* Emitted code keeps what moves values: copies between registers and      *)
(* slots, values made in a register, and the instruction proper with the   *)
(* registers it reads and the one it writes.  Every slot is within the     *)
(* 12-bit offset, so no address register is needed to reach it.            *)
(***************************************************************************)
EXTENDS Integers, SequencesExt

CONSTANTS
  NumBlocks,        \* number of basic blocks
  Functions,        \* the functions compiled: [body, succ] of instructions by block
  Instrs,           \* names of instructions, void ones included
  Args, Globals, Consts,
  Floats,           \* the values of float type; the others are integers and pointers
  Zero,             \* ConstantInt::get(0), loaded where a scratch register is needed
  GRegs, FRegs,     \* number of registers $t and $ft (9 and 16 in the code)
  ArgRegs,          \* number of arguments passed in registers (8 in the code)
  Null, Void

ASSUME KindsAssumption ==
  /\ Instrs \cap (Args \cup Globals \cup Consts) = {}
  /\ Consts \cap (Args \cup Globals) = {}
  /\ Zero \in Consts \ Floats
  /\ Null \notin Instrs \cup Args \cup Globals \cup Consts
ASSUME RegsAssumption == GRegs \in Nat /\ FRegs \in Nat /\ ArgRegs \in Nat
ASSUME BlocksAssumption == NumBlocks \in Nat \ {0}

Blocks  == 1 .. NumBlocks
Homed   == Instrs \cup Args \cup Globals   \* values recorded in value_reg
Values  == Homed \cup Consts
Files   == {"g", "f"}
File(v) == IF v \in Floats THEN "f" ELSE "g"
Regs(f) == 0 .. (IF f = "g" THEN GRegs ELSE FRegs) - 1
None    == -1

\* the operands and the types that the constructors of Instruction.cpp assert, as far
\* as the registers depend on them
Opcodes == {"ret", "br", "binary", "icmp", "fcmp", "alloca", "load", "store", "zext",
            "sitofp", "fptosi", "gep", "call", "voidcall", "phi"}

Constructed(i) ==
  /\ i.op \in {"ret", "br"} => Len(i.ops) <= 1
  /\ i.op \in {"load", "zext", "sitofp", "fptosi"} => Len(i.ops) = 1
  /\ i.op \in {"binary", "icmp", "fcmp", "store"} => Len(i.ops) = 2
  /\ i.op = "gep" => Len(i.ops) >= 2
  /\ i.op = "fcmp" => i.ops[2] \in Floats /\ i.id \notin Floats
  /\ i.op = "sitofp" => i.ops[1] \notin Floats /\ i.id \in Floats
  /\ i.op = "fptosi" => i.ops[1] \in Floats /\ i.id \notin Floats
  /\ i.op = "phi" => Len(i.from) = Len(i.ops)

Instruction ==
  {i \in [id : Instrs, op : Opcodes, ops : Seq(Values), from : Seq(Blocks)] : Constructed(i)}

ASSUME FunctionsAssumption ==
  \A fn \in Functions : fn.body \in [Blocks -> Seq(Instruction)] /\ fn.succ \in [Blocks -> Seq(Blocks)]

VARIABLES
  body, succ,                                         \* the function, never changed
  BB_def, BB_use, BB_IN, BB_OUT, lpc, lat, lcont,     \* LiveVar
  calls,                                              \* pending calls of set_instr_number
  visit, bb_order, num, named, begin_num, end_num,    \* context, name_num_, begin_num_, end_num_
  reg_map,                                            \* reg_map and freg_map
  value_reg,                                          \* value_reg and value_freg
  pins,                                               \* instr_reg_operand, instr_freg_operand
  current_bb_num, ins,                                \* where run() is
  todo, got,                                          \* of the handler: what is left, registers obtained
  asm                                                 \* code of the blocks

input   == <<body, succ>>
live    == <<BB_def, BB_use, BB_IN, BB_OUT, lpc, lat, lcont>>
numbers == <<calls, visit, bb_order, num, named, begin_num, end_num>>
cache   == <<reg_map, value_reg>>
handler == <<pins, current_bb_num, ins, todo, got>>
allocVars == <<input, live, numbers, cache, handler, asm>>

IsVoid(i)  == i.op \in {"br", "ret", "store", "voidcall"}
Succs(b)   == Range(succ[b])
Preds(b)   == {p \in Blocks : b \in Succs(p)}
Phis(b)    == SelectSeq(body[b], LAMBDA i : i.op = "phi")

-----------------------------------------------------------------------------
(***************************************************************************)
(* The LiveVar pass, run first.                                            *)
(***************************************************************************)
Seen(i) == [val  |-> IF IsVoid(i) THEN Void ELSE i.id,
            ops  |-> IF i.op = "phi" THEN {} ELSE Range(i.ops) \ Consts,
            from |-> {<<i.ops[j], i.from[j]>> : j \in {j \in DOMAIN i.from : i.ops[j] \notin Consts}}]

LV == INSTANCE LiveVar WITH
        Values <- Homed, Bodies <- {},
        code <- [b \in Blocks |-> [k \in DOMAIN body[b] |-> Seen(body[b][k])]],
        succ <- [b \in Blocks |-> Succs(b)],
        pc <- lpc, at <- lat, if_continue <- lcont

RunLiveVar == UNCHANGED <<input, numbers, cache, handler, asm>> /\ LV!Next

\* FindLoop::get_entry_loop is not null: b closes a loop that h enters, that is,
\* b is not reached without h
Entered(h) ==
  \E b \in Preds(h) : \E X \in SUBSET (Blocks \ {h}) :
     /\ h # 1 => 1 \in X
     /\ \A x \in X : Succs(x) \ {h} \subseteq X
     /\ b \notin X

-----------------------------------------------------------------------------
(***************************************************************************)
(* set_instr_number: a depth-first walk from the entry block gives         *)
(* bb_order and numbers the instructions; a call is the block and the      *)
(* instruction it has come to.                                             *)
(***************************************************************************)
StartNumbers ==
  /\ lpc = "done" /\ bb_order = << >>
  /\ calls' = <<[bb |-> 1, at |-> 1]>>
  /\ bb_order' = <<1>>
  /\ UNCHANGED <<input, live, visit, num, named, begin_num, end_num, cache, handler, asm>>

Frame == Last(calls)

\* one instruction: a value not seen before begins where it is first met, and the
\* operands end where the instruction does
NumberInstr ==
  /\ calls # << >> /\ Frame.at <= Len(body[Frame.bb])
  /\ \E i \in {body[Frame.bb][Frame.at]} :
     \E first \in {IF i.id \in named THEN begin_num[i.id] ELSE num} :
     \E last \in {IF end_num[i.id] = 0 THEN num + 1 ELSE end_num[i.id]} :
       LET operands == Range(i.ops) \ Consts
       IN  /\ named' = named \cup operands \cup {i.id}
           /\ begin_num' = [v \in Homed |->
                              IF v \in (operands \cup {i.id}) \ named THEN first ELSE begin_num[v]]
           /\ end_num' = [v \in Homed |->
                              IF v \in operands \cup {i.id} THEN last ELSE end_num[v]]
  /\ num' = num + 2
  /\ calls' = [calls EXCEPT ![Len(calls)].at = @ + 1]
  /\ UNCHANGED <<input, live, visit, bb_order, cache, handler, asm>>

\* loop entries first, in an order that depends on addresses, then the other
\* successors in the order of the list
NextBlocks(b) ==
  LET open    == Succs(b) \ visit
      entries == {s \in open : Entered(s)}
      others  == {k \in DOMAIN succ[b] : succ[b][k] \in open}
  IN  IF entries # {} THEN entries ELSE {succ[b][k] : k \in {k \in others : \A j \in others : k <= j}}

Descend ==
  /\ calls # << >> /\ Frame.at > Len(body[Frame.bb])
  /\ \E s \in NextBlocks(Frame.bb) :
       /\ visit' = visit \cup {s}
       /\ bb_order' = Append(bb_order, s)
       /\ calls' = Append(calls, [bb |-> s, at |-> 1])
  /\ UNCHANGED <<input, live, num, named, begin_num, end_num, cache, handler, asm>>

Return ==
  /\ calls # << >> /\ Frame.at > Len(body[Frame.bb])
  /\ NextBlocks(Frame.bb) = {}
  /\ calls' = Front(calls)
  /\ UNCHANGED <<input, live, visit, bb_order, num, named, begin_num, end_num, cache, handler, asm>>

\* max_num_ of an instruction; arguments and globals are compared by end_num_
LastNum(v) == IF v \in Instrs THEN Max({begin_num[v], end_num[v]}) ELSE end_num[v]

-----------------------------------------------------------------------------
(***************************************************************************)
(* Emitted code.  Home(v) is where load_to_greg and load_to_freg find a    *)
(* value: its slot, its symbol, or the instruction itself for a constant.  *)
(***************************************************************************)
Home(v) == <<"home", v>>
Arg(j)  == <<"arg", j>>       \* $a and $fa registers, or the area above the callee's frame
Result  == <<"result", 0>>    \* $a0 or $fa0 after a call
NoPlace == <<"none", 0>>

\* the registers that hold a value of S
Cached(S) == {r \in UNION {{f} \X Regs(f) : f \in Files} : reg_map[r[1]][r[2]] \in S}
HeldIn(r) == reg_map[r[1]][r[2]]

Move(moves) == [do |-> "move", moves |-> moves]
Load(S)  == Move({<<Home(HeldIn(r)), r>> : r \in Cached(S)})
Store(S) == Move({<<r, Home(HeldIn(r))>> : r \in Cached(S)})

BB   == bb_order[current_bb_num]
Inst == body[BB][ins]
Emitted(code) == [asm EXCEPT ![BB] = @ \o code]

-----------------------------------------------------------------------------
(***************************************************************************)
(* The handlers.  "get" is get_value_reg_freg, "pin" the insertion of the  *)
(* register just obtained into instr_reg_operand or instr_freg_operand,    *)
(* "exec" the instruction proper.                                          *)
(***************************************************************************)
Get(v) == <<"get", v>>
Pin    == <<"pin", Null>>
Exec   == <<"exec", Null>>
Gets(ops) == [j \in DOMAIN ops |-> Get(ops[j])]

GenRet(i)    == Gets(i.ops) \o <<Exec>>
GenBinary(i) == <<Get(i.ops[1]), Pin, Get(i.ops[2]), Pin, Get(i.id), Exec>>

\* get_fregister is called directly: the result gets a register of its own
GenFloatBinary(i) == <<Get(i.ops[1]), Pin, Get(i.ops[2]), Pin, <<"claim", i.id>>, Exec>>

GenIcmp(i)   == GenBinary(i)
GenFcmp(i)   == <<Get(i.ops[1]), Pin, Get(i.ops[2]), Get(i.id), Exec>>
GenAlloca(i) == <<Get(i.id), Exec>>
GenLoad(i)   == <<Get(i.ops[1]), Pin, Get(i.id), Exec>>

\* mutant: the register of the pointer is not pinned
GenStoreUnpinned(i) == <<Get(i.ops[2]), Get(i.ops[1]), Exec>>

GenStore(i)  == <<Get(i.ops[2]), Pin, Get(i.ops[1]), Exec>>
GenZext(i)   == <<Get(i.ops[1]), Pin, Get(i.id), Exec>>
GenConvert(i) == <<Get(i.ops[1]), Get(i.id), Exec>>

\* the result register is claimed first and holds the size of an element meanwhile
GenGep(i) == <<Get(i.id), Pin, Get(i.ops[1]), Pin, Get(Last(i.ops)), Exec>>

\* every value is used as soon as it is in a register
InTurn(ops, uses) ==
  [k \in 1 .. 2 * Len(ops) |-> IF k % 2 = 1 THEN Get(ops[(k + 1) \div 2]) ELSE uses[k \div 2]]

PassArgs(args) == InTurn(args, [j \in DOMAIN args |-> <<"pass", j>>])

GenCall(i) ==
  << <<"saveall", Null>> >>
  \o (IF Len(i.ops) <= ArgRegs THEN << >> ELSE <<Get(Zero), Pin>>)   \* holds the address
  \o PassArgs(i.ops)
  \o <<Exec, <<"reloadall", Null>> >>
  \o (IF IsVoid(i) THEN << >> ELSE <<Get(i.id), <<"take", Null>> >>)

\* gen_phi: a copy for every phi of every successor and every pair whose block is b
PhiPairs(b) ==
  LET of(p)   == [j \in DOMAIN p.ops |-> IF p.op = "phi" /\ p.from[j] = b
                                         THEN <<[op |-> p.ops[j], phi |-> p.id]>> ELSE << >>]
      into(s) == [k \in DOMAIN body[s] |-> FlattenSeq(of(body[s][k]))]
  IN  FlattenSeq([k \in DOMAIN succ[b] |-> FlattenSeq(into(succ[b][k]))])

PhiCopies(b) ==
  LET pairs == PhiPairs(b)
  IN  InTurn([j \in DOMAIN pairs |-> pairs[j].op], [j \in DOMAIN pairs |-> <<"phi", pairs[j].phi>>])

GenBr(i) == PhiCopies(BB) \o << <<"savelive", Null>> >> \o Gets(i.ops) \o <<Exec>>

Steps(i) ==
  CASE i.op = "ret"    -> GenRet(i)
    [] i.op = "br"     -> GenBr(i)
    [] i.op = "binary" -> IF i.id \in Floats THEN GenFloatBinary(i) ELSE GenBinary(i)
    [] i.op = "icmp"   -> GenIcmp(i)
    [] i.op = "fcmp"   -> GenFcmp(i)
    [] i.op = "alloca" -> GenAlloca(i)
    [] i.op = "load"   -> GenLoad(i)
    [] i.op = "store"  -> GenStore(i)
    [] i.op = "zext"   -> GenZext(i)
    [] i.op \in {"sitofp", "fptosi"} -> GenConvert(i)
    [] i.op = "gep"    -> GenGep(i)
    [] i.op \in {"call", "voidcall"} -> GenCall(i)
    [] i.op = "phi"    -> << >>

-----------------------------------------------------------------------------
(***************************************************************************)
(* get_register and get_fregister: a register that is free, else the first *)
(* one that holds a constant, else the first whose value ends with this    *)
(* instruction, else the last of those whose value ends latest.  Only the  *)
(* search for a free one goes through the pinned registers too.            *)
(***************************************************************************)
Ends(f, k) == LastNum(reg_map[f][k])

\* mutant: the registers of the operands are not skipped
LooseAll(f) == Regs(f)

Loose(f) == {k \in Regs(f) : <<f, k>> \notin pins}

Tiers(f) ==
  LET held == {k \in Loose(f) : reg_map[f][k] \in Homed}
  IN  << {k \in Regs(f) : reg_map[f][k] = Null},
         {k \in Loose(f) : reg_map[f][k] \in Consts},
         {k \in held : Ends(f, k) <= LastNum(Inst.id)},
         {k \in held : \A j \in held : Ends(f, j) <= Ends(f, k) /\ (Ends(f, j) = Ends(f, k) => j <= k)} >>

\* empty where the code stops with "get_register error"
Victim(f) ==
  {k \in Regs(f) :
     \E n \in 1 .. 4 : /\ k \in Tiers(f)[n]
                      /\ \A j \in Tiers(f)[n] : k <= j
                      /\ \A m \in 1 .. n - 1 : Tiers(f)[m] = {}}

\* mutant: the value that loses its register is still recorded there
RefreshKeepsOld(f, k, v) ==
  /\ reg_map' = [reg_map EXCEPT ![f][k] = v]
  /\ value_reg' = [u \in Homed |-> IF u = v THEN k ELSE value_reg[u]]

\* refresh_reg and refresh_freg
Refresh(f, k, v) ==
  /\ reg_map' = [reg_map EXCEPT ![f][k] = v]
  /\ value_reg' = [u \in Homed |->
                     IF u = reg_map[f][k] THEN None ELSE IF u = v THEN k ELSE value_reg[u]]

Evict(r) == IF HeldIn(r) \in Instrs THEN <<Store({HeldIn(r)})>> ELSE << >>

InRegister == {v \in Homed : value_reg[v] # None}

Waiting(what) == todo # << >> /\ Head(todo)[1] = what
Operand == Head(todo)[2]
Done(what) == Waiting(what) /\ todo' = Tail(todo)

\* get_value_reg_freg finds the value in a register
Hit ==
  /\ Waiting("get") /\ Operand \in InRegister
  /\ got' = Append(got, <<<<File(Operand), value_reg[Operand]>>, Operand>>)
  /\ todo' = Tail(todo)
  /\ UNCHANGED <<input, live, numbers, cache, pins, current_bb_num, ins, asm>>

\* it gets a register and loads the value, unless it is what the instruction computes
Miss ==
  /\ \/ Waiting("get") /\ Operand \notin InRegister
     \/ Waiting("claim")
  /\ \E v \in {Operand} : \E f \in {File(v)} : \E k \in Victim(f) :
       LET float == v \in Consts \cap Floats
           load  == IF v = Inst.id \/ float THEN << >> ELSE <<Move({<<Home(v), <<f, k>>>>})>>
       IN  /\ Refresh(f, k, v)
           /\ got' = Append(got, <<<<f, k>>, v>>)
           /\ asm' = Emitted(Evict(<<f, k>>) \o load)
           /\ todo' = (IF float THEN << <<"make", v>> >> ELSE << >>) \o Tail(todo)
  /\ UNCHANGED <<input, live, numbers, pins, current_bb_num, ins>>

\* load_float_imm: the bits go through an integer register, which reg_map says holds 0
Make ==
  /\ Done("make")
  /\ \E k \in Victim("g") :
       /\ Refresh("g", k, Zero)
       /\ asm' = Emitted(Evict(<<"g", k>>)
                           \o <<Move({<<Home(Operand), Last(got)[1]>>, <<NoPlace, <<"g", k>>>>})>>)
  /\ UNCHANGED <<input, live, numbers, pins, current_bb_num, ins, got>>

PinLast ==
  /\ Done("pin")
  /\ pins' = pins \cup {Last(got)[1]}
  /\ UNCHANGED <<input, live, numbers, cache, current_bb_num, ins, got, asm>>

-----------------------------------------------------------------------------
(***************************************************************************)
(* The other steps of the handlers.                                        *)
(***************************************************************************)
Emit(code) ==
  /\ asm' = Emitted(code)
  /\ UNCHANGED <<input, live, numbers, cache, pins, current_bb_num, ins>>

Pass ==
  /\ Done("pass")
  /\ Emit(<<Move({<<Last(got)[1], Arg(Operand)>>})>>)
  /\ got' = Front(got)

\* A phi that is in a register changes there, and always in its slot.  A float is not
\* moved: the register of the phi is set to zero, then the operand is added to it.
PhiCopy ==
  /\ Done("phi")
  /\ \E from \in {Last(got)[1]}, r \in {<<File(Operand), value_reg[Operand]>>} :
       Emit((IF Operand \notin InRegister THEN << >>
             ELSE IF r[1] = "f" THEN <<Move({<<NoPlace, r>>}), Move({<<from, r>>})>>
             ELSE <<Move({<<from, r>>})>>)
            \o <<Move({<<from, Home(Operand)>>})>>)
  /\ got' = Front(got)

\* mutant: only branches with two targets
LeavesCacheTwo(b) == Cardinality(Succs(b)) > 1

\* Set_livevar_out: the branch leaves to more than one block or to a join
LeavesCache(b) == Cardinality(Succs(b)) > 1 \/ \E s \in Succs(b) : Cardinality(Preds(s)) > 1

SaveLive ==
  /\ Done("savelive")
  /\ Emit(IF LeavesCache(BB) THEN <<Store(BB_OUT[BB] \cap Instrs)>> ELSE << >>)
  /\ UNCHANGED got

\* gen_call around the call
SaveAll ==
  /\ Done("saveall")
  /\ Emit(<<Store(Instrs)>>)
  /\ UNCHANGED got

ReloadAll ==
  /\ Done("reloadall")
  /\ Emit(<<Load(Homed)>>)
  /\ UNCHANGED got

Take ==
  /\ Done("take")
  /\ Emit(<<Move({<<Result, Last(got)[1]>>})>>)
  /\ UNCHANGED got

\* The instruction proper: what it reads, where its result is, what it destroys.
\* fptosi converts in the register of its operand; a call keeps no register.
IsCall(i) == i.op \in {"call", "voidcall"}

Reads(i) ==
  IF IsCall(i) THEN {<<Arg(j), i.ops[j]>> : j \in DOMAIN i.ops}
               ELSE {g \in Range(got) : g[2] # i.id}

To(i) ==
  IF i.op = "call" THEN Result
  ELSE IF IsVoid(i) THEN NoPlace
  ELSE LET own == {g[1] : g \in {g \in Range(got) : g[2] = i.id}} IN CHOOSE r \in own : TRUE

Kills(i) ==
  IF IsCall(i) THEN UNION {{f} \X Regs(f) : f \in Files} \cup {Arg(j) : j \in DOMAIN i.ops}
  ELSE IF i.op = "fptosi" THEN {got[1][1]} ELSE {}

Execute ==
  /\ Done("exec")
  /\ Emit(<<[do |-> "exec", id |-> Inst.id, reads |-> Reads(Inst), to |-> To(Inst), kills |-> Kills(Inst)]>>)
  /\ UNCHANGED got

-----------------------------------------------------------------------------
(***************************************************************************)
(* run: the blocks in bb_order, the instructions of a block in order.      *)
(***************************************************************************)
NextBlock ==
  /\ lpc = "done" /\ calls = << >> /\ todo = << >>
  /\ current_bb_num < Len(bb_order)
  /\ current_bb_num > 0 => ins = Len(body[BB])
  /\ current_bb_num' = current_bb_num + 1
  /\ ins' = 0
  /\ todo' = << <<"enter", Null>> >>
  /\ got' = << >> /\ pins' = {}
  /\ UNCHANGED <<input, live, numbers, cache, asm>>

\* Set_reg_freg_enter: the cache is what the block before it in bb_order left; unless
\* every way into the block comes from there, what is live is loaded again
NotFromPrevious(b) ==
  \/ Cardinality(Preds(b)) > 1
  \/ current_bb_num > 1 /\ bb_order[current_bb_num - 1] \notin Preds(b)

EnterBlock ==
  /\ Done("enter")
  /\ Emit(IF NotFromPrevious(BB) THEN <<Load(BB_IN[BB] \cap Homed)>> ELSE << >>)
  /\ UNCHANGED got

NextInstr ==
  /\ todo = << >> /\ current_bb_num > 0 /\ ins < Len(body[BB])
  /\ ins' = ins + 1
  /\ todo' = Steps(body[BB][ins + 1])
  /\ got' = << >> /\ pins' = {}
  /\ UNCHANGED <<input, live, numbers, cache, current_bb_num, asm>>

Compiled ==
  /\ bb_order # << >> /\ current_bb_num = Len(bb_order)
  /\ ins = Len(body[BB]) /\ todo = << >>

Init ==
  /\ \E fn \in Functions : body = fn.body /\ succ = fn.succ
  /\ BB_def = [b \in Blocks |-> {}] /\ BB_use = BB_def /\ BB_IN = BB_def /\ BB_OUT = BB_def
  /\ lpc = "def" /\ lat = 1 /\ lcont = FALSE
  /\ calls = << >> /\ visit = {} /\ bb_order = << >>
  /\ num = 0 /\ named = {}
  /\ begin_num = [v \in Homed |-> 0] /\ end_num = begin_num
  /\ reg_map = [f \in Files |-> [k \in Regs(f) |-> Null]]
  /\ value_reg = [v \in Homed |-> None]
  /\ pins = {} /\ current_bb_num = 0 /\ ins = 0 /\ todo = << >> /\ got = << >>
  /\ asm = [b \in Blocks |-> << >>]

Number == StartNumbers \/ NumberInstr \/ Descend \/ Return

Handle ==
  \/ Hit \/ Miss \/ Make \/ PinLast \/ Pass \/ PhiCopy
  \/ SaveLive \/ SaveAll \/ ReloadAll \/ Take \/ Execute

Next == RunLiveVar \/ Number \/ NextBlock \/ EnterBlock \/ NextInstr \/ Handle

\* one thread compiles: it runs until the code is complete
Spec == Init /\ [][Next]_allocVars /\ WF_allocVars(Next)

-----------------------------------------------------------------------------
(***************************************************************************)
(* Properties.                                                             *)
(***************************************************************************)

\* A value recorded in a register is what reg_map has there, so that a hit never
\* hands out a register that was given to another value.
HitsBacked ==
  \A v \in Homed : value_reg[v] # None => reg_map[File(v)][value_reg[v]] = v

\* No request for a register takes one that the instruction has pinned.
PinnedKept ==
  [][\A r \in pins : reg_map'[r[1]][r[2]] = reg_map[r[1]][r[2]]]_allocVars

\* When the instruction is emitted, every register it was given for an operand or
\* for its result still holds it: pins cover all the requests that come in between.
OperandsHeld ==
  Waiting("exec") /\ ~IsCall(Inst) => \A g \in Range(got) : HeldIn(g[1]) = g[2]
=============================================================================
