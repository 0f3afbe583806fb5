----------------------------- MODULE RegMachine -----------------------------
(***************************************************************************)
(* A function compiled by one of the two code generators, and the emitted  *)
(* code executed along the branches of the function.                       *)
(* A place of the machine holds the names of the SSA values whose current  *)
(* value is in it: a copy copies them, an instruction leaves its result in *)
(* one place and out of date everywhere else, and an edge gives a phi the  *)
(* value of its operand for that edge.                                     *)
(***************************************************************************)
EXTENDS SlotCode

CONSTANTS
  Params,           \* the arguments in their order
  Pointers, Bools,  \* the values of pointer type and of type i1
  Elem,             \* size of what an alloca holds, of an array the size of an element
  Length,           \* number of elements of the allocas of array type
  Junk              \* read where an operand should be and is not

ASSUME LengthAssumption == Length \in [DOMAIN Length -> Nat] /\ Elem \in [Instrs -> {1, 4, 8}]
ASSUME TypesAssumption ==
  /\ Params \in Seq(Args)
  /\ \A fn \in Functions, b \in Blocks : \A i \in Range(fn.body[b]) :
       /\ i.op \in {"alloca", "gep"} => i.id \in Pointers
       /\ i.op \in {"icmp", "fcmp"} => i.id \in Bools

VARIABLES
  regalloca,                               \* the code generator, by the option of the command line
  items, offset, offset_map, frame_size,   \* the frame
  block, next,   \* the block and the last line of asm[block] that ran; block 0 before the call
  count, seen,   \* instructions executed in the block, the values the last one read
  content        \* what the places hold

machine == <<block, next, count, seen, content>>
frame == <<items, offset, offset_map, frame_size>>
vars == <<allocVars, regalloca, frame, machine>>

-----------------------------------------------------------------------------
(***************************************************************************)
(* The frame of the function: an item for every argument and instruction.  *)
(***************************************************************************)
\* get_type()->get_size()
SizeOf(v) == IF v \in Pointers THEN 8 ELSE IF v \in Bools THEN 1 ELSE 4

ItemOf(i) ==
  [kind |-> IF IsVoid(i) THEN "void"
            ELSE IF i.op # "alloca" THEN "value"
            ELSE IF i.id \in DOMAIN Length THEN "array" ELSE "scalar",
   size |-> SizeOf(i.id),
   elem |-> Elem[i.id],
   area |-> IF i.id \in DOMAIN Length THEN Elem[i.id] * Length[i.id] ELSE 0]

ParamItem(v) == [kind |-> "value", size |-> SizeOf(v), elem |-> SizeOf(v), area |-> 0]

FrameItems ==
  [k \in DOMAIN Params |-> ParamItem(Params[k])]
  \o FlattenSeq([b \in Blocks |-> [k \in DOMAIN body[b] |-> ItemOf(body[b][k])]])

Layout == INSTANCE Frame

Allocate ==
  /\ regalloca => lpc = "done"
  /\ UNCHANGED <<allocVars, regalloca, machine>>
  /\ Layout!FrameNext

Generate ==
  /\ IF regalloca THEN (lpc = "done" => frame_size # 0) /\ Next
                  ELSE frame_size # 0 /\ SlotNext
  /\ UNCHANGED <<regalloca, frame, machine>>

Generated == IF regalloca THEN Compiled ELSE SlotsCompiled

-----------------------------------------------------------------------------
Places ==
  {Home(v) : v \in Values} \cup UNION {{f} \X Regs(f) : f \in Files}
    \cup {Arg(j) : j \in 1 .. Cardinality(Values)} \cup {Result, NoPlace}

\* gen_prologue has stored the arguments; constants and globals are where they always are
MachineInit ==
  /\ Init
  /\ regalloca \in BOOLEAN /\ items = FrameItems /\ Layout!FrameInit
  /\ block = 0 /\ next = 0 /\ count = 0 /\ seen = {}
  /\ content = [p \in Places |-> IF p[1] = "home" THEN {p[2]} \ Instrs ELSE {}]

Line == asm[block][next + 1]
Ready(what) == block # 0 /\ next < Len(asm[block]) /\ Line.do = what

CallFunction ==
  /\ Generated /\ block = 0
  /\ block' = 1
  /\ UNCHANGED <<allocVars, regalloca, frame, next, count, seen, content>>

RunMove ==
  /\ Ready("move")
  /\ content' = [p \in Places |->
                   IF \E m \in Line.moves : m[2] = p
                   THEN UNION {content[m[1]] : m \in {m \in Line.moves : m[2] = p}}
                   ELSE content[p]]
  /\ next' = next + 1
  /\ UNCHANGED <<allocVars, regalloca, frame, block, count, seen>>

SeenBy(line) == {IF r[2] \in content[r[1]] THEN r[2] ELSE Junk : r \in line.reads}

After(line) ==
  [p \in Places |->
     IF p = line.to /\ p # NoPlace THEN {line.id}
     ELSE IF p \in line.kills THEN {} ELSE content[p] \ {line.id}]

OperandFor(phi, b) == {phi.ops[j] : j \in {j \in DOMAIN phi.ops : phi.from[j] = b}}

\* on the edge from b to s
Renamed(b, s) ==
  LET phis == Range(Phis(s))
      ids  == {p.id : p \in phis}
  IN  [p \in Places |-> (content[p] \ ids) \cup {q.id : q \in {q \in phis : OperandFor(q, b) \cap content[p] # {}}}]

IsBranch(line) == line.id \in {i.id : i \in {i \in Range(body[block]) : i.op = "br"}}

RunInstr ==
  /\ Ready("exec") /\ ~IsBranch(Line)
  /\ seen' = SeenBy(Line)
  /\ content' = After(Line)
  /\ next' = next + 1 /\ count' = count + 1
  /\ UNCHANGED <<allocVars, regalloca, frame, block>>

RunBranch ==
  /\ Ready("exec") /\ IsBranch(Line)
  /\ seen' = SeenBy(Line)
  /\ \E s \in Succs(block) :
       /\ block' = s
       /\ content' = Renamed(block, s)
  /\ next' = 0 /\ count' = 0
  /\ UNCHANGED <<allocVars, regalloca, frame>>

MachineNext == Allocate \/ Generate \/ CallFunction \/ RunMove \/ RunInstr \/ RunBranch

MachineSpec == MachineInit /\ [][MachineNext]_vars /\ WF_vars(Allocate \/ Generate)

-----------------------------------------------------------------------------
Ssa == INSTANCE SsaFunction

\* allocate never gives out a byte of the frame twice: whatever it adds to the frame
\* is apart from what is there, and in the end all of it is above $sp.
FrameDisjoint == [][frame' # frame => Layout!FrameDisjoint']_vars

\* Code generation comes to its end; in particular there is always a register to take.
CompileEnds == <>Generated

\* The emitted code executes the instructions of the function, in an order its blocks
\* allow, and each of them gets the values its operands name: whatever the cache of
\* registers remembered along bb_order is true along every branch.
ImplementsSsa == Ssa!SsaSpec

\* An instruction of the emitted code reads each of its operands where it is.
OperandsFound == Junk \notin seen
=============================================================================
