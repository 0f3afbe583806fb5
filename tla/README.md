# SysY compiler: verification models

TLA+ models of the SysY-to-LoongArch compiler (`src/`), model-checked with TLC,
with theorems checked by TLAPS. Paths below are relative to the repository.
`PROJECT.json` maps every definition to the lines it stands for.

## The system

The compiler is a sequential batch program. What is hard in it is not
concurrency but data structures that are rewritten while they are walked, work
lists that grow while they are drained, state shared by nested recursive visits,
and analyses whose results later passes trust without a check. There are no unit
tests: two shell scripts compile whole programs and compare their output.

| Component | State it keeps | Operations | Talks to |
|---|---|---|---|
| Driver (`src/SysY/SysY.cpp`, `PassManager.hpp`) | options, list of passes | parse, build the AST, lower, run passes in order (`-o1`, `-o2`: Mem2Reg, DeadCode, ConstantSpread, LoopHoist), print LLVM or assembly | everything |
| Parser (`src/parser`) | flex/bison state | text to `syntax_tree` | AST |
| AST (`src/common/SysY_AST.cpp`) | constant maps, `ast_tmp_*` | tree building, constant evaluation, flattening of initialisers | builder |
| SysY_Builder (`src/SysY/SysY_Builder.cpp`, `.hpp`) | insert block, `break_BB`, `continue_BB`, scopes, `tmp_val` | one `visit` per node | light IR |
| Light IR (`src/lightir`) | blocks, edge lists, instruction lists, operand and use lists | constructors, `set_operand`, `replace_all_use_with`, erasure | all passes |
| Dominators | `dom_`, `idom_`, `dom_frontier_` | three computations per function | Mem2Reg |
| Mem2Reg | `val_stack`, `phi_val_map`, `bb_renamed` (globals) | `generate_phi`, `rename` | light IR |
| FuncInfo | `is_pure`, `worklist` | `trivial_mark`, `process` | DeadCode |
| DeadCode | `marked`, `work_list` | `mark`, `sweep`, repeated | light IR |
| ConstantSpread, FindLoop, LoopHoist | loops, hoist candidates | folding, natural loops, code motion | light IR |
| LiveVar | `BB_def`, `BB_use`, `BB_IN`, `BB_OUT` | one fixpoint per function | RegAlloca |
| RegAlloca (`CodeGen_Reg`, `-o2`) | frame offsets, numbering, which register holds which value | one `gen_*` handler per instruction, eviction, saving and loading at block borders | LiveVar |
| CodeGen (`-o0`, `-o1`) | frame offsets, output | one `gen_*` handler per instruction, phi copies, data of globals | driver |
| Runtime library (`run_lib`) | timers | I/O, timing | the compiled program |

What makes each part correct, and where it could fail, is listed line by line
under `hazards` in `PROJECT.json`.

## Modules

    Ir <- Lowering <- LoweringProofs                  front end
    Ir <- Dominators <- DominatorsProofs
    Iterate <- Ir; Iterate <- IterateProofs           iteration, and its lemmas
    Ir <- Mem2Reg <- LoweredMem2Reg                   front end to SSA form, executed
                     <- PhiCopies <- PipelineProofs   the same, then the copies of gen_phi
    LiveVar <- LiveVarProofs
    LiveVar <- RegAlloca                              code generator with registers
               <- SlotCode <- RegMachine              the other one; emitted code, executed
    Frame, SsaFunction <- RegMachine <- BackEndProofs frame layout; what RegMachine refines
    Loops                                             FindLoop and LoopHoist
    ArrayInit                                         initialisers, from braces to data
    UseDef <- UseDefProofs
    FuncInfo <- DeadCode <- DeadCodeProofs            (both passes)

`LoweredMem2Reg` instantiates `Lowering` and `Dominators`, `RegAlloca` instantiates
`LiveVar`, and `RegMachine` instantiates `Frame` and `SsaFunction`; `PipelineProofs`
instantiates `LoweringProofs` and `DominatorsProofs`, whose theorems it applies.
`DominatorsProofs`, `LoweringProofs` and `PipelineProofs` instantiate `IterateProofs` once
for each iteration they reason about. The other arrows are EXTENDS. The `MC...` modules give
the instances that TLC checks.

**`Ir`** is the body of one function as a record: per block the successor and
predecessor lists (`succ_bbs_`, `pre_bbs_`) and the instructions, the builder's
insert point `cur`, and `aborted`, set when the assertion of
`BasicBlock::add_instruction` fails. Its operators are the IR calls the front end
makes. Blocks are numbered in creation order. Arithmetic and comparisons are
left out: no pass modelled here looks at them.

**`Lowering`** is `SysYBuilder` on one function. The syntax tree is not given:
each visit takes any statement the grammar allows, so the behaviours of the
module are the walks over all function bodies within the bound. The C++ call
stack of nested `visit` calls is `frames`, one record per open statement holding
the blocks that the rest of that `visit` needs; the `End...` actions are the code
after the nested `accept`. A body that is a single statement is treated as a
block of that one statement, and an empty block opens and closes a scope that the
code does not open: neither can be observed, as no name is declared there.
Conditions keep their shape of `||` and `&&`, since this decides the blocks.

**`Dominators`** has one action per iteration of the innermost loops. It never
assumes where its graph comes from, beyond the lists mentioning existing blocks
and nothing leading to the entry.

**`Mem2Reg`** leaves the body as the front end built it and keeps its changes
beside it: phis with their operand pairs, the replacement of each load, the erased
stores. `rename` is recursive; `calls` is its call stack, so pushes and pops are
separated by the callees as in the code. `work_list` is processed in any order,
because it starts as a set ordered by address. `LoweredMem2Reg` runs front end,
Dominators and Mem2Reg one after the other and then executes the original and the
promoted function on the same arbitrary path; the executions are the meaning of
loads, stores and phis in LLVM IR and have no counterpart in the code.

**`PhiCopies`** adds a third execution: the stack slots of the compiled function.
`CodeGen::gen_phi` runs before the branch of every block and copies, for each
successor and each phi in block order, the operand for this block into the slot
of the phi. Phis stand in the reverse order of the addresses of their allocas, the
same order in every block; `order` is any such order. DeadCode, ConstantSpread and
LoopHoist run in between and are left out; they do not reorder phis.

**`LiveVar`** has one action per block of each of the three loops of the pass. An
instruction of a block has a result and operands, and a phi takes each of its operands
from a predecessor. The pass forgets the order of instructions and the edge of an
operand; the properties do not. `LiveKept` takes a phi to use its operand at the end of
the predecessor it names, which is where the code for it is emitted. It states the one
exception that the code makes: an operand of a phi that is defined in the block of the
phi itself (`x = phi [x, latch]`, or two phis of a header that change places) counts
as defined there (`LiveVar.cpp:55`) and is not kept for this phi. The finding
`reg_alloca_hole` is what comes of it. `NothingExtra` says that the solution is not larger than
need be, except that any predecessor of a block with a phi may be given its operands.

**`RegAlloca`** is `CodeGen_Reg` on one function. The registers are a cache of the stack
slots: `reg_map` says what a register holds, `value_reg` where a value is, and both are kept
from block to block along `bb_order`, the order in which code is laid out, which is not the
order of the branches. A `gen_*` handler is a list `todo` of requests for registers and of
emissions, in the order of its calls; one step serves one of them, so that an eviction for a
later operand comes between the request for an earlier one and its use. `pins` is
`instr_reg_operand`, the set that is meant to prevent this. `set_instr_number` is recursive;
`calls` is its stack. Emitted code keeps what moves values and which places an instruction
reads and writes. The copy into a phi of type float that has a register is two instructions,
as in the code: the register is zeroed, then the operand is added (`RegAlloca.cpp:841`).
Left out: offsets beyond 12 bits, for which the code takes one more register, and the text
of instructions.

**`SlotCode`** is `CodeGen`, where nothing stays in a register. It emits code of
the same form, so both code generators run on the same machine.

**`RegMachine`** lays out the frame, generates the code with either generator
(`regalloca`, the option of the driver), and executes it. A place (a register or a slot) holds
the names of the SSA values whose current value is in it; an instruction that reads
a place where its operand is not sees `Junk`. `ImplementsSsa` is refinement: with
the emitted code, the registers and the slots hidden, a run of the compiled
function is a run of **`SsaFunction`**, where each instruction gets the values its
operands name. That covers the cache along `bb_order`, saving and loading at the edges,
the phi copies, the calls that save registers, and evictions, in one statement.

**`Frame`** is `allocate()`, the same in both generators, with `gen_alloca`, which
computes the address of an array again from its slot. `RegMachine` gives every argument and
instruction the size of its type: 8 for pointers, array parameters and allocas among
them, 1 for conditions, 4 for `int` and `float`.

**`Loops`** has one action per block of `GetLoop`, per loop of `MergeNode`, per
block of `Extract`, and per phase of `LoopExtract` for a loop. A phi keeps its
operands as the code does, values and blocks in one list, and `remove_operand`
takes out the first place that matches. Sets of pointers are walked in any order:
loops of one size, and the instructions to be copied, which `LoopHoist.cpp:266` takes
in the order of their addresses. Loops of one header share their new block, and copying into a
block that already ends in a branch sets `aborted`.
`Extract` looks up an operand pointer that was never set when the operand is a
global: it may be found among the unchanged values or not, so both are explored.
The branch for a phi left without operands (`LoopHoist.cpp:250`) cannot be reached,
because the pair of the latch stays.

**`ArrayInit`** follows a declaration through `Getinitarray_const` or
`Getinitarray_var` of the AST, the stores or the nested constants of `SysYBuilder`,
and the words that `CodeGen` writes. Array bounds and elements are small numbers; a local
array that is "long" in the code (10000 elements) is long from `MAX` on. The
property compares the result with what the language says of the braces (`Meant`),
which is written independently of the code.

**`UseDef`** is the two lists of `User` and `Value`. `replace_all_use_with` is one
step per `set_operand`, any use first; no other call is made between its steps,
as in the code. Use lists are sets of pairs, because `remove_use` deletes every
equal record. `RemoveOperand` is used under the condition its one caller
(`LoopHoist.cpp:242-249`) meets: the operand and its right neighbour differ.

**`FuncInfo`** and **`DeadCode`** abstract a function to its calls, its
parameters and the roots of its addresses, and an instruction to its kind and
operands. Work lists are sets: the results are proved independent of the order.

## Runs

| Run | Shows | Bounds and why they suffice |
|---|---|---|
| `lowering` | no append after a terminator; the edge lists mirror each other; loop stacks and scopes follow the nesting; every block ends; loops are reducible; phis of conditions match predecessors; headers store nothing | all condition shapes up to 2 by 2, and 3 by 1 by 2; 5 statements, where the phis of a condition count too and, with a variable, 3: three levels of nesting with an exit in each, a condition inside another's loop or arm, declarations in loops |
| `mem2reg` | `dom_`, `idom_`, `dom_frontier_` are what they are called; no assertion fails, the stacks are balanced, nothing stays in memory; the promoted function reads what the original read; the compiled one too when no phi takes a phi of its block; both passes end | two variables, 3 statements, expressions may read `y`, `a` and `a && b` as conditions: copies of one variable into the other, nested loops, unreachable joins as second roots |
| `phi_copies_swap` | violated: see Findings | the same with plain conditions |
| `use_def` | the two lists always agree, a replacement changes nothing else and ends | a constant and two instructions, 3 operands: repeated and self operands, mutual use |
| `dead_code` | purity is exact; what is deleted and kept; the pass ends | a library function, a function with one instruction, one that calls it, `main` with three instructions: cycles in calls and in operands |
| `live_var` | no value that is still used is missing from the live sets, with the exception above, and none is in them without need | 3 blocks, one value in every role, operand of a phi on any edge included (values do not interact), any edges: chains and loops that take three rounds against the flow |
| `reg_alloca` | the frame is disjoint; the two directions of the cache agree; pinned registers are not taken and are held when the instruction is emitted; the compiled function implements the one in SSA form, with both generators; compilation ends | 6 blocks, 3 registers of each kind and 1 argument register instead of 9, 16 and 8, so that registers run out in nearly every block; a loop with an `if`, nested loops in both layouts, floats (a loop with a float phi in its header too), memory, each with many choices of operands |
| `reg_alloca_hole` | violated: see Findings | one function with a rotation of variables |
| `loop_hoist` | nesting; edges and branches agree; phis match predecessors; what is moved is computed on every path to its uses, and runs once | nested, consecutive, sibling and triply nested loops, one with an `if`, one with an unreachable latch and two of one header, with fixed, changing and global-based chains of instructions; where anything is moved, a header has one predecessor outside its loop, so that its phis are rewritten in place: the other branch is that of `loop_hoist_continue` |
| `loop_hoist_continue` | violated: see Findings | the same chains in a loop with two back edges |
| `array_init` | the array holds what the initialiser says; the levels reduce to one constant | dimensions 1, 3, 2x2, 2x3, 3x2, 2x2x2; rows and groups missing, short, zero, flat, or flat rows before braces at either depth; braces after values that fill no group when nothing follows them (otherwise see `MCArrayInit_partial`); `MAX` is 9, so that the largest arrays are long |
| `array_init_const` | violated: see Findings | 2x2 tables of constants without a row left out |

Deadlock is checked where the system has a final stuttering step; FuncInfo,
DeadCode, LiveVar, RegMachine, Loops and ArrayInit simply stop at the end.

`FrontierExact` states the frontier without the header itself, which is what the
code computes (`Dominators.cpp:145` tests non-strict dominance); the textbook
frontier has a header in its own frontier. `HeaderHasNoStore` is why this is
harmless: only condition blocks are headers, and conditions assign nothing.

### Findings

`phi_copies_swap` finds the lost-copy problem. In

    while (c) { x = y; y = 1; }

both variables get a phi in the loop header, and the operand of `x` is the phi of
`y`. When the phi of `y` comes first, `gen_phi` (`codegen/CodeGen.cpp:721`) stores
the new `y` before it loads the operand of `x`, so `x` is 1 at once. Whether a
given program is hit depends on the order of its phis. `SlotsAgreeUnlessSwapped`
shows that this is the only case, and that the other suspicious thing about
`gen_phi`, copying for the successor that is not taken, is harmless there.

`reg_alloca_hole` shows what `LiveVar` misses when a phi is the operand of another phi of
its own block, as in `s = j; j = ...;` in a loop. The value is neither used in that
block nor live at its end by the sets of the pass, so it is not loaded again where
branches join. Its uses stand in the branch that is laid out before the latch, so the
cache takes it to be in a register there. Control that comes by the other branch stores
what this register happens to hold to the slot, and an instruction after the join reads
that. A `continue` that leaves a variable unchanged (`x = phi [x, latch]`) meets the same hole.

`loop_hoist_continue`: two latches carry the same value to the header. Each back
edge is a loop of its own for `FindLoop`, so the other latch counts as outside and
its pair moves to the phi of the new block; `get_operand_num` finds the first equal
value instead, and the phi of the header is left with its list of values and blocks out of step.

`array_init_const`: `visit(ASTConstdef)` fills a row in `val` and clears it only if
the row is all zeros, whereas `visit(ASTVardef)` clears it always. Later rows of a
global table of constants are built from the values of the first ones.

The scripts that test the compiler compile whole programs with `-o1`
(`test_func.sh:22`) and `-o2` (`test_perf.sh:19`), which take these paths, and require the
output to be right (`test_func.sh:43`, `test_perf.sh:41`).

`array_init` passes on the declarations outside `KnownToFail` (`MCArrayInit`), which
names the ones that go wrong (its initialisers have values that fill no group before braces
only if the braces are last):

- global tables of constants with a value in a row before the last, or with zeros
  alone, or with three dimensions (the finding above and its variants);
- global variables of three dimensions with a group of zeros after one that is not
  (a leftover `rel_val`, `SysY_Builder.cpp:448`);
- zeros of local constant arrays, which are never stored (`SysY_Builder.cpp:272`),
  and zeros not written out of local arrays of `MAX` elements or more (`:508`), which
  hold what the stack held;
- global arrays with a dimension of 1, which `gen_global_array_init` takes for
  zeros (`CodeGen.cpp:760`);
- of every kind of array, values that fill no group, then braces, then anything more (the
  configuration `MCArrayInit_partial`, see below).

### Known to go wrong beside the runs

Four more configurations give a counterexample each. The passing runs leave these cases out: the
functions of `reg_alloca` have no float phi that is its own operand, `loop_hoist`
asks nothing of the order of copies and moves nothing out of two loops of one header,
and `array_init` has no braces in the place described.

`MCRegAlloca_unchanged`, `OperandsFound`: `gen_phi` moves a float into the register of a phi
by zeroing this register and adding the operand. A phi that is its own operand is in the
register that was zeroed, so after

    while (c) { if (d) continue; x = x + 0.5; }

has taken the `continue` once, `x` is 0 in its register and in its slot. An `int` is moved
by one addition, which is right; with such a move for floats this configuration finds
nothing.

`MCLoops_order`, `DefsBeforeUses`: the instructions to be moved are a set of pointers, and
copies are made in the order of addresses. When `m2` uses `m1` and has the lower address,
the copy of `m2` comes first and computes with a value that is not there yet. Creation order
is no guarantee of address order: `del_syntax_tree` (`SysY_AST.cpp:33`) frees the tree
before the builder allocates. `DefsReachUses`, which `loop_hoist` checks, leaves the order
within a new block open, and holds.

`MCLoops_abort`, `NoInsertAfterBranch`: in a loop with a `continue`, where there is
something to move on the way of either back edge, each back edge is a loop and both have one
header. The second of them gets the new block of the first (`LoopHoist.cpp:265`), which has
its branch already, and the assertion of `BasicBlock::add_instruction` stops the compiler.

`MCArrayInit_partial`, `InitialValues`: in `int a[2][2][2] = {1, 2, {3}, 4};` the braces
stand for the row `a[0][1]`, as the two values before them fill one row and no group, and
the 4 belongs to `a[1][0][0]`. `Getinitarray_var` steps over every list in braces by the
size of a part of the depth it is at (`SysY_AST.cpp:120`), here a whole group, and stores
the 4 two elements too far on.

### Fairness

Everything runs in one thread, so a step that is enabled is taken. Liveness is stated under
weak fairness of the pass's own step: `RunDominators` and `RunMem2Reg`, `ReplaceStep` and
`ReplaceDone`, `DeadNext`, and `Allocate` or `Generate` of RegMachine. It is never asked of
the front end, which may stop at any statement, nor of the compiled function, which may
loop.

## Proofs

All are for every value of the constants: any number of blocks, variables, values,
registers and functions, any nesting and any graph.

**Use-def lists** (`UseDefProofs`): `TypeCorrect`, `ListsAgree`, `NoDangling`,
`ReplaceExact`. The invariant is `UsesMirrorOperands` with the typing and the fact
that operands are alive or null; one step per operation. `ListsAgree` does not need
the operations to come in any order.

**FuncInfo and DeadCode** (`DeadCodeProofs`): `TypeCorrect`, `PurityCorrect`;
`NoDanglingUse`, `DeletionSafe`, `DeletionComplete`. For purity: every function
marked impure lies in each set closed under callers, and a function whose callee is
impure is impure or has that callee still on the list. For deletion: an operand of a
marked instruction is marked or its user is pending, marked instructions lie in every
closed set, and a round that has changed nothing left exactly the marked instructions
in the functions it passed.

**Dominators** (`DominatorsProofs`): `TypeCorrect`, `DomDecreases`,
`DominatorsCorrect`, and `DomExactHolds`, `IdomExactHolds`, `FrontierExactHolds`.
The sets of `create_dom` are above every solution of the equations and each `dom[b]`
contains its next value (so rounds go down); when a round changes nothing they solve
the equations, and the greatest solution is path dominance. From then on they stay
(`IdomsInv`), strict dominators of a block form a chain, and the search of
`create_idom` has passed only blocks that the closest of them dominates, so it stops at
that one whatever the order of its queue. The climb along `idom_` leaves, for each
edge passed, the header in the frontier of just the blocks it should
(`FrontierInv`). The last three need that the two edge lists mirror each other
(`Mirrored`) and, for `idom_`, that no block branches to itself (`NoSelfLoop`); the
front end guarantees both, which is proved, see below.

**Iteration** (`IterateProofs`, instantiated once per use with the step and with what
is known of its results): a run of `RunThrough` keeps what each of its steps keeps, by
the least step that would not, and two runs that take related steps stay related.
`LimitIsHull` says that `Limit` ends at the least set that contains its start and is
closed under the step, by taking a largest set for which it would not; `ReachFrom` is
one such limit.

**Front end** (`LoweringProofs`): `IInvHolds`, and from it
`NoInsertAfterTerminatorHolds`, `EdgesMirrorHolds`, `StacksFollowFramesHolds`,
`CondPhisMatchPredsHolds` and `AllBlocksEndHolds`. None of these is inductive. The
invariant has four parts:

- `Body`: the two edge lists mirror each other without duplicates, no block branches
  to itself or to the entry, only blocks that end in a branch have successors, a phi
  lists exactly the predecessors of its block, every block hangs off one
  without predecessors, and no two loads have the same name (`LoadsOnce`);
- `Framed`: no block is without a terminator but the insert block and those in which
  pending visits will continue; the latter are all different, none is the insert
  block or the entry, and none holds a phi yet, so that a branch may be added to them;
- `LoopStacks` and `Scopes`: `break_BB`, `continue_BB` and the scopes are read off
  the pending visits.

The proof goes up the calls: what one call of the builder does to `Body`; what a `&&`
chain and a `||` chain of any length do (`Operands`: each operand ends in an open block
of its own; `Joining`: these are branched one by one to the block of the join), which
gives `Lowered` for a condition; then one lemma per visit.

`LoadsFollowStores` says that on every path to a load its variable has been stored. It
has a witness: `Assigned(ir, A)` says of a relation `A` of variables and blocks that what
`A` gives a block has been stored, or given by `A`, in each of its predecessors, and that a
load is of a variable that `A` gives its block or that the block has stored before. The
invariant (`SafeInv`) is that there is such an `A` in which, besides, all variables in scope
have been stored when the insert block ends, and each block that a pending visit will still
branch to, or continue in, is given just what was in scope where that visit began (`ExitsOK`).
A visit leaves the code before it as it is and loads only what is in scope (`Grown`), and
`A` grows by the variables in scope for the blocks it adds.

**Pipeline** (`PipelineProofs`), for the composition with the front end and Mem2Reg that
the run `mem2reg` checks, without conditions on the graph: `DomExactHolds`,
`IdomExactHolds`, `FrontierExactHolds`, `StacksFollowCallsHolds`,
`NoAssertionFailsHolds` and `FullyPromotedHolds`. `PipelineInv` says that the invariant
of the front end holds, that Dominators waits until it is done, and
that the invariants of Dominators hold. `Guarantee` is the interface: a `Body` is a
graph as Dominators needs it, `Mirrored` and `NoSelfLoop` included. The `Same...`
lemmas say that the operators of `Lowering` mean the same in both instances.

For Mem2Reg there are two more invariants. `RenInv` gives `StacksFollowCalls`: the stack of
each variable is what the pending calls have pushed, and each call takes off as many values
as it has pushed, one per phi and one per store, although the replacements have changed
between the two walks. What the second walk counts stays the same because loads have names
of their own (`LoadsOnce`) and a load that is stored is in the block of its store
(`Renamable`). `PromoteInv` gives the other two. The pending calls are a path of the graph
from the entry, so by `LoadsFollowStores` a stack has a value wherever a load asks for it
(`Supplied`): no pop and no load finds a stack empty. Neither the stacks nor the
replacements ever hold a loaded value, and every successor of a renamed block is renamed
unless a pending call still has to come to it (`Looked`), so that at the end all reachable
blocks are renamed.

**Liveness** (`LiveVarProofs`): `TypeCorrect`, `LiveIncreases`, `NothingMissed`,
`NothingAdded`. Every recorded value lies in each set closed against the edges, and a
further visit takes nothing away (`NothingAdded`). A round without change leaves sets
that are themselves closed, also for the operands of phis at the ends of predecessors
(`NothingMissed`). This is sound although the pass takes the operand of a phi for a use in
the block of the phi, except where that block defines it: the exception in `LiveKept`.

**Registers and frame** (`BackEndProofs`), for any function that the constructors of
`Instruction.cpp` let be built:

- `FrameSafe` for `Frame` alone, `FrameAlwaysDisjoint` for the frame of `RegMachine`, at
  every moment from the layout to the execution, and from it `FrameDisjointHolds`: each step
  of `allocate` leaves the parts apart. The sizes are those of the types, pointers included.
  What an item occupies begins where the items before it have ended, or further down, and
  ends within `offset`; `AlignBounds` says what rounding does.
- `HitsBackedHolds` for `RegAlloca`, `CacheAgrees` for the whole of `RegMachine`.
  `CacheInv` is the shape of the two maps and `HitsBacked`; the one lemma that matters
  says that a refresh clears the entry of the value the register held. Every handler
  changes the maps through it.
- `OperandsHeldHolds` and `PinnedKeptHolds`. What the handlers promise is not in any
  one state but in the list `todo` of what they are still going to do. `HandlerInv`
  says: each value obtained is used or pinned by the next step, or else no later one asks
  for a register of its file (`Schedule`, proved of the list of every
  handler, and of what is left of a list after each step); each register obtained still holds
  its value, and every pinned register holds one. An eviction takes a loose register, which
  is then neither pinned nor about to be used. The conversions `sitofp` and
  `fptosi` are the interesting case: they pin nothing, and are right only because the
  operand and the result are in different files.

### Assumptions

Counts are naturals, names of different kinds differ, `Null` is no value. Beyond that:

- `CondsAssumption`: a condition has at least one operand of `||`, and each of them
  at least one of `&&`, as the grammar has it (`NamesAssumption`,
  `MaxStmtsAssumption` and `SourceAssumption` are the finiteness and typing of the rest);
- `FunctionsAssumption` (`RegAlloca`): what the constructors in `Instruction.cpp`
  assert of number and type of operands, as far as registers depend on it;
  `BlocksAssumption` says that there is an entry;
- `LengthAssumption` and `TypesAssumption` (`RegMachine`): arrays have a number of elements of
  1, 4 or 8 bytes; the parameters are a sequence, addresses are pointers and the results of
  comparisons are conditions;
- `BodiesAssumption` (`LiveVar`): an instruction other than a phi follows the
  instructions of its block whose results it uses.

### Only model-checked

- Liveness (`PassesEnd`, `ReplaceEnds`, `PassEnds`, `CompileEnds`):
  fairness is outside the prover.
- `ImplementsSsa`, and with it the emitted code: the mapping holds the meaning of a
  whole function run, for which the invariant would have to follow every value
  through the cache, the slots and the layout order of the blocks.
- `Reducible` and `HeaderHasNoStore` of the front end: they speak of paths in
  the graph under construction, for which `Framed` is too weak.
- `LoadsAgree` and `SlotsAgreeUnlessSwapped`: they compare executions, for which the
  invariant would have to say which store reaches a load along the path taken.
- Loops, whose rewriting of phis is checked on the shapes of loops that `MCLoops` lists.
- ArrayInit: its tree of braces is declared `RECURSIVE`, and what it computes is
  induction over data.

## Not modelled

- ConstantSpread: one pass that folds operations on constants and then deletes them.
  It reads both operands into floats (`ConstantSpread.cpp:32`, the conditional has
  an arm of each type), so integers from 2^24 on are rounded; a model has to say what
  float arithmetic does, and comes with the evaluation of constants in the AST.
- The maps of constants of the AST, where a local constant does not replace a
  global one of the same name (`SysY_AST.cpp:241`).
- `fptosi` overwrites the register of its operand (`RegAlloca.cpp:815`). `Kills` in
  `RegAlloca` says so, but the functions checked use a converted float once.
- Slots beyond the 12-bit offset, instruction selection as text, types, naming.
- Parser, printing, logging, option parsing, runtime library.

## Plan

1. done: front end control flow, use-def lists, Dominators, Mem2Reg, FuncInfo,
   DeadCode, LiveVar, phi copies, FindLoop and LoopHoist, both code generators with
   frame and registers, initialisers of arrays, and the proofs above.
2. ConstantSpread and constant evaluation in the AST on words of small width,
   with the maps of constants.
3. Proofs: `LoadsAgree` of Mem2Reg over `PromoteInv` and the dominance frontiers;
   `NestingRight` from the laminar shape of natural loops; `HeaderHasNoStore` and
   `Reducible` by an invariant on which blocks a pending loop header dominates.
