------------------------------- MODULE Loops -------------------------------
(***************************************************************************)
(* FindLoop and LoopHoist on one function: the natural loop of every back  *)
(* edge, the nesting of the loops, and for every outermost loop a new      *)
(* block in front of its header that takes the instructions of the         *)
(* innermost loops in it whose operands do not change.                     *)
(*                                                                         *)
(* A value is a pair: <<"v", name>> in the function compiled, <<"copy",    *)
(* name>> for the copy of an instruction, <<"merged", name>> for the phi   *)
(* that takes over operands of phi name, <<"bb", b>> for a block.  A phi   *)
(* keeps its operands as the code does, values and blocks in one list.     *)
(* Sets of pointers are iterated in any order: it is that of the addresses *)
(* the allocator gave out.                                                 *)
(***************************************************************************)
EXTENDS Integers, SequencesExt

CONSTANTS
  Functions,          \* [code, succ]: instructions and successors of the blocks
  Fixed,              \* constants and arguments
  Globals

VARIABLES
  code, succ, pre,    \* the function compiled: instructions, successors and predecessors
  phase, at,          \* GetLoop, MergeNode, LoopExtract; the block GetLoop is at
  bb_loop_set,        \* the loops: [latch, entry, blocks]
  loop_set,           \* those MergeNode still has to place
  inner_loop,         \* pairs <<loop, loop in it>>
  func_loop,          \* the outermost loops
  waiting,            \* those of them LoopExtract has not come to
  loop, scan,         \* the loop it is at, the blocks Extract still has to go through
  unchange,
  add_pre_BB,         \* the new block of a header, 0 when it has none
  copied,             \* the instructions of unchange that have their copy
  aborted             \* an assertion of the light IR has failed

graph  == <<code, succ, pre>>
nest   == <<bb_loop_set, loop_set, inner_loop, func_loop>>
hoist  == <<waiting, loop, scan, unchange, add_pre_BB, copied, aborted>>
vars   == <<graph, phase, at, nest, hoist>>

Blocks == DOMAIN code
BB(b)  == <<"bb", b>>
NoLoop == [latch |-> 0, entry |-> 0, blocks |-> {}]

\* the least set that contains S and is closed under next
Closure(S, next(_), All) ==
  LET C[X \in SUBSET All] == LET Y == X \cup UNION {next(b) : b \in X} IN IF Y = X THEN X ELSE C[Y]
  IN  C[S]

PredsOf(b) == Range(pre[b])
SuccsOf(b) == Range(succ[b])

\* Dominators::get_dom: d is on every path to b from a block without predecessors
Roots == {b \in Blocks : pre[b] = << >>}
ReachedWithout(d) == Closure(Roots \ {d}, LAMBDA b : SuccsOf(b) \ {d}, Blocks)
Dominates(d, b) == b = d \/ b \notin ReachedWithout(d)

-----------------------------------------------------------------------------
(***************************************************************************)
(* FindLoop::GetLoop, one block of the function at a time.                 *)
(***************************************************************************)
LoopOf(b, h) == Closure({b}, LAMBDA x : PredsOf(x) \ {h}, Blocks) \cup {h}

GetLoop ==
  /\ phase = "find" /\ at \in Blocks
  /\ bb_loop_set' = bb_loop_set \cup
       {[latch |-> at, entry |-> h, blocks |-> LoopOf(at, h)] : h \in {h \in SuccsOf(at) : Dominates(h, at)}}
  /\ at' = at + 1
  /\ UNCHANGED <<graph, phase, loop_set, inner_loop, func_loop, hoist>>

StartMerge ==
  /\ phase = "find" /\ at \notin Blocks
  /\ phase' = "merge"
  /\ loop_set' = bb_loop_set
  /\ UNCHANGED <<graph, at, bb_loop_set, inner_loop, func_loop, hoist>>

\* MinNumNode: the first of the smallest in the order of the set
MinNumNode(S) == {n \in S : \A o \in S : Cardinality(n.blocks) <= Cardinality(o.blocks)}

Outer(n) == {o \in bb_loop_set \ {n} : n.blocks \subseteq o.blocks}

\* mutant: a loop is put into any loop around it
MergeAnywhere ==
  /\ phase = "merge"
  /\ \E n \in MinNumNode(loop_set) :
       /\ loop_set' = loop_set \ {n}
       /\ IF Outer(n) = {}
          THEN func_loop' = func_loop \cup {n} /\ UNCHANGED inner_loop
          ELSE \E o \in Outer(n) : inner_loop' = inner_loop \cup {<<o, n>>} /\ UNCHANGED func_loop
  /\ UNCHANGED <<graph, phase, at, bb_loop_set, hoist>>

MergeNode ==
  /\ phase = "merge"
  /\ \E n \in MinNumNode(loop_set) :
       /\ loop_set' = loop_set \ {n}
       /\ IF Outer(n) = {}
          THEN func_loop' = func_loop \cup {n} /\ UNCHANGED inner_loop
          ELSE \E o \in MinNumNode(Outer(n)) : inner_loop' = inner_loop \cup {<<o, n>>} /\ UNCHANGED func_loop
  /\ UNCHANGED <<graph, phase, at, bb_loop_set, hoist>>

StartHoist ==
  /\ phase = "merge" /\ loop_set = {}
  /\ phase' = "hoist"
  /\ waiting' = func_loop
  /\ UNCHANGED <<graph, at, nest, loop, scan, unchange, add_pre_BB, copied, aborted>>

-----------------------------------------------------------------------------
(***************************************************************************)
(* LoopHoist::Extract: the innermost loops, without their headers.         *)
(***************************************************************************)
Inside(n) == {p[2] : p \in {p \in inner_loop : p[1] = n}}
Innermost(n) == {m \in Closure({n}, Inside, bb_loop_set) : Inside(m) = {}}
Body(m) == {<<m, b>> : b \in m.blocks \ {m.entry}}

StartLoop ==
  /\ phase = "hoist" /\ loop = NoLoop /\ ~aborted
  /\ \E n \in waiting :
       /\ loop' = n
       /\ waiting' = waiting \ {n}
       /\ scan' = UNION {Body(m) : m \in Innermost(n)}
  /\ UNCHANGED <<graph, phase, at, nest, unchange, add_pre_BB, copied, aborted>>

\* mutant: one operand is enough
MovableByOne(i, known) ==
  \/ i.op = "alloca"
  \/ i.op \in {"gep", "binary", "convert"} /\ Range(i.ops) \cap known # {}

Movable(i, known) ==
  \/ i.op = "alloca"
  \/ i.op \in {"gep", "binary", "convert"} /\ Range(i.ops) \subseteq known

Scanned(b, start) ==
  FoldLeft(LAMBDA known, i : IF Movable(i, known) THEN known \cup {i.id} ELSE known, start, code[b])

\* One loop after the other.  For a global the operand pointer that is looked up in
\* unchange was never set: it may be found there or not.
ExtractBlock ==
  /\ \E s \in scan, found \in {{}, Globals} :
       /\ \A other \in scan : other[1] # s[1] => Body(other[1]) \subseteq scan
       /\ found # {} => unchange # {}
       /\ scan' = scan \ {s}
       /\ unchange' = Scanned(s[2], unchange \cup Fixed \cup found) \ (Fixed \cup Globals)
  /\ UNCHANGED <<graph, phase, at, nest, waiting, loop, add_pre_BB, copied, aborted>>

Extracted == loop # NoLoop /\ scan = {}

NothingToMove ==
  /\ Extracted /\ unchange = {}
  /\ loop' = NoLoop
  /\ UNCHANGED <<graph, phase, at, nest, waiting, scan, unchange, add_pre_BB, copied, aborted>>

-----------------------------------------------------------------------------
(***************************************************************************)
(* LoopHoist::LoopExtract, the new block: every predecessor outside the    *)
(* loop branches to it, and it takes their place in the phis of the header. *)
(***************************************************************************)
\* mutant: the ends of the loop are taken for outside ones
OutsideAll(h) == PredsOf(h)

Outside(h) == PredsOf(h) \ loop.blocks

\* mutant: the branches keep their target
RedirectedNot(i, h, new) == i

Redirected(i, h, new) ==
  CASE i.op = "br" /\ Len(i.ops) = 1 -> [i EXCEPT !.ops[1] = IF @ = BB(h) THEN BB(new) ELSE @]
    [] i.op = "br" /\ Len(i.ops) = 3 ->
         LET k == IF i.ops[2] = BB(h) THEN 2 ELSE 3
         IN  [i EXCEPT !.ops[k] = IF @ = BB(h) THEN BB(new) ELSE @]
    [] OTHER -> i

Without(seq, x) == SelectSeq(seq, LAMBDA y : y # x)

\* get_operand_num: the first operand that is v, the one remove_operand then takes out
FirstAt(ops, v) == SelectInSeq(ops, LAMBDA o : o = v)

\* the pairs of a phi whose block is in S, as a list of their positions
PairsFrom(i, S) ==
  SelectSeq([k \in 1 .. Len(i.ops) |-> k], LAMBDA k : k % 2 = 0 /\ i.ops[k] \in {BB(b) : b \in S})

Merged(i, S) ==
  [id |-> <<"merged", i.id[2]>>, op |-> "phi",
   ops |-> FlattenSeq([k \in DOMAIN PairsFrom(i, S) |->
                         <<i.ops[PairsFrom(i, S)[k] - 1], i.ops[PairsFrom(i, S)[k]]>>])]

\* mutant: the operands stay as they are
NewPhiSame(i, S, new) == i

\* one predecessor is replaced in place; several become a phi of the new block
NewPhi(i, S, new) ==
  LET at_    == PairsFrom(i, S)
      vals   == [k \in DOMAIN at_ |-> i.ops[at_[k] - 1]]
      bbs    == [k \in DOMAIN at_ |-> i.ops[at_[k]]]
      left   == FoldLeft(RemoveFirst, FoldLeft(RemoveFirst, i.ops, vals), bbs)
  IN  IF i.op # "phi" \/ at_ = << >> THEN i
      ELSE IF Len(at_) = 1 THEN [i EXCEPT !.ops[FirstAt(i.ops, bbs[1])] = BB(new)]
      ELSE [i EXCEPT !.ops = left \o <<Merged(i, S).id, BB(new)>>]

\* the phis with several such predecessors, the last one first
MergedPhis(h, S) ==
  LET several == SelectSeq(code[h], LAMBDA i : i.op = "phi" /\ Len(PairsFrom(i, S)) > 1)
  IN  Reverse([k \in DOMAIN several |-> Merged(several[k], S)])

NewBlock ==
  /\ Extracted /\ unchange # {} /\ add_pre_BB[loop.entry] = 0
  /\ \E h \in {loop.entry}, new \in {Len(code) + 1}, S \in {Outside(loop.entry)} :
       /\ code' = [b \in 1 .. new |->
                     IF b = new THEN MergedPhis(h, S)
                     ELSE IF b = h THEN [k \in DOMAIN code[b] |-> NewPhi(code[b][k], S, new)]
                     ELSE IF b \in S THEN [k \in DOMAIN code[b] |-> Redirected(code[b][k], h, new)]
                     ELSE code[b]]
       /\ succ' = [b \in 1 .. new |->
                     IF b = new THEN << >>
                     ELSE IF b \in S THEN Append(Without(succ[b], h), new) ELSE succ[b]]
       /\ pre' = [b \in 1 .. new |->
                     IF b = new THEN SetToSortSeq(S, LAMBDA p, q : p < q)
                     ELSE IF b = h THEN SelectSeq(pre[b], LAMBDA p : p \notin S) ELSE pre[b]]
       /\ add_pre_BB' = [add_pre_BB EXCEPT ![h] = new]
  /\ UNCHANGED <<phase, at, nest, waiting, loop, scan, unchange, copied, aborted>>

-----------------------------------------------------------------------------
(***************************************************************************)
(* The instructions of unchange are copied to the end of the new block in  *)
(* the order of their addresses, and everything that uses one, an earlier  *)
(* copy too, uses its copy from then on.                                   *)
(***************************************************************************)
PreBB == add_pre_BB[loop.entry]
Ready == Extracted /\ unchange # {} /\ PreBB # 0 /\ ~aborted
Closed(b) == code[b] # << >> /\ Last(code[b]).op \in {"br", "ret"}

Instruction(v) == CHOOSE i \in UNION {Range(code[b]) : b \in Blocks} : i.id = v
Using(ops, v, w) == [k \in DOMAIN ops |-> IF ops[k] = v THEN w ELSE ops[k]]

\* "Inserting instruction to terminated bb" stops the compiler
AssertOpen == aborted' = Closed(PreBB)

CopyInstr ==
  /\ Ready
  /\ \E v \in unchange \ copied : \E w \in {<<"copy", v[2]>>} :
       LET more == [code EXCEPT ![PreBB] = Append(@, [Instruction(v) EXCEPT !.id = w])]
       IN  /\ code' = [b \in Blocks |->
                         [k \in DOMAIN more[b] |-> [more[b][k] EXCEPT !.ops = Using(@, v, w)]]]
           /\ copied' = copied \cup {v}
  /\ AssertOpen
  /\ UNCHANGED <<succ, pre, phase, at, nest, waiting, loop, scan, unchange, add_pre_BB>>

\* the branch to the header, and the instructions leave their blocks
FinishLoop ==
  /\ Ready /\ copied = unchange
  /\ code' = [b \in Blocks |->
                IF b = PreBB THEN Append(code[b], [id |-> BB(b), op |-> "br", ops |-> <<BB(loop.entry)>>])
                ELSE SelectSeq(code[b], LAMBDA i : i.id \notin unchange)]
  /\ succ' = [succ EXCEPT ![PreBB] = Append(@, loop.entry)]
  /\ pre' = [pre EXCEPT ![loop.entry] = Append(@, PreBB)]
  /\ unchange' = {} /\ copied' = {}
  /\ loop' = NoLoop
  /\ AssertOpen
  /\ UNCHANGED <<phase, at, nest, waiting, scan, add_pre_BB>>

Return ==
  /\ phase = "hoist" /\ loop = NoLoop /\ waiting = {} /\ ~aborted
  /\ phase' = "done"
  /\ UNCHANGED <<graph, at, nest, hoist>>

Init ==
  /\ \E fn \in Functions : code = fn.code /\ succ = fn.succ
  /\ pre = [b \in DOMAIN code |-> SelectSeq([k \in DOMAIN code |-> k], LAMBDA p : b \in Range(succ[p]))]
  /\ phase = "find" /\ at = 1
  /\ bb_loop_set = {} /\ loop_set = {} /\ inner_loop = {} /\ func_loop = {}
  /\ waiting = {} /\ loop = NoLoop /\ scan = {} /\ unchange = {}
  /\ add_pre_BB = [b \in DOMAIN code |-> 0]
  /\ copied = {} /\ aborted = FALSE

Next ==
  \/ GetLoop \/ StartMerge \/ MergeNode \/ StartHoist
  \/ StartLoop \/ ExtractBlock \/ NothingToMove
  \/ NewBlock \/ CopyInstr \/ FinishLoop \/ Return

Spec == Init /\ [][Next]_vars

-----------------------------------------------------------------------------
(***************************************************************************)
(* Properties.                                                             *)
(***************************************************************************)
BetweenLoops == loop = NoLoop /\ ~aborted

InLoop(n) == {p[1] : p \in {p \in inner_loop : p[2] = n}}

\* An outermost loop lies in no other; any other loop is entered in one loop around it,
\* and no loop lies strictly between them.  Two loops are disjoint or one is in the
\* other, unless they have the same header, as the loops of a while and its continue.
\* All of this whatever the order of the addresses.
NestingRight ==
  phase \in {"hoist", "done"} =>
    /\ \A n \in bb_loop_set :
         IF n \in func_loop THEN Outer(n) = {} /\ InLoop(n) = {}
         ELSE \E o \in Outer(n) : /\ InLoop(n) = {o}
                                 /\ \A q \in Outer(n) : ~(q.blocks \subseteq o.blocks /\ q.blocks # o.blocks)
    /\ \A n, m \in bb_loop_set :
         n.entry # m.entry =>
           n.blocks \cap m.blocks = {} \/ n.blocks \subseteq m.blocks \/ m.blocks \subseteq n.blocks

\* Lists of predecessors and successors and the targets of the branches stay the same
\* graph when edges are moved to the new block.
EdgesAgree ==
  BetweenLoops =>
    \A b \in Blocks :
      /\ \A s \in SuccsOf(b) : b \in PredsOf(s)
      /\ \A p \in PredsOf(b) : b \in SuccsOf(p)
      /\ Closed(b)
      /\ Last(code[b]).op = "br" =>
           {BB(s) : s \in SuccsOf(b)} = {o \in Range(Last(code[b]).ops) : o[1] = "bb"}

Reached == Closure({1}, SuccsOf, Blocks)

\* A phi has a value and a block in turn, one pair for every predecessor that control
\* reaches and none for a block that is not a predecessor.
PhisMatchPreds ==
  BetweenLoops =>
    \A b \in Blocks : \A i \in Range(code[b]) :
      i.op = "phi" =>
        LET named == {i.ops[k] : k \in {k \in DOMAIN i.ops : k % 2 = 0}}
        IN  /\ \A k \in DOMAIN i.ops : (i.ops[k][1] = "bb") <=> (k % 2 = 0)
            /\ Len(i.ops) = 2 * Cardinality(named)
            /\ {BB(p) : p \in PredsOf(b) \cap Reached} \subseteq named
            /\ named \subseteq {BB(p) : p \in PredsOf(b)}

\* Where a value is defined and used; a phi uses its operand at the end of the predecessor.
Defined(v) == {<<b, k>> \in UNION {{b} \X DOMAIN code[b] : b \in Blocks} : code[b][k].id = v}

UsedAt(b, k) ==
  LET i == code[b][k]
  IN  IF i.op = "phi" THEN {<<i.ops[j], i.ops[j + 1][2], Len(code[i.ops[j + 1][2]])>> : j \in {j \in DOMAIN i.ops : j % 2 = 1}}
      ELSE {<<o, b, k>> : o \in {o \in Range(i.ops) : o[1] # "bb"}}

NewBlocks == Range(add_pre_BB) \ {0}

\* The use has a definition: earlier in the block, or in a block on every path to it.
Before(use, Unordered) ==
  \E d \in Defined(use[1]) :
     IF d[1] = use[2] THEN d[2] < use[3] \/ d[1] \in Unordered ELSE Dominates(d[1], use[2])

DefinedBefore(Unordered) ==
  BetweenLoops =>
    \A b \in Blocks : \A k \in DOMAIN code[b] : \A use \in UsedAt(b, k) :
      use[1] \in Fixed \cup Globals \/ Before(use, Unordered)

\* An instruction that has been moved is still computed on every path to each of its
\* uses, and an instruction that is left uses none that is gone.  Nothing is said of
\* the order of the copies in a new block: that is DefsBeforeUses.
DefsReachUses == DefinedBefore(NewBlocks)

\* Every instruction is computed before it is used, as in the function compiled.
DefsBeforeUses == DefinedBefore({})

\* The copies are outside every loop: control comes to the new block once at most, so
\* what was computed in each round is computed once.
RunsOnce ==
  BetweenLoops => \A new \in NewBlocks : new \notin Closure(SuccsOf(new), SuccsOf, Blocks)

\* The copies go into a block that has no branch yet.
NoInsertAfterBranch == ~aborted
=============================================================================
