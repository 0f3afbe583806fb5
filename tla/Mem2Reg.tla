------------------------------ MODULE Mem2Reg ------------------------------
(***************************************************************************)
(* The Mem2Reg pass on one function: generate_phi places phis on dominance *)
(* frontiers, then rename walks the blocks depth first along the successor *)
(* lists (not along the dominator tree), replacing loads by the top of the *)
(* variable's value stack and filling the phis of the successors.          *)
(*                                                                         *)
(* The body ir stays as the front end built it; what the pass does to it   *)
(* is kept beside it: the phis with their operand pairs, the value each    *)
(* load was replaced with, the stores erased.                              *)
(***************************************************************************)
EXTENDS Ir

VARIABLES
  ir,        \* the function
  frontier,  \* Dominators: dom_frontier_, read only
  mpc,       \* the phase of the pass
  cand,      \* the variable generate_phi is at
  pending,   \* blocks of work_list not processed yet
  listed,    \* every block that was ever in work_list
  phis,      \* block -> variable -> operand pairs <<value, predecessor>>
  valStack,  \* val_stack: variable -> values, for the variables that have an entry
  renamed,   \* bb_renamed
  calls,     \* active rename() calls: block and index of the next successor
  repl,      \* number of a load -> the value that replaced it
  erased,    \* numbers of the stores erased
  fault      \* an assertion of the pass failed

m2rVars == <<mpc, cand, pending, listed, phis, valStack, renamed, calls, repl, erased, fault>>
vars == <<ir, frontier, m2rVars>>

Instrs(b) == ir.code[b]

\* the places of the stores of block b
StoresIn(b) == {k \in DOMAIN Instrs(b) : Instrs(b)[k].op = "store"}

Variables ==
  {i.var : i \in {j \in UNION {ToSet(Instrs(b)) : b \in Blocks(ir)} : j.op \in {"load", "store"}}}

NoPhi == [a \in {} |-> << >>]

\* map f with an entry y for x, unless it has one
Added(f, x, y) == [z \in DOMAIN f \cup {x} |-> IF z \in DOMAIN f THEN f[z] ELSE y]

-----------------------------------------------------------------------------
Idle ==
  /\ mpc = "idle"
  /\ cand = 0 /\ pending = {} /\ listed = {}
  /\ phis = << >>
  /\ valStack = NoPhi
  /\ renamed = {} /\ calls = << >>
  /\ repl = [n \in {} |-> Undef]
  /\ erased = {}
  /\ fault = FALSE

\* generate_phi is skipped for a function of one block
Begin ==
  /\ mpc = "idle"
  /\ mpc' = IF Len(ir.code) > 1 THEN "phi" ELSE "rename"
  /\ phis' = [b \in Blocks(ir) |-> NoPhi]
  /\ UNCHANGED <<ir, frontier, cand, pending, listed, valStack, renamed, calls, repl, erased, fault>>

-----------------------------------------------------------------------------
(***************************************************************************)
(* generate_phi.  A name is global when two blocks store to it.            *)
(***************************************************************************)
StoreBlocks(a) == {b \in Blocks(ir) : \E k \in StoresIn(b) : Instrs(b)[k].var = a}

\* mutant: two storing blocks do not count yet
GlobalNameLate(a) == Cardinality(StoreBlocks(a)) > 2

GlobalName(a) == Cardinality(StoreBlocks(a)) >= 2

\* the next variable: the order does not matter, as no two share any state
NextCandidate ==
  /\ mpc = "phi" /\ pending = {}
  /\ \E a \in Variables :
       /\ a > cand
       /\ \A v \in Variables : v > cand => a <= v
       /\ cand' = a
       /\ pending' = IF GlobalName(a) THEN StoreBlocks(a) ELSE {}
       /\ listed' = IF GlobalName(a) THEN StoreBlocks(a) ELSE {}
  /\ UNCHANGED <<ir, frontier, mpc, phis, valStack, renamed, calls, repl, erased, fault>>

\* one element of work_list, in any order: the list starts in pointer order
PlacePhis(b) ==
  /\ mpc = "phi" /\ b \in pending
  /\ LET new == {d \in frontier[b] : cand \notin DOMAIN phis[d]}
     IN  /\ phis' = [d \in Blocks(ir) |-> IF d \in new THEN Added(phis[d], cand, << >>)
                                                       ELSE phis[d]]
         /\ pending' = (pending \ {b}) \cup (new \ listed)
         /\ listed' = listed \cup new
  /\ UNCHANGED <<ir, frontier, mpc, cand, valStack, renamed, calls, repl, erased, fault>>

PhisDone ==
  /\ mpc = "phi" /\ pending = {} /\ \A a \in Variables : a <= cand
  /\ mpc' = "rename"
  /\ UNCHANGED <<ir, frontier, cand, pending, listed, phis, valStack, renamed, calls, repl,
                 erased, fault>>

-----------------------------------------------------------------------------
(***************************************************************************)
(* rename, up to its recursive calls.                                      *)
(***************************************************************************)
PushOn(st, a, v) == [x \in DOMAIN st \cup {a} |-> IF x # a THEN st[x]
                                                 ELSE IF a \in DOMAIN st THEN Append(st[a], v)
                                                 ELSE <<v>>]

\* the operand of a store, after replace_all_use_with on the load it names
Current(r, v) == IF v[1] = "load" /\ v[2] \in DOMAIN r THEN r[v[2]] ELSE v

\* a load of a variable without an entry in val_stack is left alone
ReplaceLoad(acc, i) ==
  IF i.var \notin DOMAIN acc.stack THEN acc
  ELSE IF acc.stack[i.var] = << >> THEN [acc EXCEPT !.fault = TRUE]
  ELSE [acc EXCEPT !.repl = Added(@, i.id, Last(acc.stack[i.var]))]

\* mutant: a store does not push
RecordStoreLost(acc, i) == acc

RecordStore(acc, i) ==
  [acc EXCEPT !.stack = PushOn(@, i.var, Current(acc.repl, i.val))]

RenameInstr(acc, i) ==
  CASE i.op = "load"  -> ReplaceLoad(acc, i)
    [] i.op = "store" -> RecordStore(acc, i)
    [] OTHER          -> acc

Renaming(b) ==
  LET phiPush(st, a) == PushOn(st, a, Phi(b, a))
      start == [stack |-> RunThrough(phiPush, valStack, SetToSeq(DOMAIN phis[b])),
                repl  |-> repl,
                fault |-> fault]
  IN  RunThrough(RenameInstr, start, Instrs(b))

\* the operand block b gives to the phi of a in one of its successors
Incoming(st, b, a) ==
  IF a \in DOMAIN st /\ st[a] # << >> THEN <<<<Last(st[a]), b>>>> ELSE << >>

Enter(b) ==
  LET done == Renaming(b)
  IN  /\ valStack' = done.stack
      /\ repl' = done.repl
      /\ fault' = done.fault
      /\ phis' = [s \in Blocks(ir) |->
                    IF Contains(ir.succ[b], s)
                    THEN [a \in DOMAIN phis[s] |-> phis[s][a] \o Incoming(done.stack, b, a)]
                    ELSE phis[s]]
      /\ renamed' = renamed \cup {b}

RenameEntry ==
  /\ mpc = "rename" /\ calls = << >> /\ renamed = {}
  /\ Enter(Entry)
  /\ calls' = <<[bb |-> Entry, next |-> 1]>>
  /\ UNCHANGED <<ir, frontier, mpc, cand, pending, listed, erased>>

\* mutant: the first successor not looked at is passed over
UnvisitedLater(c) == {k \in DOMAIN ir.succ[c.bb] : k > c.next /\ ir.succ[c.bb][k] \notin renamed}

\* the loop over the successors, which skips the blocks already renamed
Unvisited(c) == {k \in DOMAIN ir.succ[c.bb] : k >= c.next /\ ir.succ[c.bb][k] \notin renamed}

Descend ==
  /\ mpc = "rename" /\ calls # << >> /\ ~fault
  /\ \E k \in Unvisited(Last(calls)) :
       LET s == ir.succ[Last(calls).bb][k]
       IN  /\ \A j \in Unvisited(Last(calls)) : k <= j
           /\ Enter(s)
           /\ calls' = Append([calls EXCEPT ![Len(calls)].next = k + 1], [bb |-> s, next |-> 1])
  /\ UNCHANGED <<ir, frontier, mpc, cand, pending, listed, erased>>

(***************************************************************************)
(* The end of rename: one pop per phi and per store, then the stores of    *)
(* the block are erased.  A phi finds an entry with a value, or an         *)
(* assertion fails; a store of a variable without an entry pops nothing.   *)
(***************************************************************************)
PopFrom(acc, a) ==
  IF acc.stack[a] = << >> THEN [acc EXCEPT !.fault = TRUE] ELSE [acc EXCEPT !.stack[a] = Front(@)]

PopPhi(acc, a) == IF a \in DOMAIN acc.stack THEN PopFrom(acc, a) ELSE [acc EXCEPT !.fault = TRUE]

PopStore(acc, i) ==
  IF i.op = "store" /\ i.var \in DOMAIN acc.stack THEN PopFrom(acc, i.var) ELSE acc

\* mutant: the phis are forgotten
PoppingStores(b) == RunThrough(PopStore, [stack |-> valStack, fault |-> fault], Instrs(b))

Popping(b) ==
  LET start == [stack |-> valStack, fault |-> fault]
  IN  RunThrough(PopStore, RunThrough(PopPhi, start, SetToSeq(DOMAIN phis[b])), Instrs(b))

Leave ==
  /\ mpc = "rename" /\ calls # << >> /\ ~fault
  /\ Unvisited(Last(calls)) = {}
  /\ LET b      == Last(calls).bb
         popped == Popping(b)
     IN  /\ valStack' = popped.stack
         /\ fault' = popped.fault
         /\ erased' = erased \cup {Instrs(b)[k].id : k \in StoresIn(b)}
  /\ calls' = Front(calls)
  /\ mpc' = IF Len(calls) = 1 THEN "done" ELSE mpc
  /\ UNCHANGED <<ir, frontier, cand, pending, listed, phis, renamed, repl>>

-----------------------------------------------------------------------------
Promote ==
  \/ Begin
  \/ NextCandidate
  \/ \E b \in pending : PlacePhis(b)
  \/ PhisDone
  \/ RenameEntry
  \/ Descend
  \/ Leave

-----------------------------------------------------------------------------
(***************************************************************************)
(* Properties.                                                             *)
(***************************************************************************)
\* None of the assertions of rename fails: a load never finds an empty stack,
\* and no pop is without its push.
NoAssertionFails == ~fault

\* the stack of variable a with what block b has pushed on top
Pushed(values, b, a) ==
  LET push(v, i) == IF i.op = "store" /\ i.var = a THEN Append(v, Current(repl, i.val)) ELSE v
  IN  RunThrough(push, IF a \in DOMAIN phis[b] THEN Append(values, Phi(b, a)) ELSE values,
                 Instrs(b))

\* The value stacks hold the definitions made on the path of active calls and
\* nothing else, although pushes and pops are counted separately; when rename
\* returns to the entry's caller they are empty, so that the next function
\* does not see them.
StacksFollowCalls ==
  mpc \in {"rename", "done"} =>
    \A a \in DOMAIN valStack :
      LET call(values, c) == Pushed(values, c.bb, a)
      IN  valStack[a] = RunThrough(call, << >>, calls)

\* In code that can run, every load of a promoted variable is replaced by a
\* value that is not itself a load of one, and every store to it is erased.
FullyPromoted ==
  mpc = "done" =>
    \A b \in Reachable(ir) : \A k \in DOMAIN Instrs(b) :
       LET i == Instrs(b)[k]
       IN  /\ i.op = "load" => i.id \in DOMAIN repl /\ repl[i.id][1] # "load"
           /\ i.op = "store" => i.id \in erased
=============================================================================
