--------------------------- MODULE LoweredMem2Reg ---------------------------
(***************************************************************************)
(* Front end, Dominators and Mem2Reg in the order the driver runs them,    *)
(* followed by an execution of the original and of the promoted function   *)
(* in lock step: both take the same, arbitrary, path; the original reads   *)
(* and writes stack memory, the promoted one only phis and constants.      *)
(***************************************************************************)
EXTENDS Mem2Reg

CONSTANTS Names, Params, Reads, NoName, Conds, MaxStmts

\* what the front end assumes of its inputs
ASSUME SourceAssumption ==
  /\ Params \subseteq Names /\ IsFiniteSet(Params)
  /\ Reads \subseteq Names /\ NoName \notin Names
  /\ Conds \subseteq Seq(Nat \ {0}) /\ << >> \notin Conds
  /\ MaxStmts \in Nat

VARIABLES
  breakBB, continueBB, scope, allocas, frames, stmts,             \* SysYBuilder
  dom, idom, dpc, at, changed, queue, visit, succAt, runner,      \* Dominators
  block,     \* the block executed last, 0 before the entry
  mem,       \* the original function's memory: variable -> constant
  env,       \* the promoted function's phis: block -> variable -> constant
  agree      \* every load of the last block read the same value in both

astVars == <<breakBB, continueBB, scope, allocas, frames, stmts>>
domVars == <<dom, idom, dpc, at, changed, queue, visit, succAt, runner>>
runVars == <<block, mem, env, agree>>
allVars == <<vars, astVars, domVars, runVars>>

FrontEnd == INSTANCE Lowering
Analysis == INSTANCE Dominators

PipelineInit ==
  /\ FrontEnd!Init
  /\ Analysis!Idle
  /\ Idle
  /\ block = 0 /\ mem = << >> /\ env = << >> /\ agree = TRUE

Lower ==
  /\ FrontEnd!Visit
  /\ UNCHANGED <<frontier, m2rVars, domVars, runVars>>

RunDominators ==
  /\ FrontEnd!Done
  /\ Analysis!Analyse
  /\ UNCHANGED <<m2rVars, astVars, runVars>>

RunMem2Reg ==
  /\ dpc = "done"
  /\ Promote
  /\ UNCHANGED <<astVars, domVars, runVars>>

-----------------------------------------------------------------------------
(***************************************************************************)
(* The original block: loads read memory, stores write it; a store of a    *)
(* loaded value writes what that load of the block has read.               *)
(***************************************************************************)
RunInstr(acc, i) ==
  CASE i.op = "load"  -> [acc EXCEPT !.read = @ @@ (i.id :> acc.mem[i.var])]
    [] i.op = "store" -> [acc EXCEPT !.mem[i.var] =
                            IF i.val[1] = "load" THEN acc.read[i.val[2]] ELSE i.val]
    [] OTHER          -> acc

OriginalBlock(b, m) ==
  RunThrough(RunInstr, [mem |-> m, read |-> [n \in {} |-> Undef]], Instrs(b))

\* the promoted block: its phis all take the operand of the edge at once
ValueIn(e, v) == IF v[1] = "phi" THEN e[v[2]][v[3]] ELSE v

PhiValues(p, b, e) ==
  [a \in DOMAIN phis[b] |->
     LET pairs == SelectSeq(phis[b][a], LAMBDA pr : pr[2] = p)
     IN  IF pairs = << >> THEN Undef ELSE ValueIn(e, pairs[1][1])]

\* block b is executed, coming from block p
RunBlock(p, b, m, e) ==
  LET original == OriginalBlock(b, m)
      promoted == [e EXCEPT ![b] = PhiValues(p, b, e)]
  IN  /\ block' = b
      /\ mem' = original.mem
      /\ env' = promoted
      /\ agree' = \A n \in DOMAIN original.read :
                    n \in DOMAIN repl /\ ValueIn(promoted, repl[n]) = original.read[n]
      /\ UNCHANGED <<vars, astVars, domVars>>

Start ==
  /\ mpc = "done" /\ block = 0
  /\ RunBlock(0, Entry, [a \in Variables |-> Undef],
              [b \in Blocks(ir) |-> [a \in DOMAIN phis[b] |-> Undef]])

Jump ==
  /\ block # 0
  /\ \E b \in ToSet(ir.succ[block]) : RunBlock(block, b, mem, env)

Finished == block # 0 /\ ir.succ[block] = << >> /\ UNCHANGED allVars

-----------------------------------------------------------------------------
\* Whatever path is taken, a load of the original function reads exactly the
\* value that the promoted function uses in its place; in particular it never
\* uses a phi that has no operand for the edge it was entered by.
LoadsAgree == agree

\* After the front end, every loop of both passes comes to an end.
PassesEnd == FrontEnd!Done ~> mpc = "done"

(***************************************************************************)
(* What Dominators promises, of the functions the front end builds, until  *)
(* Mem2Reg takes its frontiers over.                                       *)
(***************************************************************************)
\* create_dom leaves exactly the dominators by paths in dom_.
DomExact == mpc = "idle" => Analysis!DomExact

\* create_idom stops at the closest strict dominator.
IdomExact == mpc = "idle" => Analysis!IdomExact

\* create_dominance_frontier leaves the textbook frontiers, without a header's
\* own membership.
FrontierExact == mpc = "idle" => Analysis!FrontierExact
=============================================================================
