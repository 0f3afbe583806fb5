---------------------------- MODULE SsaFunction ----------------------------
(***************************************************************************)
(* What a run of a function in SSA form is, whatever code is generated for *)
(* it: control goes through the blocks, and every instruction gets the     *)
(* values of its operands.  A phi takes its value on the edge, so it is    *)
(* not an instruction that executes.                                       *)
(***************************************************************************)
EXTENDS Naturals, SequencesExt

VARIABLES
  body, succ,   \* the function
  block,        \* the block control is in, 0 before the call
  count,        \* how many of its instructions have executed
  seen          \* the values the last one got

ssaVars == <<body, succ, block, count, seen>>

Executed(b) == SelectSeq(body[b], LAMBDA i : i.op # "phi")

SsaInit == block = 0 /\ count = 0 /\ seen = {}

Call ==
  /\ block = 0
  /\ block' = 1
  /\ UNCHANGED <<body, succ, count, seen>>

Step ==
  /\ block # 0 /\ count < Len(Executed(block))
  /\ \E i \in {Executed(block)[count + 1]} :
       /\ seen' = Range(i.ops)
       /\ IF i.op = "br"
          THEN block' \in Range(succ[block]) /\ count' = 0
          ELSE block' = block /\ count' = count + 1
  /\ UNCHANGED <<body, succ>>

SsaSpec == SsaInit /\ [][Call \/ Step]_ssaVars
=============================================================================
