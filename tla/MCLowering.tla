----------------------------- MODULE MCLowering -----------------------------
(***************************************************************************)
(* Every nesting of statements and every shape of condition; a function    *)
(* with variables is shorter than one without.                             *)
(***************************************************************************)
EXTENDS Lowering

\* || chains of && chains: every one of up to two by two operands, and a longer one
MCShapes == UNION {[1 .. n -> 1 .. 2] : n \in 1 .. 2} \cup {<<3, 1, 2>>}

\* functions without variables and && or || take the most statements
Small ==
  /\ allocas > 0 => stmts <= 3
  /\ stmts <= 4 \/ \A b \in Blocks(ir) : \A i \in DOMAIN ir.code[b] : ir.code[b][i].op # "phi"
=============================================================================
