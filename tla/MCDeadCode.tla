----------------------------- MODULE MCDeadCode -----------------------------
(***************************************************************************)
(* One library function (1), a function (2) with one instruction, one (3)  *)
(* that calls it, and main (4) with three instructions, which call the     *)
(* second one only through the third.                                      *)
(***************************************************************************)
EXTENDS DeadCode, TLC

CONSTANTS a, b, c, d, e

MCInstrs == {a, b, c, d, e}
MCFuncOf == (d :> 2) @@ (e :> 3) @@ [i \in {a, b, c} |-> 4]

\* chains a-b-c in both directions, and loops
MCMayUse == (a :> {b}) @@ (b :> {a, c}) @@ (c :> {b}) @@ [i \in {d, e} |-> {}]

MCInit ==
  /\ kind \in [MCInstrs -> Kinds] /\ kind[e] = "call"
  /\ callee \in [MCInstrs -> Funcs] /\ callee[e] = 2 /\ \A i \in {a, b, c} : callee[i] # 2
  /\ IsCode
  /\ \E x \in SUBSET MCMayUse[a], y \in SUBSET MCMayUse[b], z \in SUBSET MCMayUse[c] :
       operands = (a :> x) @@ (b :> y) @@ (c :> z) @@ [i \in {d, e} |-> {}]
  /\ arrayParam = [f \in Funcs |-> FALSE]
  /\ \E roots \in SUBSET Roots : touches = [f \in Funcs |-> IF f = 2 THEN roots ELSE {}]
  /\ DeadInit

MCSpec == MCInit /\ [][DeadNext]_allVars /\ WF_allVars(DeadNext)
=============================================================================
