------------------------------ MODULE Iterate ------------------------------
(***************************************************************************)
(* The two forms of iteration of the other modules: a step taken for each  *)
(* element of a sequence in turn, and a set grown until a round leaves it  *)
(* as it is.                                                               *)
(***************************************************************************)
EXTENDS Naturals, Sequences

(***************************************************************************)
(* What is left of start when step has run over the elements of seq in     *)
(* order.  The singleton sets make TLC compute every intermediate result   *)
(* once instead of once per use.                                           *)
(***************************************************************************)
RunThrough(step(_, _), start, seq) ==
  LET after[n \in 0 .. Len(seq)] ==
        IF n = 0 THEN start
        ELSE CHOOSE r \in {step(value, seq[n]) : value \in {after[n - 1]}} : TRUE
  IN  after[Len(seq)]

\* the set each X ends as when it becomes grow[X] until that is X
Limit(grow) ==
  LET R[X \in DOMAIN grow] == IF grow[X] = X THEN X ELSE R[grow[X]]
  IN  R
=============================================================================
