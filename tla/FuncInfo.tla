------------------------------ MODULE FuncInfo ------------------------------
(***************************************************************************)
(* The FuncInfo analysis: which functions of the module are pure.  Every   *)
(* function is first marked on its own; then impurity spreads from the     *)
(* functions on the work list to their callers.                            *)
(*                                                                         *)
(* A function is abstracted to what the marking looks at: the functions it *)
(* calls, whether a parameter is an array, and where the addresses of its  *)
(* loads and stores come from (get_first_addr): "alloca" for a local,      *)
(* "other" for a global or a loaded pointer.  The functions are numbered   *)
(* in the order of the module: first the library, last main.               *)
(***************************************************************************)
EXTENDS Naturals

CONSTANTS
  NumLib,     \* number of library functions, which are declarations
  NumFuncs    \* number of functions

ASSUME NumAssumption == NumLib \in Nat /\ NumFuncs \in Nat /\ NumLib < NumFuncs

Funcs   == 1 .. NumFuncs
Library == 1 .. NumLib
Main    == NumFuncs
Roots   == {"alloca", "other"}

VARIABLES
  calls,       \* function -> the functions its call instructions name
  arrayParam,  \* function -> it has a parameter that is neither int nor float
  touches,     \* function -> the roots of its addresses
  is_pure,     \* function -> marked pure, for the functions marked so far
  worklist,    \* worklist: a set, as the result does not depend on its order
  fpc          \* "mark", "spread" or "done"

program == <<calls, arrayParam, touches>>
fiVars == <<is_pure, worklist, fpc>>
vars == <<program, fiVars>>

-----------------------------------------------------------------------------
\* a function calls itself and functions defined before it
IsProgram ==
  /\ calls \in [Funcs -> SUBSET Funcs]
  /\ \A f \in Funcs : calls[f] \subseteq IF f \in Library THEN {} ELSE 1 .. f
  /\ arrayParam \in [Funcs -> BOOLEAN]
  /\ touches \in [Funcs -> SUBSET Roots]
  /\ \A f \in Library : touches[f] = {}

Idle ==
  /\ is_pure = [f \in {} |-> TRUE]
  /\ worklist = {}
  /\ fpc = "mark"

Init == IsProgram /\ Idle

Impure == {f \in DOMAIN is_pure : ~is_pure[f]}

\* trivial_mark: a declaration, main, an array parameter, or an address that
\* does not come from a local
TriviallyImpure(f) ==
  \/ f \in Library \/ f = Main
  \/ arrayParam[f]
  \/ touches[f] \ {"alloca"} # {}

Mark(f) ==
  /\ fpc = "mark"
  /\ DOMAIN is_pure = 1 .. f - 1
  /\ is_pure' = [g \in DOMAIN is_pure \cup {f} |->
                   IF g = f THEN ~TriviallyImpure(f) ELSE is_pure[g]]
  /\ worklist' = IF TriviallyImpure(f) THEN worklist \cup {f} ELSE worklist
  /\ UNCHANGED <<program, fpc>>

AllMarked ==
  /\ fpc = "mark" /\ DOMAIN is_pure = Funcs
  /\ fpc' = "spread"
  /\ UNCHANGED <<program, is_pure, worklist>>

\* mutant: a caller is marked but not put on the work list
ProcessOnce(f) ==
  /\ fpc = "spread"
  /\ f \in worklist
  /\ is_pure' = [g \in Funcs |-> is_pure[g] /\ f \notin calls[g]]
  /\ worklist' = worklist \ {f}
  /\ UNCHANGED <<program, fpc>>

\* process: the callers of f that are still pure
Process(f) ==
  /\ fpc = "spread"
  /\ f \in worklist
  /\ LET new == {g \in Funcs : is_pure[g] /\ f \in calls[g]}
     IN  /\ is_pure' = [g \in Funcs |-> is_pure[g] /\ g \notin new]
         /\ worklist' = (worklist \ {f}) \cup new
  /\ UNCHANGED <<program, fpc>>

AllProcessed ==
  /\ fpc = "spread" /\ worklist = {}
  /\ fpc' = "done"
  /\ UNCHANGED <<program, is_pure, worklist>>

Analyse ==
  \/ \E f \in Funcs : Mark(f)
  \/ AllMarked
  \/ \E f \in worklist : Process(f)
  \/ AllProcessed

Spec == Init /\ [][Analyse]_vars /\ WF_vars(Analyse)

-----------------------------------------------------------------------------
(***************************************************************************)
(* Properties.                                                             *)
(***************************************************************************)
TypeOK ==
  /\ IsProgram
  /\ DOMAIN is_pure \subseteq Funcs
  /\ is_pure \in [DOMAIN is_pure -> BOOLEAN]
  /\ worklist \subseteq Impure
  /\ fpc \in {"mark", "spread", "done"}
  /\ fpc # "mark" => DOMAIN is_pure = Funcs

\* T contains the trivially impure functions and every caller of its functions
ClosedUnderCallers(T) ==
  \A f \in Funcs : TriviallyImpure(f) \/ calls[f] \cap T # {} => f \in T

\* The functions left pure are exactly those from which no chain of calls leads
\* to a trivially impure function: the impure ones are the least set closed
\* under callers, through recursion too, and in whatever order they are taken.
PurityExact ==
  fpc = "done" =>
    /\ ClosedUnderCallers(Impure)
    /\ \A T \in SUBSET Funcs : ClosedUnderCallers(T) => Impure \subseteq T

=============================================================================
