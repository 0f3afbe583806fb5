--------------------------- MODULE DeadCodeProofs ---------------------------
(***************************************************************************)
(* Proofs about FuncInfo and DeadCode, for any module: any functions, call *)
(* graph, instructions and operands.                                       *)
(*                                                                         *)
(* FuncInfo.  An impure function that is no longer on the work list has    *)
(* had its callers marked (Spread), nothing trivially impure is marked     *)
(* pure (Seeded), and nothing is marked impure that a set closed under     *)
(* callers could do without (Needed).                                      *)
(*                                                                         *)
(* DeadCode.  While a function is being marked, the operands of a marked   *)
(* instruction are marked or the instruction is still on the work list     *)
(* (Marking); what was deleted was not critical (Deleted); in a round that *)
(* has deleted nothing, the functions done so far hold nothing useless     *)
(* (Round).                                                                *)
(***************************************************************************)
EXTENDS DeadCode, TLAPS

(***************************************************************************)
(* FuncInfo.                                                               *)
(***************************************************************************)
Seeded == \A f \in DOMAIN is_pure : TriviallyImpure(f) => f \in Impure

Spread ==
  \A g \in Impure \ worklist : \A f \in Funcs : g \in calls[f] => f \in Impure

Needed == \A T \in SUBSET Funcs : ClosedUnderCallers(T) => Impure \subseteq T

Inv ==
  /\ TypeOK
  /\ Seeded
  /\ fpc = "mark" => Impure = worklist
  /\ Spread
  /\ Needed
  /\ fpc = "done" => worklist = {}

-----------------------------------------------------------------------------
LEMMA InitInv == Init => Inv
<1> SUFFICES ASSUME Init PROVE Inv
  OBVIOUS
<1>1. Impure = {}
  BY DEF Init, Idle, Impure
<1> QED
  BY <1>1 DEF Init, Idle, Inv, TypeOK, Seeded, Spread, Needed

\* Marking one more function: nothing has spread yet.
LEMMA MarkStep ==
  ASSUME Inv, NEW f \in Funcs, Mark(f)
  PROVE  Inv'
<1> USE DEF Inv
<1>1. /\ f \notin DOMAIN is_pure
      /\ fpc = "mark" /\ fpc' = "mark"
      /\ program' = program
  BY NumAssumption DEF Mark, Funcs
<1>2. DOMAIN is_pure' = DOMAIN is_pure \cup {f}
  BY DEF Mark
<1>3. \A g \in DOMAIN is_pure' :
        is_pure'[g] = IF g = f THEN ~TriviallyImpure(f) ELSE is_pure[g]
  BY DEF Mark
<1>4. Impure' = IF TriviallyImpure(f) THEN Impure \cup {f} ELSE Impure
  BY <1>1, <1>2, <1>3 DEF Impure
<1>5. worklist' = Impure'
  BY <1>1, <1>4 DEF Mark
<1>6. \A g \in Funcs : TriviallyImpure(g)' <=> TriviallyImpure(g)
  BY <1>1 DEF TriviallyImpure, program
<1>7. TypeOK'
  <2>1. TriviallyImpure(f) \in BOOLEAN
    BY DEF TriviallyImpure, TypeOK, IsProgram
  <2>2. is_pure' \in [DOMAIN is_pure' -> BOOLEAN]
    BY <2>1, <1>2, <1>3 DEF Mark, TypeOK
  <2>3. IsProgram'
    BY <1>1 DEF TypeOK, IsProgram, program
  <2> QED
    BY <1>1, <1>2, <1>5, <2>2, <2>3 DEF TypeOK
<1>8. Seeded'
  BY <1>2, <1>4, <1>6 DEF Seeded, TypeOK
<1>9. Spread'
  BY <1>5 DEF Spread
<1>10. Needed'
  <2> SUFFICES ASSUME NEW T \in SUBSET Funcs, ClosedUnderCallers(T)' PROVE Impure' \subseteq T
    BY DEF Needed
  <2>1. ClosedUnderCallers(T)
    BY <1>1, <1>6 DEF ClosedUnderCallers, program
  <2> QED
    BY <1>4, <2>1 DEF Needed, ClosedUnderCallers
<1> QED
  BY <1>1, <1>5, <1>7, <1>8, <1>9, <1>10

\* Processing one function makes exactly its pure callers impure.
LEMMA ProcessStep ==
  ASSUME Inv, NEW f \in worklist, Process(f)
  PROVE  Inv'
<1> USE DEF Inv
<1> DEFINE new == {g \in Funcs : is_pure[g] /\ f \in calls[g]}
<1>1. /\ fpc = "spread" /\ fpc' = "spread"
      /\ program' = program
      /\ worklist' = (worklist \ {f}) \cup new
      /\ is_pure' = [g \in Funcs |-> is_pure[g] /\ g \notin new]
  BY DEF Process
<1>2. DOMAIN is_pure = Funcs /\ DOMAIN is_pure' = Funcs /\ is_pure \in [Funcs -> BOOLEAN]
  BY <1>1 DEF TypeOK
<1>3. Impure' = Impure \cup new
  BY <1>1, <1>2 DEF Impure
<1>4. \A g \in Funcs : TriviallyImpure(g)' <=> TriviallyImpure(g)
  BY <1>1 DEF TriviallyImpure, program
<1>5. TypeOK'
  BY <1>1, <1>2, <1>3 DEF TypeOK, IsProgram, program
<1>6. Seeded'
  BY <1>2, <1>3, <1>4 DEF Seeded
<1>7. Spread'
  <2> SUFFICES ASSUME NEW g \in Impure' \ worklist', NEW h \in Funcs, g \in calls'[h]
               PROVE  h \in Impure'
    BY DEF Spread
  <2>1. g \in calls[h]
    BY <1>1 DEF program
  <2>2. g \in Impure /\ (g = f \/ g \notin worklist)
    BY <1>1, <1>3
  <2>3. CASE g = f
    BY <1>2, <1>3, <2>1, <2>3 DEF Impure
  <2>4. CASE g \notin worklist
    BY <1>3, <2>1, <2>2, <2>4 DEF Spread
  <2> QED
    BY <2>2, <2>3, <2>4
<1>8. Needed'
  <2> SUFFICES ASSUME NEW T \in SUBSET Funcs, ClosedUnderCallers(T)' PROVE Impure' \subseteq T
    BY DEF Needed
  <2>1. ClosedUnderCallers(T)
    BY <1>1, <1>4 DEF ClosedUnderCallers, program
  <2>2. Impure \subseteq T /\ f \in T
    BY <2>1 DEF Needed, TypeOK
  <2>3. new \subseteq T
    BY <2>1, <2>2 DEF ClosedUnderCallers
  <2> QED
    BY <1>3, <2>2, <2>3
<1> QED
  BY <1>1, <1>5, <1>6, <1>7, <1>8

\* The two steps between the phases change nothing else.
LEMMA PhaseStep ==
  ASSUME Inv, AllMarked \/ AllProcessed \/ UNCHANGED vars
  PROVE  Inv'
<1>1. /\ program' = program /\ is_pure' = is_pure /\ worklist' = worklist
      /\ \/ fpc = "mark" /\ DOMAIN is_pure = Funcs /\ fpc' = "spread"
         \/ worklist = {} /\ fpc' = "done" /\ fpc = "spread"
         \/ fpc' = fpc
  BY DEF AllMarked, AllProcessed, vars, fiVars
<1>2. Impure' = Impure
  BY <1>1 DEF Impure
<1>3. \A g \in Funcs : TriviallyImpure(g)' <=> TriviallyImpure(g)
  BY <1>1 DEF TriviallyImpure, program
<1>4. TypeOK'
  BY <1>1, <1>2 DEF Inv, TypeOK, IsProgram, program
<1>5. \A T \in SUBSET Funcs : ClosedUnderCallers(T)' <=> ClosedUnderCallers(T)
  BY <1>1, <1>3 DEF ClosedUnderCallers, program
<1>6. Seeded' /\ Spread' /\ Needed'
  BY <1>1, <1>2, <1>3, <1>5 DEF Inv, TypeOK, Seeded, Spread, Needed, program
<1> QED
  BY <1>1, <1>2, <1>4, <1>6 DEF Inv

LEMMA InvStep == Inv /\ [Analyse]_vars => Inv'
BY MarkStep, ProcessStep, PhaseStep DEF Analyse

LEMMA SpecInv == Spec => []Inv
<1>1. Init => Inv
  BY InitInv
<1>2. Inv /\ [Analyse]_vars => Inv'
  BY InvStep
<1> QED
  BY <1>1, <1>2, PTL DEF Spec

-----------------------------------------------------------------------------
\* The analysis keeps its types; in particular only impure functions are ever
\* on the work list.
THEOREM TypeCorrect == Spec => []TypeOK
<1>1. Inv => TypeOK
  BY DEF Inv
<1> QED
  BY <1>1, SpecInv, PTL

LEMMA InvPurity == Inv => PurityExact
<1>1. ASSUME Inv, fpc = "done" PROVE ClosedUnderCallers(Impure)
  <2> SUFFICES ASSUME NEW f \in Funcs, TriviallyImpure(f) \/ calls[f] \cap Impure # {}
               PROVE  f \in Impure
    BY DEF ClosedUnderCallers
  <2>1. f \in DOMAIN is_pure /\ worklist = {}
    BY <1>1 DEF Inv, TypeOK
  <2> QED
    BY <1>1, <2>1 DEF Inv, Seeded, Spread
<1> QED
  BY <1>1 DEF Inv, Needed, PurityExact

\* When the work list is empty, the functions marked impure are the least set
\* that contains the trivially impure ones and is closed under callers.
THEOREM PurityCorrect == Spec => []PurityExact
BY InvPurity, SpecInv, PTL

-----------------------------------------------------------------------------
(***************************************************************************)
(* DeadCode.                                                               *)
(***************************************************************************)
Marking ==
  dpc = "mark" =>
    /\ at \in Funcs
    /\ \A i \in InFunc(at) : Critical(i) => i \in marked
    /\ marked \subseteq InFunc(at)
    /\ \A i \in marked \ pending : operands[i] \subseteq marked

Deleted ==
  /\ dpc = "info" => live = Instrs /\ at = 1 /\ ~changed
  /\ \A i \in Instrs \ live : ~Critical(i)

Round ==
  ~changed /\ dpc # "info" =>
    \A S \in SUBSET Instrs : ClosedUnderOperands(S) =>
      /\ \A f \in Funcs : f < at => InFunc(f) \subseteq S
      /\ dpc = "mark" => marked \subseteq S
      /\ dpc = "done" => live \subseteq S

CallGraph == calls = [f \in Funcs |-> CallsOf(f)]

DeadInv ==
  /\ DeadTypeOK
  /\ Inv
  /\ CallGraph
  /\ NoUseOfDeleted
  /\ Marking
  /\ Deleted
  /\ Round
  /\ dpc = "done" => ~changed

-----------------------------------------------------------------------------
LEMMA DeadInitInv == DeadInit => DeadInv
<1> SUFFICES ASSUME DeadInit PROVE DeadInv
  OBVIOUS
<1>1. Inv
  BY InitInv DEF DeadInit
<1>2. \A i \in Instrs : \A j \in operands[i] : FuncOf[j] = FuncOf[i]
  BY InstrsAssumption DEF DeadInit
<1>3. DeadTypeOK
  <2>1. 1 \in 1 .. NumFuncs + 1
    BY NumAssumption
  <2> QED
    BY <1>1, <1>2, <2>1 DEF DeadInit, DeadTypeOK, Inv
<1> QED
  BY <1>1, <1>3 DEF DeadInit, DeadInv, CallGraph, NoUseOfDeleted, Marking, Deleted, Round

\* While FuncInfo runs, nothing of the pass changes.
LEMMA InfoStep ==
  ASSUME DeadInv, RunFuncInfo
  PROVE  DeadInv'
<1>1. dpc = "info" /\ UNCHANGED dcVars /\ UNCHANGED program /\ [Analyse]_vars
  BY DEF RunFuncInfo, Analyse, Mark, AllMarked, Process, AllProcessed
<1>2. Inv'
  BY <1>1, InvStep DEF DeadInv
<1>3. DeadTypeOK'
  BY <1>1, <1>2 DEF DeadInv, DeadTypeOK, dcVars, code, IsCode, Inv
<1>4. live' = Instrs /\ at' = 1 /\ ~changed' /\ dpc' = "info"
  BY <1>1 DEF DeadInv, Deleted, dcVars
<1>5. CallGraph' /\ NoUseOfDeleted'
  BY <1>1 DEF DeadInv, CallGraph, CallsOf, NoUseOfDeleted, dcVars, code, program
<1>6. Marking' /\ Deleted' /\ Round'
  BY <1>4 DEF Marking, Deleted, Round
<1> QED
  BY <1>2, <1>3, <1>4, <1>5, <1>6 DEF DeadInv

\* Every other step leaves FuncInfo and the code alone, so that what is critical
\* never changes.
LEMMA OtherSteps ==
  ASSUME DeadInv, UNCHANGED <<vars, code>>
  PROVE  /\ Inv' /\ CallGraph' /\ IsCode'
         /\ fpc' = fpc /\ TypeOK'
         /\ \A i \in Instrs : Critical(i)' <=> Critical(i)
<1>1. Inv'
  BY PhaseStep DEF DeadInv
<1> QED
  BY <1>1 DEF DeadInv, DeadTypeOK, Inv, CallGraph, CallsOf, IsCode, Critical,
              vars, program, fiVars, code

LEMMA BeginRoundsStep ==
  ASSUME DeadInv, BeginRounds
  PROVE  DeadInv'
<1>1. /\ UNCHANGED <<vars, code>>
      /\ UNCHANGED <<operands, live, at, changed, marked, pending>>
      /\ dpc = "info" /\ fpc = "done" /\ dpc' = "next"
  BY DEF BeginRounds
<1>2. at = 1 /\ live = Instrs
  BY <1>1 DEF DeadInv, Deleted
<1> QED
  BY <1>1, <1>2, OtherSteps
     DEF DeadInv, DeadTypeOK, NoUseOfDeleted, Marking, Deleted, Round, Funcs

\* mark(func) starts from the critical instructions of the function.
LEMMA BeginMarkStep ==
  ASSUME DeadInv, BeginMark
  PROVE  DeadInv'
<1>1. /\ UNCHANGED <<vars, code>>
      /\ UNCHANGED <<operands, live, at, changed>>
      /\ dpc = "next" /\ at \in Funcs /\ dpc' = "mark"
      /\ marked' = {i \in InFunc(at) : Critical(i)} /\ pending' = marked'
  BY DEF BeginMark
<1>2. InFunc(at)' = InFunc(at) /\ InFunc(at) \subseteq live /\ live \subseteq Instrs
  BY <1>1 DEF InFunc, DeadInv, DeadTypeOK
<1>3. \A i \in Instrs : Critical(i)' <=> Critical(i)
  BY <1>1, OtherSteps
<1>4. DeadTypeOK'
  BY <1>1, <1>2, OtherSteps DEF DeadInv, DeadTypeOK
<1>5. Marking'
  BY <1>1, <1>2, <1>3 DEF Marking
<1>6. Round'
  <2>1. ASSUME NEW S \in SUBSET Instrs, ClosedUnderOperands(S)' PROVE ClosedUnderOperands(S)
    BY <1>1, <1>2, <1>3, <2>1 DEF ClosedUnderOperands
  <2>2. ASSUME NEW S \in SUBSET Instrs, ClosedUnderOperands(S) PROVE marked' \subseteq S
    BY <1>1, <1>2, <2>2 DEF ClosedUnderOperands
  <2> QED
    BY <1>1, <2>1, <2>2 DEF DeadInv, Round, InFunc
<1> QED
  BY <1>1, <1>3, <1>4, <1>5, <1>6, OtherSteps DEF DeadInv, NoUseOfDeleted, Deleted

\* Marking the operands of one instruction; they are live, as it is.
LEMMA MarkOperandsStep ==
  ASSUME DeadInv, NEW i \in pending, MarkOperands(i)
  PROVE  DeadInv'
<1> DEFINE new == {j \in operands[i] : j \notin marked /\ FuncOf[j] = FuncOf[i]}
<1>1. /\ UNCHANGED <<vars, code>>
      /\ UNCHANGED <<operands, live, at, changed>>
      /\ dpc = "mark" /\ dpc' = "mark"
      /\ marked' = marked \cup new /\ pending' = (pending \ {i}) \cup new
  BY DEF MarkOperands
<1>2. /\ i \in marked /\ i \in live /\ i \in Instrs /\ FuncOf[i] = at
      /\ at \in Funcs /\ marked \subseteq InFunc(at) /\ live \subseteq Instrs
  BY <1>1 DEF DeadInv, DeadTypeOK, Marking, InFunc
<1>3. new = operands[i] \ marked /\ new \subseteq InFunc(at)
  BY <1>2 DEF DeadInv, DeadTypeOK, NoUseOfDeleted, InFunc
<1>4. InFunc(at)' = InFunc(at)
  BY <1>1 DEF InFunc
<1>5. \A j \in Instrs : Critical(j)' <=> Critical(j)
  BY <1>1, OtherSteps
<1>6. DeadTypeOK'
  BY <1>1, <1>2, <1>3, OtherSteps DEF DeadInv, DeadTypeOK, InFunc
<1>7. Marking'
  <2>1. \A j \in InFunc(at) : Critical(j)' => j \in marked'
    BY <1>1, <1>2, <1>5 DEF DeadInv, Marking, InFunc
  <2>2. \A j \in marked' \ pending' : operands[j] \subseteq marked'
    <3> SUFFICES ASSUME NEW j \in marked' \ pending' PROVE operands[j] \subseteq marked'
      OBVIOUS
    <3>1. CASE j = i
      BY <1>1, <1>3, <3>1
    <3>2. CASE j # i
      BY <1>1, <3>2 DEF DeadInv, Marking
    <3> QED
      BY <3>1, <3>2
  <2> QED
    BY <1>1, <1>2, <1>3, <1>4, <2>1, <2>2 DEF Marking
<1>8. Round'
  <2>1. ASSUME NEW S \in SUBSET Instrs, ClosedUnderOperands(S)' PROVE ClosedUnderOperands(S)
    BY <1>1, <1>2, <1>5, <2>1 DEF ClosedUnderOperands
  <2>2. ASSUME NEW S \in SUBSET Instrs, ClosedUnderOperands(S), marked \subseteq S
        PROVE  marked' \subseteq S
    BY <1>1, <1>2, <1>3, <2>2 DEF ClosedUnderOperands, InFunc
  <2> QED
    BY <1>1, <2>1, <2>2 DEF DeadInv, Round, InFunc
<1> QED
  BY <1>1, <1>5, <1>6, <1>7, <1>8, OtherSteps DEF DeadInv, NoUseOfDeleted, Deleted

\* The sweep: the marked instructions contain their operands, and the instructions
\* of other functions use none of this function.
LEMMA SweepStep ==
  ASSUME DeadInv, Sweep
  PROVE  DeadInv'
<1> DEFINE wait_del == InFunc(at) \ marked
<1>1. /\ UNCHANGED <<vars, code>> /\ UNCHANGED <<marked, pending>>
      /\ dpc = "mark" /\ dpc' = "next" /\ pending = {} /\ at' = at + 1
      /\ operands' = [i \in Instrs |-> IF i \in wait_del THEN {} ELSE operands[i]]
      /\ live' = live \ wait_del
      /\ changed' = (changed \/ wait_del # {})
  BY DEF Sweep
<1>2. /\ at \in Funcs /\ at \in Nat /\ marked \subseteq InFunc(at)
      /\ \A i \in InFunc(at) : Critical(i) => i \in marked
      /\ \A i \in marked : operands[i] \subseteq marked
      /\ live \subseteq Instrs /\ InFunc(at) \subseteq live
  BY <1>1 DEF DeadInv, DeadTypeOK, Marking, InFunc, Funcs
<1>3. \A i \in Instrs : Critical(i)' <=> Critical(i)
  BY <1>1, OtherSteps
<1>4. DeadTypeOK'
  <2>1. at' \in 1 .. NumFuncs + 1
    BY <1>1, <1>2, NumAssumption DEF Funcs
  <2>2. operands' \in [Instrs -> SUBSET Instrs]
    BY <1>1 DEF DeadInv, DeadTypeOK
  <2>3. \A i \in Instrs : \A j \in operands'[i] : FuncOf[j] = FuncOf[i]
    BY <1>1 DEF DeadInv, DeadTypeOK
  <2>4. changed' \in BOOLEAN
    BY <1>1 DEF DeadInv, DeadTypeOK
  <2> QED
    BY <1>1, <1>2, <2>1, <2>2, <2>3, <2>4, OtherSteps DEF DeadInv, DeadTypeOK
<1>5. NoUseOfDeleted'
  <2> SUFFICES ASSUME NEW i \in live', NEW j \in operands'[i] PROVE j \in live'
    BY DEF NoUseOfDeleted
  <2>1. i \in live /\ i \notin wait_del /\ j \in operands[i] /\ j \in live /\ FuncOf[j] = FuncOf[i]
    BY <1>1, <1>2 DEF DeadInv, DeadTypeOK, NoUseOfDeleted
  <2>2. CASE FuncOf[i] = at
    BY <1>1, <1>2, <2>1, <2>2 DEF InFunc
  <2>3. CASE FuncOf[i] # at
    BY <1>1, <2>1, <2>3 DEF InFunc
  <2> QED
    BY <2>2, <2>3
<1>6. Deleted'
  BY <1>1, <1>2, <1>3 DEF DeadInv, Deleted
<1>7. ASSUME ~changed' PROVE Round'
  <2>1. wait_del = {} /\ ~changed /\ live' = live /\ InFunc(at) = marked
    BY <1>1, <1>2, <1>7
  <2>2. operands' = operands
    BY <1>1, <2>1 DEF DeadInv, DeadTypeOK
  <2>3. ASSUME NEW S \in SUBSET Instrs, ClosedUnderOperands(S)' PROVE ClosedUnderOperands(S)
    BY <1>2, <1>3, <2>1, <2>2, <2>3 DEF ClosedUnderOperands
  <2>4. \A f \in Funcs : f < at' <=> f < at \/ f = at
    BY <1>1, <1>2 DEF Funcs
  <2>5. \A f \in Funcs : InFunc(f)' = InFunc(f)
    BY <2>1 DEF InFunc
  <2> QED
    BY <1>1, <2>1, <2>3, <2>4, <2>5 DEF DeadInv, Round
<1>8. Round'
  BY <1>7 DEF Round
<1> QED
  BY <1>1, <1>4, <1>5, <1>6, <1>8, OtherSteps DEF DeadInv, Marking

\* The end of a round, and the end of the pass.
LEMMA RoundStep ==
  ASSUME DeadInv, NextRound \/ RoundsDone
  PROVE  DeadInv'
<1>1. /\ UNCHANGED <<vars, code>> /\ UNCHANGED <<operands, live, marked, pending>>
      /\ dpc = "next" /\ at \notin Funcs
      /\ \/ at' = 1 /\ changed' = FALSE /\ dpc' = dpc
         \/ at' = at /\ changed' = changed /\ ~changed /\ dpc' = "done"
  BY DEF NextRound, RoundsDone
<1>2. \A i \in Instrs : Critical(i)' <=> Critical(i)
  BY <1>1, OtherSteps
<1>3. DeadTypeOK'
  <2>1. 1 \in 1 .. NumFuncs + 1
    BY NumAssumption
  <2>2. changed' \in BOOLEAN /\ at' \in 1 .. NumFuncs + 1 /\ dpc' \in {"next", "done"}
    BY <1>1, <2>1 DEF DeadInv, DeadTypeOK
  <2>3. fpc' = "done"
    BY <1>1, OtherSteps DEF DeadInv, DeadTypeOK
  <2> QED
    BY <1>1, <2>2, <2>3, OtherSteps DEF DeadInv, DeadTypeOK
<1>4. Round'
  <2>1. live \subseteq Instrs
    BY DEF DeadInv, DeadTypeOK
  <2>2. ASSUME NEW S \in SUBSET Instrs, ClosedUnderOperands(S)' PROVE ClosedUnderOperands(S)
    BY <1>1, <1>2, <2>1, <2>2 DEF ClosedUnderOperands
  <2>3. \A f \in Funcs : InFunc(f)' = InFunc(f)
    BY <1>1 DEF InFunc
  <2>4. CASE at' = 1 /\ dpc' = dpc
    <3>1. \A f \in Funcs : ~(f < at')
      BY <2>4, NumAssumption DEF Funcs
    <3> QED
      BY <1>1, <2>4, <3>1 DEF Round
  <2>5. CASE dpc' = "done" /\ at' = at
    <3>1. \A f \in Funcs : f < at
      BY <1>1, NumAssumption DEF DeadInv, DeadTypeOK, Funcs
    <3>2. \A i \in live : FuncOf[i] \in Funcs /\ i \in InFunc(FuncOf[i])
      BY <2>1, InstrsAssumption DEF InFunc
    <3>3. ASSUME NEW S \in SUBSET Instrs, \A f \in Funcs : InFunc(f) \subseteq S PROVE live \subseteq S
      BY <3>2, <3>3
    <3> QED
      BY <1>1, <2>2, <2>3, <2>5, <3>1, <3>3 DEF DeadInv, Round
  <2> QED
    BY <1>1, <2>4, <2>5
<1> QED
  BY <1>1, <1>2, <1>3, <1>4, OtherSteps DEF DeadInv, NoUseOfDeleted, Marking, Deleted

LEMMA DeadNextInv == DeadInv /\ [DeadNext]_allVars => DeadInv'
<1> SUFFICES ASSUME DeadInv, [DeadNext]_allVars PROVE DeadInv'
  OBVIOUS
<1>1. CASE RunFuncInfo
  BY <1>1, InfoStep
<1>2. CASE BeginRounds
  BY <1>2, BeginRoundsStep
<1>3. CASE BeginMark
  BY <1>3, BeginMarkStep
<1>4. ASSUME NEW i \in pending, MarkOperands(i) PROVE DeadInv'
  BY <1>4, MarkOperandsStep
<1>5. CASE Sweep
  BY <1>5, SweepStep
<1>6. CASE NextRound \/ RoundsDone
  BY <1>6, RoundStep
<1>7. CASE UNCHANGED allVars
  <2>1. UNCHANGED <<vars, code>> /\ UNCHANGED dcVars
    BY <1>7 DEF allVars, dcVars
  <2> QED
    BY <2>1, OtherSteps DEF DeadInv, DeadTypeOK, NoUseOfDeleted, Marking, Deleted, Round,
                            InFunc, ClosedUnderOperands, Critical, vars, fiVars, dcVars, code
<1> QED
  BY <1>1, <1>2, <1>3, <1>4, <1>5, <1>6, <1>7 DEF DeadNext

LEMMA DeadSpecInv == DeadSpec => []DeadInv
<1>1. DeadInit => DeadInv
  BY DeadInitInv
<1>2. DeadInv /\ [DeadNext]_allVars => DeadInv'
  BY DeadNextInv
<1> QED
  BY <1>1, <1>2, PTL DEF DeadSpec

-----------------------------------------------------------------------------
\* In every state of the pass, the operands of the live instructions are live.
THEOREM NoDanglingUse == DeadSpec => []NoUseOfDeleted
<1>1. DeadInv => NoUseOfDeleted
  BY DEF DeadInv
<1> QED
  BY <1>1, DeadSpecInv, PTL

\* Purity and deletion together: no store, branch or return is deleted, and no
\* call whose callee can reach a trivially impure function.
THEOREM DeletionSafe == DeadSpec => []NothingObservableDeleted
<1>1. ASSUME DeadInv, NEW i \in Instrs \ live PROVE ~Observable(i)
  <2>1. fpc = "done" /\ ~Critical(i)
    BY <1>1 DEF DeadInv, DeadTypeOK, Deleted
  <2>2. ClosedUnderCallers(Impure) /\ Impure \in SUBSET Funcs
    BY <1>1, <2>1, InvPurity DEF DeadInv, PurityExact, Impure, Inv, TypeOK
  <2>3. callee[i] \in Impure => ~is_pure[callee[i]]
    BY DEF Impure
  <2> QED
    BY <2>1, <2>2, <2>3 DEF Observable, Critical
<1>2. DeadInv => NothingObservableDeleted
  BY <1>1 DEF NothingObservableDeleted
<1> QED
  BY <1>2, DeadSpecInv, PTL

\* What is left at the end is what the critical instructions need.
THEOREM DeletionComplete == DeadSpec => []NothingUselessLeft
<1>1. DeadInv => NothingUselessLeft
  BY DEF DeadInv, Round, NothingUselessLeft
<1> QED
  BY <1>1, DeadSpecInv, PTL
=============================================================================
