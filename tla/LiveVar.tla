------------------------------- MODULE LiveVar -------------------------------
(***************************************************************************)
(* The LiveVar pass on one function: the values every block defines and    *)
(* uses, then the round-robin computation of the values live at its start  *)
(* and at its end.  One step is one block of one of the loops.             *)
(***************************************************************************)
EXTENDS Naturals, Sequences, FiniteSets

CONSTANTS
  NumBlocks,  \* number of basic blocks
  Values,     \* instructions with a result, arguments and globals
  Void,       \* the result of a void instruction
  Bodies      \* what a block may contain

ASSUME BlocksAssumption == NumBlocks \in Nat \ {0}
ASSUME VoidAssumption == Void \notin Values

Blocks == 1 .. NumBlocks

\* A phi has no ops but takes each of its operands on the edge from a block.
Instr == [val : Values \cup {Void}, ops : SUBSET Values, from : SUBSET (Values \X Blocks)]

\* an instruction other than a phi follows the instructions of its block it uses
OperandsFirst(body) ==
  \A j, k \in DOMAIN body : body[j].val \in body[k].ops => j < k

ASSUME BodiesAssumption == Bodies \subseteq Seq(Instr) /\ \A body \in Bodies : OperandsFirst(body)

VARIABLES
  code, succ,                       \* the function: read, never changed
  BB_def, BB_use, BB_IN, BB_OUT,    \* the maps of the pass
  pc,                               \* create_BB_def, create_BB_use or create_BB_IN_OUT
  at,                               \* the block the for loop is at
  if_continue

vars == <<code, succ, BB_def, BB_use, BB_IN, BB_OUT, pc, at, if_continue>>

-----------------------------------------------------------------------------
SingleAssignment(c) ==
  \A a, b \in Blocks : \A j \in DOMAIN c[a], k \in DOMAIN c[b] :
     c[a][j].val = c[b][k].val /\ c[a][j].val # Void => a = b /\ j = k

\* v is an operand of a phi of s for the edge from p
Taken(v, p, s) == \E k \in DOMAIN code[s] : <<v, p>> \in code[s][k].from

\* Nothing branches to the entry block; a phi names predecessors.
Init ==
  /\ code \in [Blocks -> Bodies] /\ SingleAssignment(code)
  /\ succ \in [Blocks -> SUBSET (Blocks \ {1})]
  /\ \A s, p \in Blocks, v \in Values : Taken(v, p, s) => s \in succ[p]
  /\ BB_def = [b \in Blocks |-> {}]
  /\ BB_use = [b \in Blocks |-> {}]
  /\ BB_IN = [b \in Blocks |-> {}]
  /\ BB_OUT = [b \in Blocks |-> {}]
  /\ pc = "def"
  /\ at = 1
  /\ if_continue = FALSE

Defined(b) == {code[b][k].val : k \in DOMAIN code[b]} \ {Void}

\* get_operand of every instruction of b: of a phi the values, whatever their edge
Operands(b) ==
  UNION {code[b][k].ops \cup {edge[1] : edge \in code[b][k].from} : k \in DOMAIN code[b]}

CreateDef ==
  /\ pc = "def" /\ at \in Blocks
  /\ BB_def' = [BB_def EXCEPT ![at] = Defined(at)]
  /\ at' = at + 1
  /\ UNCHANGED <<code, succ, BB_use, BB_IN, BB_OUT, pc, if_continue>>

Uses(b) == Operands(b) \ BB_def[b]

CreateUse ==
  /\ pc = "use" /\ at \in Blocks
  /\ BB_use' = [BB_use EXCEPT ![at] = Uses(at)]
  /\ at' = at + 1
  /\ UNCHANGED <<code, succ, BB_def, BB_IN, BB_OUT, pc, if_continue>>

NextLoop ==
  /\ pc \in {"def", "use"} /\ at \notin Blocks
  /\ pc' = IF pc = "def" THEN "use" ELSE "live"
  /\ at' = 1
  /\ UNCHANGED <<code, succ, BB_def, BB_use, BB_IN, BB_OUT, if_continue>>

-----------------------------------------------------------------------------
(***************************************************************************)
(* create_BB_IN_OUT: what is live at the end of a block is what is live at *)
(* the start of its successors.                                            *)
(***************************************************************************)
NewOut(b) == UNION {BB_IN[s] : s \in succ[b]}

\* mutant: the values defined in the block are not removed
NewInKeepsDefs(b) == NewOut(b) \cup BB_use[b]

NewIn(b) == (NewOut(b) \ BB_def[b]) \cup BB_use[b]

\* mutant: only the block visited last decides whether there is another round
VisitBlockForgets ==
  /\ pc = "live" /\ at \in Blocks
  /\ BB_IN' = [BB_IN EXCEPT ![at] = NewIn(at)]
  /\ BB_OUT' = [BB_OUT EXCEPT ![at] = NewOut(at)]
  /\ if_continue' = (NewIn(at) # BB_IN[at] \/ NewOut(at) # BB_OUT[at])
  /\ at' = at + 1
  /\ UNCHANGED <<code, succ, BB_def, BB_use, pc>>

VisitBlock ==
  /\ pc = "live" /\ at \in Blocks
  /\ BB_IN' = [BB_IN EXCEPT ![at] = NewIn(at)]
  /\ BB_OUT' = [BB_OUT EXCEPT ![at] = NewOut(at)]
  /\ if_continue' = (if_continue \/ NewIn(at) # BB_IN[at] \/ NewOut(at) # BB_OUT[at])
  /\ at' = at + 1
  /\ UNCHANGED <<code, succ, BB_def, BB_use, pc>>

\* mutant: the flag is not reset
NextRoundKeepsFlag ==
  /\ pc = "live" /\ at \notin Blocks /\ if_continue
  /\ at' = 1
  /\ UNCHANGED <<code, succ, BB_def, BB_use, BB_IN, BB_OUT, pc, if_continue>>

NextRound ==
  /\ pc = "live" /\ at \notin Blocks /\ if_continue
  /\ at' = 1
  /\ if_continue' = FALSE
  /\ UNCHANGED <<code, succ, BB_def, BB_use, BB_IN, BB_OUT, pc>>

Finish ==
  /\ pc = "live" /\ at \notin Blocks /\ ~if_continue
  /\ pc' = "done"
  /\ UNCHANGED <<code, succ, BB_def, BB_use, BB_IN, BB_OUT, at, if_continue>>

Next ==
  \/ CreateDef
  \/ CreateUse
  \/ NextLoop
  \/ VisitBlock
  \/ NextRound
  \/ Finish

\* the compiler has one thread: the pass runs until it returns
Spec == Init /\ [][Next]_vars /\ WF_vars(Next)

-----------------------------------------------------------------------------
(***************************************************************************)
(* Properties.                                                             *)
(***************************************************************************)
ValueMaps == [Blocks -> SUBSET Values]

TypeOK ==
  /\ code \in [Blocks -> Bodies] /\ succ \in [Blocks -> SUBSET Blocks]
  /\ BB_def \in ValueMaps /\ BB_use \in ValueMaps
  /\ BB_IN \in ValueMaps /\ BB_OUT \in ValueMaps
  /\ pc \in {"def", "use", "live", "done"}
  /\ at \in 1 .. NumBlocks + 1
  /\ if_continue \in BOOLEAN

(***************************************************************************)
(* Liveness by paths.  An instruction uses its operands where it stands, a *)
(* phi uses one at the end of the predecessor it has it from.  A set of    *)
(* blocks is closed for v when it holds the blocks that use v with no      *)
(* definition of v before and, with a block, each predecessor that does    *)
(* not define v; the least one are the blocks from whose start a path      *)
(* leads to a use.                                                         *)
(***************************************************************************)
UsedFirst(v, b) ==
  \E k \in DOMAIN code[b] : v \in code[b][k].ops /\ \A j \in 1 .. k - 1 : code[b][j].val # v

\* a use at the end of p that the pass sees: not by a phi of the block that defines v
UsedOnEdge(v, p, s) == Taken(v, p, s) /\ v \notin Defined(s)

NeededFrom(v, X) ==
  /\ \A b \in Blocks : UsedFirst(v, b) => b \in X
  /\ \A b \in Blocks : \A s \in succ[b] :
        v \notin Defined(b) /\ (s \in X \/ UsedOnEdge(v, b, s)) => b \in X

LiveAtStart(v, b) == \A X \in SUBSET Blocks : NeededFrom(v, X) => b \in X

LiveAtEnd(v, b) == \E s \in succ[b] : UsedOnEdge(v, b, s) \/ LiveAtStart(v, s)

\* When the rounds are over, no set lacks a value that some path still uses, with
\* one exception that the code makes: an operand of a phi in the very block that
\* defines it (x = phi [x, latch], or two phis of a header that change places) is not
\* kept for that phi.  The pass forgets the order of the instructions and takes a
\* phi for a use in its own block; that is enough for every other use.
LiveKept ==
  pc = "done" =>
    \A v \in Values, b \in Blocks :
       /\ LiveAtStart(v, b) => v \in BB_IN[b]
       /\ LiveAtEnd(v, b) => v \in BB_OUT[b]

\* every predecessor of a phi may be given its operands
ReadFrom(v, X) ==
  /\ \A b \in Blocks : UsedFirst(v, b) \/ (\E p \in Blocks : Taken(v, p, b)) => b \in X
  /\ \A b \in Blocks : v \notin Defined(b) /\ succ[b] \cap X # {} => b \in X

MayBeRead(v, b) == \A X \in SUBSET Blocks : ReadFrom(v, X) => b \in X

\* The solution is the least one: a value is in a set only if a path that does not
\* define it leads to an instruction that uses it or to a block with a phi of it,
\* also round loops that the rounds go through against the flow.
NothingExtra ==
  pc = "done" =>
    \A v \in Values, b \in Blocks :
       /\ v \in BB_IN[b] => MayBeRead(v, b)
       /\ v \in BB_OUT[b] => \E s \in succ[b] : MayBeRead(v, s)

\* A set never loses a value, so the do-while cannot go round in circles.
LiveGrows == [][\A b \in Blocks : BB_IN[b] \subseteq BB_IN'[b] /\ BB_OUT[b] \subseteq BB_OUT'[b]]_vars

=============================================================================
