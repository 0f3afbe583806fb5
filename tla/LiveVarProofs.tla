---------------------------- MODULE LiveVarProofs ----------------------------
(***************************************************************************)
(* What LiveVar computes of every function.  A recorded value may be read  *)
(* (the block lies in every set of blocks closed against the edges), the   *)
(* sets only grow, and when a round changes nothing they are themselves    *)
(* closed, so nothing is missing but what the pass does not see: uses by a *)
(* phi in the block that defines its operand.                              *)
(***************************************************************************)
EXTENDS LiveVar, TLAPS

-----------------------------------------------------------------------------
\* what each loop of the pass has done when the next one starts
Prepared ==
  /\ pc = "def" => \A b \in Blocks : b < at => BB_def[b] = Defined(b)
  /\ pc # "def" => \A b \in Blocks : BB_def[b] = Defined(b)
  /\ pc = "use" => \A b \in Blocks : b < at => BB_use[b] = Operands(b) \ Defined(b)
  /\ pc \in {"live", "done"} => \A b \in Blocks : BB_use[b] = Operands(b) \ Defined(b)
  /\ pc \in {"def", "use"} => \A b \in Blocks : BB_IN[b] = {} /\ BB_OUT[b] = {}

\* what is recorded as live may be read
Sound ==
  \A v \in Values, b \in Blocks :
     /\ v \in BB_IN[b] => MayBeRead(v, b)
     /\ v \in BB_OUT[b] => \E s \in succ[b] : MayBeRead(v, s)

\* another visit would take nothing away
Above == \A b \in Blocks : BB_IN[b] \subseteq NewIn(b) /\ BB_OUT[b] \subseteq NewOut(b)

Balanced(b) == BB_IN[b] = NewIn(b) /\ BB_OUT[b] = NewOut(b)

RoundInv ==
  /\ pc = "live" /\ ~if_continue => \A b \in Blocks : b < at => Balanced(b)
  /\ pc = "done" => \A b \in Blocks : Balanced(b)

Inv == TypeOK /\ Prepared /\ Sound /\ Above /\ RoundInv

-----------------------------------------------------------------------------
\* The parts of an instruction.
LEMMA InstrType ==
  ASSUME NEW i \in Instr
  PROVE  /\ i.val \in Values \cup {Void} /\ i.ops \subseteq Values
         /\ \A edge \in i.from : edge[1] \in Values /\ edge[2] \in Blocks /\ edge = <<edge[1], edge[2]>>
<1>1. i.val \in Values \cup {Void} /\ i.ops \in SUBSET Values /\ i.from \in SUBSET (Values \X Blocks)
  BY DEF Instr
<1>2. \A edge \in Values \X Blocks : edge[1] \in Values /\ edge[2] \in Blocks /\ edge = <<edge[1], edge[2]>>
  OBVIOUS
<1> QED
  BY <1>1, <1>2

\* An instruction that uses a value before any definition of it is one that uses a
\* value the block does not define; the other such uses are those of phis.
LEMMA UseIsUsed ==
  ASSUME TypeOK, NEW b \in Blocks, NEW v \in Values
  PROVE  /\ UsedFirst(v, b) => v \in Operands(b) \ Defined(b)
         /\ \A p : Taken(v, p, b) => v \in Operands(b)
         /\ v \in Operands(b) \ Defined(b) => UsedFirst(v, b) \/ \E p \in Blocks : Taken(v, p, b)
<1>1. code[b] \in Seq(Instr) /\ OperandsFirst(code[b])
  BY BodiesAssumption DEF TypeOK
<1>2. v # Void
  BY VoidAssumption
<1>3. DOMAIN code[b] = 1 .. Len(code[b]) /\ Len(code[b]) \in Nat
  BY <1>1
<1>4. ASSUME UsedFirst(v, b) PROVE v \in Operands(b) \ Defined(b)
  <2>1. PICK k \in DOMAIN code[b] :
           v \in code[b][k].ops /\ \A j \in 1 .. k - 1 : code[b][j].val # v
    BY <1>4 DEF UsedFirst
  <2>2. v \in Operands(b)
    BY <2>1 DEF Operands
  <2>3. ASSUME NEW j \in DOMAIN code[b], code[b][j].val = v PROVE FALSE
    <3>1. j < k
      BY <1>1, <2>1, <2>3 DEF OperandsFirst
    <3>2. j \in 1 .. k - 1
      BY <1>3, <3>1
    <3> QED
      BY <2>1, <2>3, <3>2
  <2> QED
    BY <2>2, <2>3 DEF Defined
<1>5. ASSUME NEW p, Taken(v, p, b) PROVE v \in Operands(b)
  <2>1. PICK k \in DOMAIN code[b] : <<v, p>> \in code[b][k].from
    BY <1>5 DEF Taken
  <2>2. v \in {edge[1] : edge \in code[b][k].from}
    BY <2>1
  <2> QED
    BY <2>2 DEF Operands
<1>6. ASSUME v \in Operands(b) \ Defined(b)
      PROVE  UsedFirst(v, b) \/ \E p \in Blocks : Taken(v, p, b)
  <2>1. PICK k \in DOMAIN code[b] : v \in code[b][k].ops \cup {edge[1] : edge \in code[b][k].from}
    BY <1>6 DEF Operands
  <2>2. CASE v \in code[b][k].ops
    <3>1. \A j \in DOMAIN code[b] : code[b][j].val # v
      BY <1>2, <1>6 DEF Defined
    <3>2. \A j \in 1 .. k - 1 : j \in DOMAIN code[b]
      BY <1>3
    <3> QED
      BY <2>2, <3>1, <3>2 DEF UsedFirst
  <2>3. CASE \E edge \in code[b][k].from : v = edge[1]
    <3>1. PICK edge \in code[b][k].from : v = edge[1]
      BY <2>3
    <3>2. code[b][k] \in Instr
      BY <1>1
    <3>3. edge = <<v, edge[2]>> /\ edge[2] \in Blocks
      BY <3>1, <3>2, InstrType
    <3> QED
      BY <3>1, <3>3 DEF Taken
  <2> QED
    BY <2>1, <2>2, <2>3
<1> QED
  BY <1>4, <1>5, <1>6

\* The instructions of a block define and use values only.
LEMMA BlockSets ==
  ASSUME TypeOK, NEW b \in Blocks
  PROVE  Defined(b) \subseteq Values /\ Operands(b) \subseteq Values
<1>1. code[b] \in Seq(Instr)
  BY BodiesAssumption DEF TypeOK
<1>2. \A k \in DOMAIN code[b] : code[b][k] \in Instr
  BY <1>1
<1>3. \A k \in DOMAIN code[b] :
        /\ code[b][k].val \in Values \cup {Void} /\ code[b][k].ops \subseteq Values
        /\ {edge[1] : edge \in code[b][k].from} \subseteq Values
  BY <1>2, InstrType
<1> QED
  BY <1>3 DEF Defined, Operands

LEMMA InitInv == Init => Inv
<1> SUFFICES ASSUME Init PROVE Inv
  OBVIOUS
<1>1. TypeOK
  <2>1. 1 \in 1 .. NumBlocks + 1 /\ Blocks \ {1} \subseteq Blocks
    BY BlocksAssumption
  <2> QED
    BY <2>1 DEF Init, TypeOK, ValueMaps
<1>2. Prepared
  BY DEF Init, Prepared, Blocks
<1>3. Sound /\ Above /\ RoundInv
  BY DEF Init, Sound, Above, RoundInv
<1> QED
  BY <1>1, <1>2, <1>3 DEF Inv

\* The first two loops fill BB_def and BB_use and leave the live sets empty.
LEMMA PrepareStep ==
  ASSUME Inv, CreateDef \/ CreateUse \/ NextLoop
  PROVE  Inv'
<1> USE DEF Inv
<1>1. /\ UNCHANGED <<code, succ, BB_IN, BB_OUT, if_continue>>
      /\ pc \in {"def", "use"} /\ pc' \in {"def", "use", "live"}
      /\ \A b \in Blocks : BB_IN[b] = {} /\ BB_OUT[b] = {}
  BY DEF CreateDef, CreateUse, NextLoop, Prepared
<1>2. \A b \in Blocks : Defined(b)' = Defined(b) /\ Operands(b)' = Operands(b)
  BY <1>1 DEF Defined, Operands
<1>3. at \in 1 .. NumBlocks + 1 /\ NumBlocks \in Nat \ {0} /\ Blocks = 1 .. NumBlocks
  BY BlocksAssumption DEF TypeOK, Blocks
<1>4. TypeOK'
  <2>1. CASE CreateDef
    <3>1. at' \in 1 .. NumBlocks + 1 /\ BB_def' \in ValueMaps
      BY <1>3, <2>1, BlockSets DEF CreateDef, TypeOK, ValueMaps
    <3> QED
      BY <1>1, <2>1, <3>1 DEF CreateDef, TypeOK
  <2>2. CASE CreateUse
    <3>1. at' \in 1 .. NumBlocks + 1 /\ BB_use' \in ValueMaps
      BY <1>3, <2>2, BlockSets DEF CreateUse, TypeOK, ValueMaps, Uses
    <3> QED
      BY <1>1, <2>2, <3>1 DEF CreateUse, TypeOK
  <2>3. CASE NextLoop
    <3>1. at' \in 1 .. NumBlocks + 1
      BY <1>3, <2>3 DEF NextLoop
    <3> QED
      BY <1>1, <2>3, <3>1 DEF NextLoop, TypeOK
  <2> QED
    BY <2>1, <2>2, <2>3
<1>5. Prepared'
  <2>1. CASE CreateDef
    <3>1. /\ BB_def' = [BB_def EXCEPT ![at] = Defined(at)] /\ at \in Blocks
          /\ BB_def \in [Blocks -> SUBSET Values]
          /\ at' = at + 1 /\ pc = "def" /\ pc' = "def"
      BY <2>1 DEF CreateDef, TypeOK, ValueMaps
    <3>2. ASSUME NEW b \in Blocks, b < at' PROVE BB_def'[b] = Defined(b)
      <4>1. b = at \/ b < at
        BY <1>3, <3>1, <3>2
      <4> QED
        BY <3>1, <4>1 DEF Prepared
    <3> QED
      BY <1>1, <1>2, <3>1, <3>2 DEF Prepared
  <2>2. CASE CreateUse
    <3>1. /\ BB_use' = [BB_use EXCEPT ![at] = Uses(at)] /\ at \in Blocks
          /\ BB_use \in [Blocks -> SUBSET Values] /\ BB_def' = BB_def
          /\ at' = at + 1 /\ pc = "use" /\ pc' = "use"
      BY <2>2 DEF CreateUse, TypeOK, ValueMaps
    <3>2. ASSUME NEW b \in Blocks, b < at' PROVE BB_use'[b] = Operands(b) \ Defined(b)
      <4>1. b = at \/ b < at
        BY <1>3, <3>1, <3>2
      <4> QED
        BY <3>1, <4>1 DEF Prepared, Uses
    <3>3. \A b \in Blocks : BB_def'[b] = Defined(b)
      BY <3>1 DEF Prepared
    <3> QED
      BY <1>1, <1>2, <3>1, <3>2, <3>3 DEF Prepared
  <2>3. CASE NextLoop
    <3>1. \A b \in Blocks : b < at
      BY <1>3, <2>3 DEF NextLoop
    <3>2. /\ UNCHANGED <<BB_def, BB_use>> /\ at' = 1
          /\ pc' = IF pc = "def" THEN "use" ELSE "live"
      BY <2>3 DEF NextLoop
    <3>3. \A b \in Blocks : ~(b < 1)
      BY <1>3
    <3> QED
      BY <1>1, <1>2, <3>1, <3>2, <3>3 DEF Prepared
  <2> QED
    BY <2>1, <2>2, <2>3
<1>6. Sound' /\ Above'
  BY <1>1 DEF Sound, Above
<1>7. RoundInv'
  <2>1. pc' = "live" => at' = 1
    BY <1>1 DEF CreateDef, CreateUse, NextLoop
  <2>2. \A b \in Blocks : ~(b < 1)
    BY <1>3
  <2> QED
    BY <1>1, <2>1, <2>2 DEF RoundInv
<1> QED
  BY <1>4, <1>5, <1>6, <1>7

\* What a visit puts into the sets of a block may be read from there.
LEMMA NewMayBeRead ==
  ASSUME Inv, pc = "live", NEW b \in Blocks, NEW v \in Values
  PROVE  /\ v \in NewOut(b) => \E s \in succ[b] : MayBeRead(v, s)
         /\ v \in NewIn(b) => MayBeRead(v, b)
<1> USE DEF Inv
<1>1. succ[b] \subseteq Blocks
  BY DEF TypeOK
<1>2. ASSUME v \in NewOut(b) PROVE \E s \in succ[b] : MayBeRead(v, s)
  BY <1>1, <1>2 DEF NewOut, Sound
<1>3. ASSUME v \in NewIn(b), NEW X \in SUBSET Blocks, ReadFrom(v, X) PROVE b \in X
  <2>1. CASE v \in BB_use[b]
    <3>1. UsedFirst(v, b) \/ \E p \in Blocks : Taken(v, p, b)
      BY <2>1, UseIsUsed DEF Prepared
    <3> QED
      BY <1>3, <3>1 DEF ReadFrom
  <2>2. CASE v \in NewOut(b) \ BB_def[b]
    <3>1. PICK s \in succ[b] : MayBeRead(v, s)
      BY <1>2, <2>2
    <3>2. s \in X
      BY <1>3, <3>1 DEF MayBeRead
    <3>3. v \notin Defined(b)
      BY <2>2 DEF Prepared
    <3> QED
      BY <1>3, <3>2, <3>3 DEF ReadFrom
  <2> QED
    BY <1>3, <2>1, <2>2 DEF NewIn
<1> QED
  BY <1>2, <1>3 DEF MayBeRead

\* One block of a round: its sets can only grow, and stay sound.
LEMMA VisitStep ==
  ASSUME Inv, VisitBlock
  PROVE  /\ Inv'
         /\ \A b \in Blocks : BB_IN[b] \subseteq BB_IN'[b] /\ BB_OUT[b] \subseteq BB_OUT'[b]
<1> USE DEF Inv
<1>1. /\ UNCHANGED <<code, succ, BB_def, BB_use>> /\ at \in Blocks
      /\ pc = "live" /\ pc' = "live" /\ at' = at + 1
      /\ if_continue' = (if_continue \/ NewIn(at) # BB_IN[at] \/ NewOut(at) # BB_OUT[at])
  BY DEF VisitBlock
<1>2. /\ BB_IN \in ValueMaps /\ BB_OUT \in ValueMaps
      /\ BB_IN' = [BB_IN EXCEPT ![at] = NewIn(at)]
      /\ BB_OUT' = [BB_OUT EXCEPT ![at] = NewOut(at)]
  BY DEF VisitBlock, TypeOK
<1>3. \A b \in Blocks : /\ BB_IN'[b] = IF b = at THEN NewIn(at) ELSE BB_IN[b]
                        /\ BB_OUT'[b] = IF b = at THEN NewOut(at) ELSE BB_OUT[b]
  BY <1>2 DEF ValueMaps
<1>4. \A b \in Blocks : BB_IN[b] \subseteq BB_IN'[b] /\ BB_OUT[b] \subseteq BB_OUT'[b]
  BY <1>3 DEF Above
<1>5. at \in Nat /\ \A b \in Blocks : b \in Nat
  BY <1>1, BlocksAssumption DEF Blocks
<1>6. TypeOK'
  <2>1. NewOut(at) \subseteq Values /\ NewIn(at) \subseteq Values
    <3>1. succ[at] \subseteq Blocks /\ BB_use[at] \subseteq Values
      BY <1>1 DEF TypeOK, ValueMaps
    <3>2. \A s \in succ[at] : BB_IN[s] \subseteq Values
      BY <1>2, <3>1 DEF ValueMaps
    <3> QED
      BY <3>1, <3>2 DEF NewOut, NewIn
  <2>2. BB_IN' \in ValueMaps /\ BB_OUT' \in ValueMaps
    BY <1>2, <2>1 DEF ValueMaps
  <2>3. at' \in 1 .. NumBlocks + 1
    BY <1>1, BlocksAssumption DEF Blocks
  <2>4. if_continue' \in BOOLEAN
    BY <1>1
  <2> QED
    BY <1>1, <2>2, <2>3, <2>4 DEF TypeOK
<1>7. Prepared'
  BY <1>1 DEF Prepared, Defined, Operands
<1>8. Sound'
  <2>1. \A v, b : MayBeRead(v, b)' <=> MayBeRead(v, b)
    BY <1>1 DEF MayBeRead, ReadFrom, UsedFirst, Taken, Defined
  <2>2. ASSUME NEW v \in Values, NEW b \in Blocks
        PROVE  /\ v \in BB_IN'[b] => MayBeRead(v, b)
               /\ v \in BB_OUT'[b] => \E s \in succ[b] : MayBeRead(v, s)
    <3>1. CASE b = at
      BY <1>1, <1>3, <3>1, NewMayBeRead
    <3>2. CASE b # at
      BY <1>3, <3>2 DEF Sound
    <3> QED
      BY <3>1, <3>2
  <2> QED
    BY <1>1, <2>1, <2>2 DEF Sound
<1>9. \A b \in Blocks : NewOut(b) \subseteq NewOut(b)' /\ NewIn(b) \subseteq NewIn(b)'
  <2> SUFFICES ASSUME NEW b \in Blocks PROVE NewOut(b) \subseteq NewOut(b)' /\ NewIn(b) \subseteq NewIn(b)'
    OBVIOUS
  <2>1. succ[b] \subseteq Blocks /\ succ' = succ
    BY <1>1 DEF TypeOK
  <2>2. NewOut(b) \subseteq NewOut(b)'
    BY <1>4, <2>1 DEF NewOut
  <2> QED
    BY <1>1, <2>2 DEF NewIn
<1>10. Above'
  BY <1>3, <1>9 DEF Above
<1>11. RoundInv'
  <2> SUFFICES ASSUME ~if_continue', NEW b \in Blocks, b < at' PROVE Balanced(b)'
    BY <1>1 DEF RoundInv
  <2>1. ~if_continue /\ Balanced(at)
    BY <1>1 DEF Balanced
  <2>2. BB_IN' = BB_IN /\ BB_OUT' = BB_OUT
    BY <1>2, <2>1 DEF ValueMaps, Balanced
  <2>3. b < at \/ b = at
    BY <1>1, <1>5
  <2>4. Balanced(b)
    BY <1>1, <2>1, <2>3 DEF RoundInv
  <2> QED
    BY <1>1, <2>2, <2>4 DEF Balanced, NewIn, NewOut
<1> QED
  BY <1>4, <1>6, <1>7, <1>8, <1>10, <1>11

\* A step that changes neither the function nor the live sets keeps them sound.
LEMMA SameSets ==
  ASSUME Inv, UNCHANGED <<code, succ, BB_IN, BB_OUT>>
  PROVE  Sound'
<1>1. \A v, b : MayBeRead(v, b)' <=> MayBeRead(v, b)
  BY DEF MayBeRead, ReadFrom, UsedFirst, Taken, Defined
<1> QED
  BY <1>1 DEF Inv, Sound

\* A new round starts at the first block; the end of the last one leaves a solution.
LEMMA RoundStep ==
  ASSUME Inv, NextRound \/ Finish
  PROVE  Inv'
<1> USE DEF Inv
<1>1. /\ UNCHANGED <<code, succ, BB_def, BB_use, BB_IN, BB_OUT>>
      /\ pc = "live" /\ at \notin Blocks
      /\ \/ pc' = "live" /\ at' = 1 /\ if_continue' = FALSE
         \/ pc' = "done" /\ at' = at /\ ~if_continue /\ if_continue' = if_continue
  BY DEF NextRound, Finish
<1>2. at \in 1 .. NumBlocks + 1 /\ NumBlocks \in Nat \ {0} /\ Blocks = 1 .. NumBlocks
  BY BlocksAssumption DEF TypeOK, Blocks
<1>3. TypeOK'
  <2>1. at' \in 1 .. NumBlocks + 1
    BY <1>1, <1>2
  <2>2. if_continue' \in BOOLEAN
    BY DEF TypeOK, NextRound, Finish
  <2> QED
    BY <1>1, <2>1, <2>2 DEF TypeOK
<1>4. Prepared' /\ Sound' /\ Above'
  <2>1. Prepared'
    BY <1>1 DEF Prepared, Defined, Operands
  <2>2. Sound'
    BY <1>1, SameSets
  <2>3. Above'
    BY <1>1 DEF Above, NewIn, NewOut
  <2> QED
    BY <2>1, <2>2, <2>3
<1>5. RoundInv'
  <2>1. \A b \in Blocks : b < at /\ ~(b < 1)
    BY <1>1, <1>2
  <2>2. \A b \in Blocks : Balanced(b)' <=> Balanced(b)
    BY <1>1 DEF Balanced, NewIn, NewOut
  <2> QED
    BY <1>1, <2>1, <2>2 DEF RoundInv
<1> QED
  BY <1>3, <1>4, <1>5

LEMMA NextInv == Inv /\ [Next]_vars => Inv'
<1> SUFFICES ASSUME Inv, [Next]_vars PROVE Inv'
  OBVIOUS
<1>1. CASE UNCHANGED vars
  <2>1. TypeOK' /\ Prepared'
    BY <1>1 DEF vars, Inv, TypeOK, Prepared, Defined, Operands
  <2>2. Sound'
    BY <1>1, SameSets DEF vars
  <2>3. Above' /\ RoundInv'
    BY <1>1 DEF vars, Inv, Above, RoundInv, Balanced, NewIn, NewOut
  <2> QED
    BY <2>1, <2>2, <2>3 DEF Inv
<1> QED
  BY <1>1, PrepareStep, VisitStep, RoundStep DEF Next

LEMMA SpecInv == Spec => []Inv
  BY InitInv, NextInv, PTL DEF Spec

-----------------------------------------------------------------------------
\* The maps of the pass keep their types on every function.
THEOREM TypeCorrect == Spec => []TypeOK
<1>1. Inv => TypeOK
  BY DEF Inv
<1> QED
  BY <1>1, SpecInv, PTL

\* No live set ever loses a value: the do-while climbs a finite lattice.
THEOREM LiveIncreases == Spec => LiveGrows
<1> DEFINE Grows ==
      \A b \in Blocks : BB_IN[b] \subseteq BB_IN'[b] /\ BB_OUT[b] \subseteq BB_OUT'[b]
<1>1. ASSUME Inv, Next PROVE Grows
  <2>1. VisitBlock \/ (BB_IN' = BB_IN /\ BB_OUT' = BB_OUT)
    BY <1>1 DEF Next, CreateDef, CreateUse, NextLoop, NextRound, Finish
  <2> QED
    BY <1>1, <2>1, VisitStep
<1>2. Inv /\ [Next]_vars => [Grows]_vars
  BY <1>1
<1> QED
  BY <1>2, SpecInv, PTL DEF Spec, LiveGrows

\* On every function, the sets at the end hold each value that an instruction on some
\* path uses, or a phi on the way, unless it is a phi of the block that defines it.
THEOREM NothingMissed == Spec => []LiveKept
<1>1. Inv => LiveKept
  <2> SUFFICES ASSUME Inv, pc = "done", NEW v \in Values, NEW b \in Blocks
               PROVE  /\ LiveAtStart(v, b) => v \in BB_IN[b]
                      /\ LiveAtEnd(v, b) => v \in BB_OUT[b]
    BY DEF LiveKept
  <2> DEFINE X == {c \in Blocks : v \in BB_IN[c]}
  <2>1. \A c \in Blocks : /\ BB_def[c] = Defined(c) /\ BB_use[c] = Operands(c) \ Defined(c)
                          /\ Balanced(c) /\ succ[c] \subseteq Blocks
    BY DEF Inv, Prepared, RoundInv, TypeOK
  <2>2. \A c \in Blocks : v \in Operands(c) \ Defined(c) => c \in X
    BY <2>1 DEF Balanced, NewIn
  <2>3. ASSUME NEW c \in Blocks, NEW s \in succ[c], UsedOnEdge(v, c, s) PROVE s \in X
    BY <2>1, <2>2, <2>3, UseIsUsed DEF Inv, UsedOnEdge
  <2>4. ASSUME NEW c \in Blocks, NEW s \in succ[c], s \in X PROVE v \in BB_OUT[c]
    BY <2>1, <2>4 DEF Balanced, NewOut
  <2>5. ASSUME NEW c \in Blocks, v \in BB_OUT[c], v \notin Defined(c) PROVE c \in X
    BY <2>1, <2>5 DEF Balanced, NewIn
  <2>6. NeededFrom(v, X)
    <3>1. ASSUME NEW c \in Blocks, UsedFirst(v, c) PROVE c \in X
      BY <2>2, <3>1, UseIsUsed DEF Inv
    <3>2. ASSUME NEW c \in Blocks, NEW s \in succ[c], v \notin Defined(c),
                 s \in X \/ UsedOnEdge(v, c, s)
          PROVE  c \in X
      BY <2>3, <2>4, <2>5, <3>2
    <3> QED
      BY <3>1, <3>2 DEF NeededFrom
  <2>7. \A c \in Blocks : LiveAtStart(v, c) => c \in X
    BY <2>6 DEF LiveAtStart
  <2>8. ASSUME LiveAtEnd(v, b) PROVE v \in BB_OUT[b]
    <3>1. PICK s \in succ[b] : UsedOnEdge(v, b, s) \/ LiveAtStart(v, s)
      BY <2>8 DEF LiveAtEnd
    <3>2. s \in X
      BY <2>1, <2>3, <2>7, <3>1
    <3> QED
      BY <2>4, <3>2
  <2> QED
    BY <2>7, <2>8
<1> QED
  BY <1>1, SpecInv, PTL

\* On every function, they hold no value that no path leads to an instruction or a
\* phi of.
THEOREM NothingAdded == Spec => []NothingExtra
<1>1. Inv => NothingExtra
  BY DEF Inv, Sound, NothingExtra
<1> QED
  BY <1>1, SpecInv, PTL
=============================================================================
