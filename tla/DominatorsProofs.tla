-------------------------- MODULE DominatorsProofs --------------------------
(***************************************************************************)
(* Proofs about Dominators, for every control-flow graph.                  *)
(*                                                                         *)
(* The sets of create_dom only shrink, because the equations' right-hand   *)
(* side NewDom is monotone and starts below the initial sets (Above); a    *)
(* round without a change leaves a solution (RoundInv, Solved); and every  *)
(* solution stays below the sets (Greatest).  So the pass ends with the    *)
(* greatest solution, which is the dominator relation (DomByPaths).        *)
(*                                                                         *)
(* On the graphs the front end builds this is DomExact, and the immediate  *)
(* dominators (IdomInv) and the frontiers (FrontierInv) follow: the search *)
(* passes over no strict dominator, and the climb skips none.              *)
(***************************************************************************)
EXTENDS Dominators, FiniteSetTheorems, TLAPS

UnseenStep(env, acc, p) == Unseen(acc, p)

IsIn(D, n, value) == value \in D[n]

Body == INSTANCE IterateProofs WITH step <- UnseenStep, known <- IsIn

DomMaps(f) == [Blocks(f) -> SUBSET Blocks(f)]

Above == Analysed => \A b \in Blocks(ir) : NewDom(dom, b) \subseteq dom[b]

RoundInv ==
  dpc = "dom" /\ ~changed =>
    \A b \in Blocks(ir) : b < at => dom[b] = NewDom(dom, b)

Solved ==
  Analysed /\ dpc # "dom" => \A b \in Blocks(ir) : dom[b] = NewDom(dom, b)

Solution(S) == \A b \in Blocks(ir) : S[b] \subseteq NewDom(S, b)

Greatest ==
  Analysed =>
    \A S \in DomMaps(ir) : Solution(S) => \A b \in Blocks(ir) : S[b] \subseteq dom[b]

AtStart == dpc = "idle" => at = 1

Inv == TypeOK /\ AtStart /\ Above /\ RoundInv /\ Solved /\ Greatest

-----------------------------------------------------------------------------
LEMMA BlockFacts ==
  ASSUME IsBody(ir)
  PROVE  /\ Len(ir.code) \in Nat \ {0}
         /\ Blocks(ir) = 1 .. Len(ir.code)
         /\ Entry \in Blocks(ir)
         /\ Cardinality(Blocks(ir)) = Len(ir.code)
         /\ Preds(Entry) = {}
         /\ \A b \in Blocks(ir) : Preds(b) \subseteq Blocks(ir)
<1>1. Len(ir.code) \in Nat \ {0} /\ Blocks(ir) = 1 .. Len(ir.code)
  BY DEF IsBody
<1>2. Entry \in Blocks(ir)
  BY <1>1 DEF Entry
<1>3. Cardinality(1 .. Len(ir.code)) = Len(ir.code)
  <2>1. Cardinality(1 .. Len(ir.code)) =
          IF 1 > Len(ir.code) THEN 0 ELSE Len(ir.code) - 1 + 1
    BY <1>1, FS_Interval
  <2> QED
    BY <1>1, <2>1
<1>4. Preds(Entry) = {}
  BY DEF IsBody, Preds, ToSet
<1>5. ASSUME NEW b \in Blocks(ir) PROVE Preds(b) \subseteq Blocks(ir)
  <2>1. ir.pre[b] \in Seq(Blocks(ir))
    BY DEF IsBody
  <2> QED
    BY <2>1 DEF Preds, ToSet
<1> QED
  BY <1>1, <1>2, <1>3, <1>4, <1>5

\* The right-hand side of the dominator equations is monotone.
LEMMA NewDomMonotone ==
  ASSUME IsBody(ir), NEW S, NEW T,
         \A b \in Blocks(ir) : S[b] \subseteq T[b],
         NEW b \in Blocks(ir)
  PROVE  /\ NewDom(S, b) \subseteq NewDom(T, b)
         /\ NewDom(S, b) \subseteq Blocks(ir)
BY BlockFacts DEF NewDom

LEMMA InitInv == Init => Inv
<1> SUFFICES ASSUME Init PROVE Inv
  OBVIOUS
<1>1. ~Analysed
  BY DEF Init, Idle, Analysed
<1>2. 1 \in 1 .. Len(ir.code) + 1
  BY BlockFacts DEF Init
<1> QED
  BY <1>1, <1>2 DEF Init, Idle, Inv, TypeOK, AtStart, Above, RoundInv, Solved, Greatest

\* A step that changes neither the sets nor the phase "dom" keeps what is known
\* about the sets.
LEMMA SameDom ==
  ASSUME Inv, UNCHANGED <<ir, dom>>, TypeOK',
         Analysed' => Analysed,
         dpc # "dom", dpc' \notin {"idle", "dom"}
  PROVE  Inv'
<1>1. Above'
  BY DEF Inv, Above, NewDom, Preds
<1>2. Solved'
  <2>1. ASSUME Analysed' PROVE \A b \in Blocks(ir) : dom[b] = NewDom(dom, b)
    BY <2>1 DEF Inv, Solved
  <2> QED
    BY <2>1 DEF Solved, NewDom, Preds
<1>3. Greatest'
  BY DEF Inv, Greatest, Solution, NewDom, Preds, DomMaps
<1>4. AtStart' /\ RoundInv'
  BY DEF AtStart, RoundInv
<1> QED
  BY <1>1, <1>2, <1>3, <1>4 DEF Inv

LEMMA BeginStep ==
  ASSUME Inv, Begin
  PROVE  Inv'
<1> USE DEF Inv
<1>1. IsBody(ir) /\ ir' = ir
  BY DEF TypeOK, Begin
<1>2. dom' = [b \in Blocks(ir) |-> IF b = Entry THEN {Entry} ELSE Blocks(ir)]
  BY DEF Begin
<1>3. TypeOK'
  BY <1>1, BlockFacts DEF TypeOK, Begin, Analysed, NoBlock
<1>4. \A b \in Blocks(ir) : NewDom(dom', b) \subseteq dom'[b]
  BY <1>1, <1>2, BlockFacts DEF NewDom
<1>5. Above'
  BY <1>1, <1>4 DEF Above, NewDom, Preds
<1>6. RoundInv' /\ AtStart' /\ Solved'
  BY <1>1, BlockFacts DEF Begin, RoundInv, AtStart, Solved
<1>7. ASSUME NEW S \in DomMaps(ir), Solution(S), NEW b \in Blocks(ir)
      PROVE  S[b] \subseteq dom'[b]
  <2>1. CASE b = Entry
    BY <1>1, <1>2, <1>7, <2>1, BlockFacts DEF Solution, NewDom
  <2>2. CASE b # Entry
    BY <1>2, <2>2 DEF DomMaps
  <2> QED
    BY <2>1, <2>2
<1>8. Greatest'
  BY <1>1, <1>7 DEF Greatest, Solution, DomMaps, NewDom, Preds
<1> QED
  BY <1>3, <1>5, <1>6, <1>8

\* One block of a round: its set can only shrink, and every solution stays below.
LEMMA VisitStep ==
  ASSUME Inv, VisitBlock
  PROVE  /\ Inv'
         /\ \A b \in Blocks(ir) : dom'[b] \subseteq dom[b]
<1> USE DEF Inv
<1>1. /\ IsBody(ir) /\ ir' = ir /\ at \in Blocks(ir)
      /\ dpc = "dom" /\ dpc' = "dom" /\ at' = at + 1
      /\ changed' = (changed \/ dom[at] # NewDom(dom, at))
      /\ Analysed /\ Analysed'
  BY DEF TypeOK, VisitBlock, Analysed
<1>2. dom \in DomMaps(ir) /\ dom' = [dom EXCEPT ![at] = NewDom(dom, at)]
  BY <1>1 DEF TypeOK, VisitBlock, DomMaps
<1>3. \A b \in Blocks(ir) : dom'[b] = IF b = at THEN NewDom(dom, at) ELSE dom[b]
  BY <1>2 DEF DomMaps
<1>4. \A b \in Blocks(ir) : dom'[b] \subseteq dom[b]
  BY <1>1, <1>3 DEF Above
<1>5. \A b \in Blocks(ir) : NewDom(dom', b) \subseteq NewDom(dom, b)
  BY <1>1, <1>4, NewDomMonotone
<1>6. \A b \in Blocks(ir) : NewDom(dom', b) \subseteq dom'[b]
  BY <1>1, <1>3, <1>5 DEF Above
<1>7. TypeOK'
  <2>1. dom' \in DomMaps(ir)
    <3>1. NewDom(dom, at) \subseteq Blocks(ir)
      BY <1>1 DEF NewDom
    <3> QED
      BY <1>2, <3>1 DEF DomMaps
  <2>2. at' \in 1 .. Len(ir.code) + 1
    BY <1>1, BlockFacts
  <2> QED
    BY <1>1, <2>1, <2>2 DEF TypeOK, VisitBlock, DomMaps
<1>8. Above'
  BY <1>1, <1>6 DEF Above, NewDom, Preds
<1>9. RoundInv'
  <2> SUFFICES ASSUME ~changed', NEW b \in Blocks(ir), b < at'
               PROVE  dom'[b] = NewDom(dom', b)
    BY <1>1 DEF RoundInv, NewDom, Preds
  <2>1. ~changed /\ dom[at] = NewDom(dom, at)
    BY <1>1
  <2>2. dom' = dom
    BY <1>2, <2>1 DEF DomMaps
  <2>3. b < at \/ b = at
    BY <1>1, BlockFacts
  <2> QED
    BY <1>1, <2>1, <2>2, <2>3 DEF RoundInv
<1>10. ASSUME NEW S \in DomMaps(ir), Solution(S), NEW b \in Blocks(ir)
       PROVE  S[b] \subseteq dom'[b]
  <2>1. \A x \in Blocks(ir) : S[x] \subseteq dom[x]
    BY <1>1, <1>10 DEF Greatest
  <2>2. NewDom(S, at) \subseteq NewDom(dom, at)
    BY <1>1, <2>1, NewDomMonotone
  <2> QED
    BY <1>1, <1>3, <1>10, <2>1, <2>2 DEF Solution
<1>11. Greatest'
  BY <1>1, <1>10 DEF Greatest, Solution, DomMaps, NewDom, Preds
<1>12. AtStart' /\ Solved'
  BY <1>1 DEF AtStart, Solved
<1> QED
  BY <1>4, <1>7, <1>8, <1>9, <1>11, <1>12

\* A new round starts at the first block; the end of the last one leaves a solution.
LEMMA RoundStep ==
  ASSUME Inv, NextRound \/ DomDone
  PROVE  Inv'
<1> USE DEF Inv
<1>1. /\ IsBody(ir) /\ UNCHANGED <<ir, dom, idom, frontier>> /\ Analysed /\ Analysed'
      /\ dpc = "dom" /\ at \notin Blocks(ir) /\ at' = 1
      /\ \/ dpc' = "dom" /\ changed' = FALSE
         \/ dpc' = "idom" /\ ~changed /\ changed' = changed
  BY DEF TypeOK, NextRound, DomDone, Analysed
<1>2. at' \in Blocks(ir)
  BY <1>1, BlockFacts DEF Entry
<1>3. TypeOK'
  <2>1. at' \in 1 .. Len(ir.code) + 1
    BY <1>1, <1>2, BlockFacts
  <2> QED
    BY <1>1, <1>2, <2>1 DEF TypeOK
<1>4. Above' /\ Greatest' /\ AtStart'
  BY <1>1 DEF Above, Greatest, AtStart, Solution, NewDom, Preds
<1>5. RoundInv'
  BY <1>1, BlockFacts DEF RoundInv
<1>6. Solved'
  <2>1. ~changed => \A b \in Blocks(ir) : dom[b] = NewDom(dom, b)
    <3>1. \A b \in Blocks(ir) : b < at
      BY <1>1, BlockFacts DEF TypeOK
    <3> QED
      BY <1>1, <3>1 DEF RoundInv
  <2> QED
    BY <1>1, <2>1 DEF Solved, NewDom, Preds
<1> QED
  BY <1>3, <1>4, <1>5, <1>6

\* The search for the immediate dominators only reads the sets.
LEMMA IdomStep ==
  ASSUME Inv, Found \/ Search \/ NotFound \/ IdomDone
  PROVE  Inv'
<1> USE DEF Inv
<1>1. /\ IsBody(ir) /\ UNCHANGED <<ir, dom, frontier, changed>> /\ Analysed /\ Analysed'
      /\ dpc = "idom" /\ dpc' \in {"idom", "frontier"}
  BY DEF TypeOK, Found, Search, NotFound, IdomDone, Analysed
<1>2. dom \in DomMaps(ir) /\ idom \in [Blocks(ir) -> Blocks(ir) \cup {NoBlock}]
  BY <1>1 DEF TypeOK, DomMaps
<1>3. at \in 1 .. Len(ir.code) + 1
  BY DEF TypeOK
<1>4. CASE Found
  <2>1. at \in Blocks(ir) /\ Head(queue) \in Blocks(ir)
    BY <1>1, <1>2, <1>4 DEF TypeOK, Found, DomMaps
  <2>2. at' \in 1 .. Len(ir.code) + 1 /\ at' = at + 1
    BY <1>1, <1>4, <2>1, BlockFacts DEF Found
  <2>3. at' \notin Blocks(ir) => queue' = << >>
    BY <1>4, <2>2 DEF Found, SearchFrom
  <2>4. idom' \in [Blocks(ir) -> Blocks(ir) \cup {NoBlock}]
    BY <1>2, <1>4, <2>1 DEF Found
  <2>5. TypeOK'
    BY <1>1, <2>2, <2>3, <2>4 DEF TypeOK
  <2> QED
    BY <1>1, <2>5, SameDom
<1>5. CASE Search
  <2>1. TypeOK'
    BY <1>1, <1>5 DEF TypeOK, Search
  <2> QED
    BY <1>1, <2>1, SameDom
<1>6. CASE NotFound
  <2>1. at' \in 1 .. Len(ir.code) + 1 /\ at' = at + 1
    BY <1>1, <1>6, BlockFacts DEF NotFound
  <2>2. at' \notin Blocks(ir) => queue' = << >>
    BY <1>6, <2>1 DEF NotFound, SearchFrom
  <2>3. TypeOK'
    BY <1>1, <1>6, <2>1, <2>2 DEF TypeOK, NotFound
  <2> QED
    BY <1>1, <2>3, SameDom
<1>7. CASE IdomDone
  <2>1. at' \in 1 .. Len(ir.code) + 1 /\ dpc' = "frontier" /\ idom' = idom
    BY <1>1, <1>7, BlockFacts DEF IdomDone
  <2>2. TypeOK'
    BY <1>1, <2>1 DEF TypeOK
  <2> QED
    BY <1>1, <2>2, SameDom
<1> QED
  BY <1>4, <1>5, <1>6, <1>7

\* So does the climb that fills the frontiers.
LEMMA FrontierStep ==
  ASSUME Inv, Climb \/ NextEdge \/ NextSource \/ FrontierDone
  PROVE  Inv'
<1> USE DEF Inv
<1>1. /\ IsBody(ir) /\ UNCHANGED <<ir, dom, idom, changed, queue>> /\ Analysed
      /\ dpc = "frontier" /\ dpc' \in {"frontier", "done"}
  BY DEF TypeOK, Climb, NextEdge, NextSource, FrontierDone, Analysed, OnEdge
<1>2. frontier' \in [Blocks(ir) -> SUBSET Blocks(ir)]
  <2>1. frontier \in [Blocks(ir) -> SUBSET Blocks(ir)]
    BY <1>1 DEF TypeOK
  <2>2. CASE Climb
    <3>1. at \in Blocks(ir) /\ succAt \in DOMAIN ir.succ[at] /\ ir.succ[at] \in Seq(Blocks(ir))
      BY <1>1, <2>2 DEF Climb, OnEdge, IsBody
    <3>2. ir.succ[at][succAt] \in Blocks(ir)
      BY <3>1
    <3> QED
      BY <2>1, <2>2, <3>2 DEF Climb
  <2>3. CASE NextEdge \/ NextSource \/ FrontierDone
    BY <2>1, <2>3 DEF NextEdge, NextSource, FrontierDone
  <2> QED
    BY <2>2, <2>3
<1>3. at' \in 1 .. Len(ir.code) + 1
  BY <1>1, BlockFacts DEF TypeOK, Climb, NextEdge, NextSource, FrontierDone
<1>4. TypeOK'
  BY <1>1, <1>2, <1>3 DEF TypeOK
<1> QED
  BY <1>1, <1>4, SameDom

LEMMA NextInv == Inv /\ [Analyse]_vars => Inv'
<1> SUFFICES ASSUME Inv, [Analyse]_vars PROVE Inv'
  OBVIOUS
<1>1. CASE Skip
  <2>1. ~Analysed'
    BY <1>1, BlockFacts DEF Skip, Analysed, Inv, TypeOK
  <2>2. TypeOK'
    BY <1>1, <2>1 DEF Skip, Inv, TypeOK
  <2> QED
    BY <1>1, <2>1, <2>2 DEF Skip, Inv, AtStart, Above, RoundInv, Solved, Greatest
<1>2. CASE UNCHANGED vars
  <2>1. UNCHANGED <<ir, dom, idom, frontier, dpc, at, changed, queue>>
    BY <1>2 DEF vars, domVars
  <2>2. Analysed' <=> Analysed
    BY <2>1 DEF Analysed
  <2>3. TypeOK' /\ AtStart'
    BY <2>1, <2>2 DEF Inv, TypeOK, AtStart
  <2>4. Above' /\ RoundInv' /\ Solved'
    BY <2>1, <2>2 DEF Inv, Above, RoundInv, Solved, NewDom, Preds
  <2>5. Greatest'
    BY <2>1, <2>2 DEF Inv, Greatest, Solution, NewDom, Preds, DomMaps
  <2> QED
    BY <2>3, <2>4, <2>5 DEF Inv
<1> QED
  BY <1>1, <1>2, BeginStep, VisitStep, RoundStep, IdomStep, FrontierStep DEF Analyse

LEMMA SpecInv == Spec => []Inv
<1>1. Init => Inv
  BY InitInv
<1> QED
  BY <1>1, NextInv, PTL DEF Spec

-----------------------------------------------------------------------------
\* The maps of the pass keep their types on every graph.
THEOREM TypeCorrect == Spec => []TypeOK
<1>1. Inv => TypeOK
  BY DEF Inv
<1> QED
  BY <1>1, SpecInv, PTL

\* No dominator set ever grows: every round of the do-while that is followed by
\* another has made one of finitely many finite sets smaller.
THEOREM DomDecreases == Spec => DomShrinks
<1> DEFINE Shrinks == Analysed => \A b \in Blocks(ir) : dom'[b] \subseteq dom[b]
<1>1. ASSUME Inv, Analyse PROVE Shrinks
  <2>1. VisitBlock \/ Begin \/ dom' = dom
    BY <1>1 DEF Analyse, Skip, NextRound, DomDone, Found, Search, NotFound, IdomDone, Climb,
                NextEdge, NextSource, FrontierDone
  <2>2. CASE VisitBlock
    BY <1>1, <2>2, VisitStep
  <2>3. CASE Begin
    BY <2>3 DEF Begin, Analysed
  <2>4. CASE dom' = dom
    BY <2>4
  <2> QED
    BY <2>1, <2>2, <2>3, <2>4
<1>2. Inv /\ [Analyse]_vars => [Shrinks]_vars
  BY <1>1
<1> QED
  BY <1>2, SpecInv, PTL DEF Spec, DomShrinks

(***************************************************************************)
(* What the sets mean.  Closed(X, d): X holds every root except d, and     *)
(* every successor, except d, of a block in X.  The least such set is the  *)
(* set of blocks that a path from a root reaches without d (Undominated).  *)
(***************************************************************************)
Closed(X, d) ==
  /\ Roots \ {d} \subseteq X
  /\ \A b \in Blocks(ir) \ {d} : Preds(b) \cap X # {} => b \in X

Avoidable(d, b) == \A X \in SUBSET Blocks(ir) : Closed(X, d) => b \in X

DomByPaths ==
  Analysed /\ dpc # "dom" =>
    \A b, d \in Blocks(ir) : d \in dom[b] <=> ~Avoidable(d, b)

\* The roots are the blocks without predecessors.
LEMMA RootFacts ==
  ASSUME IsBody(ir), NEW b \in Blocks(ir)
  PROVE  b \in Roots <=> Preds(b) = {}
<1>1. ir.pre[b] \in Seq(Blocks(ir))
  BY DEF IsBody
<1>2. ASSUME NEW s \in Seq(Blocks(ir)), ToSet(s) = {} PROVE s = << >>
  <2>1. DOMAIN s = {} /\ Len(s) \in Nat /\ DOMAIN s = 1 .. Len(s)
    BY <1>2 DEF ToSet
  <2>2. Len(s) = 0
    BY <2>1
  <2> QED
    BY <2>2
<1>3. ToSet(<< >>) = {}
  BY DEF ToSet
<1> QED
  BY <1>1, <1>2, <1>3 DEF Roots, Preds

\* Both directions construct a fixed point: the blocks d does not dominate
\* are closed, and adding d to the sets outside a closed set gives a solution.
LEMMA SolutionDominates ==
  ASSUME Inv, Analysed, dpc # "dom", NEW b \in Blocks(ir), NEW d \in Blocks(ir)
  PROVE  d \in dom[b] <=> ~Avoidable(d, b)
<1>1. /\ IsBody(ir) /\ dom \in DomMaps(ir)
      /\ \A x \in Blocks(ir) : dom[x] = NewDom(dom, x)
  BY DEF Inv, TypeOK, DomMaps, Solved
<1>2. \A x \in Blocks(ir) : x \in Roots <=> Preds(x) = {}
  BY <1>1, RootFacts
<1>3. ASSUME d \in dom[b] PROVE ~Avoidable(d, b)
  <2> DEFINE X == {x \in Blocks(ir) : d \notin dom[x]}
  <2>1. Roots \ {d} \subseteq X
    BY <1>1, <1>2 DEF Roots, NewDom
  <2>2. ASSUME NEW x \in Blocks(ir) \ {d}, NEW p \in Preds(x) \cap X PROVE x \in X
    BY <1>1, <2>2 DEF NewDom
  <2>3. Closed(X, d)
    BY <2>1, <2>2 DEF Closed
  <2> QED
    BY <1>3, <2>3 DEF Avoidable
<1>4. ASSUME ~Avoidable(d, b) PROVE d \in dom[b]
  <2>1. PICK X \in SUBSET Blocks(ir) : Closed(X, d) /\ b \notin X
    BY <1>4 DEF Avoidable
  <2> DEFINE S == [x \in Blocks(ir) |-> IF x \in X THEN {x} ELSE {x, d}]
  <2>2. S \in DomMaps(ir)
    BY DEF DomMaps
  <2>3. ASSUME NEW x \in Blocks(ir) PROVE S[x] \subseteq NewDom(S, x)
    <3>1. CASE x \in X \/ x = d
      BY <3>1 DEF NewDom
    <3>2. CASE x \notin X /\ x # d
      <4>1. Preds(x) # {}
        BY <1>2, <2>1, <3>2 DEF Closed
      <4>2. \A p \in Preds(x) : p \in Blocks(ir) /\ p \notin X
        BY <1>1, <2>1, <3>2, BlockFacts DEF Closed
      <4>3. \A p \in Preds(x) : d \in S[p]
        BY <4>2
      <4> QED
        BY <3>2, <4>1, <4>3 DEF NewDom
    <3> QED
      BY <3>1, <3>2
  <2>4. S[b] \subseteq dom[b]
    BY <2>2, <2>3 DEF Inv, Greatest, Solution
  <2> QED
    BY <2>1, <2>4
<1> QED
  BY <1>3, <1>4

\* When the rounds are over, d is in the set of b exactly when no path from a root
\* to b avoids d: the pass computes the dominators of every graph.
THEOREM DominatorsCorrect == Spec => []DomByPaths
<1>1. Inv => DomByPaths
  BY SolutionDominates DEF DomByPaths
<1> QED
  BY <1>1, SpecInv, PTL

-----------------------------------------------------------------------------
(***************************************************************************)
(* What the front end guarantees beyond IsBody (Lowering!EdgesMirror): the *)
(* two lists of an edge agree, and no block branches to itself.            *)
(***************************************************************************)
Mirrored == \A b, t \in Blocks(ir) : t \in ToSet(ir.succ[b]) <=> b \in Preds(t)

NoSelfLoop == \A b \in Blocks(ir) : b \notin Preds(b)

\* On mirrored lists ReachFrom leads to the blocks that Closed says a root reaches.
LEMMA UndominatedAvoidable ==
  ASSUME IsBody(ir), Mirrored, NEW d \in Blocks(ir), NEW b \in Blocks(ir)
  PROVE  b \in Undominated(d) <=> b # d /\ Avoidable(d, b)
<1>1. /\ IsFiniteSet(Blocks(ir)) /\ ir.succ \in [Blocks(ir) -> Seq(Blocks(ir))]
      /\ Roots \in SUBSET Blocks(ir)
  <2>1. IsFiniteSet(1 .. Len(ir.code))
    BY BlockFacts, FS_Interval
  <2> QED
    BY <2>1, BlockFacts DEF IsBody, Roots
<1>2. Undominated(d) = Body!Hull(Blocks(ir), Grow(ir, {d}), Roots \ {d})
  <2>1. Body!StrictSubsets(Blocks(ir)) = StrictSubsetOrdering(Blocks(ir))
    BY DEF Body!StrictSubsets, StrictSubsetOrdering
  <2>2. Body!IsWellFoundedOn(Body!StrictSubsets(Blocks(ir)), SUBSET Blocks(ir))
    <3>1. IsWellFoundedOn(Body!StrictSubsets(Blocks(ir)), SUBSET Blocks(ir))
      BY <1>1, <2>1, FS_StrictSubsetOrderingWellFounded, FS_FiniteSubsetsOfFinite
    <3> QED
      BY <3>1 DEF IsWellFoundedOn, Body!IsWellFoundedOn
  <2>3. Body!Growing(Blocks(ir), Grow(ir, {d}))
    <3>1. \A c \in Blocks(ir) : ToSet(ir.succ[c]) \subseteq Blocks(ir)
      <4>1. \A c \in Blocks(ir) : ir.succ[c] \in Seq(Blocks(ir))
        BY <1>1
      <4> QED
        BY <4>1 DEF ToSet
    <3> QED
      BY <3>1 DEF Grow, Body!Growing
  <2>4. Body!Limit(Grow(ir, {d})) = Limit(Grow(ir, {d}))
    BY DEF Body!Limit, Limit
  <2> QED
    BY <1>1, <2>2, <2>3, <2>4, Body!LimitIsHull DEF Undominated, ReachFrom
<1>3. \A c \in Blocks(ir) : ToSet(ir.succ[c]) \subseteq Blocks(ir)
  <2>1. \A c \in Blocks(ir) : ir.succ[c] \in Seq(Blocks(ir))
    BY <1>1
  <2> QED
    BY <2>1 DEF ToSet
<1>4. ASSUME NEW X \in SUBSET Blocks(ir)
      PROVE  Closed(X, d) <=> Roots \ {d} \subseteq X /\ Grow(ir, {d})[X] = X
  <2>1. Grow(ir, {d})[X] = X <=>
          \A c \in X : \A t \in Blocks(ir) \ {d} : t \in ToSet(ir.succ[c]) => t \in X
    BY <1>3 DEF Grow, ToSet
  <2>2. (\A t \in Blocks(ir) \ {d} : Preds(t) \cap X # {} => t \in X) <=>
          \A c \in X : \A t \in Blocks(ir) \ {d} : t \in ToSet(ir.succ[c]) => t \in X
    BY DEF Mirrored
  <2> QED
    BY <2>1, <2>2 DEF Closed
<1>5. b \in Undominated(d) <=> Avoidable(d, b)
  BY <1>2, <1>4 DEF Body!Hull, Avoidable
<1>6. ~Avoidable(d, d)
  <2>1. Closed(Blocks(ir) \ {d}, d)
    BY DEF Closed, Roots
  <2> QED
    BY <2>1 DEF Avoidable
<1> QED
  BY <1>5, <1>6

LEMMA InvDomExact == Inv /\ Mirrored => DomExact
<1> SUFFICES ASSUME Inv, Mirrored, dpc \in {"idom", "frontier"},
                    NEW d \in Blocks(ir), NEW b \in Blocks(ir)
             PROVE  d \in dom[b] <=> b \notin Undominated(d)
  BY DEF DomExact
<1>1. d \in dom[b] <=> ~Avoidable(d, b)
  BY SolutionDominates DEF Analysed
<1>2. b \in Undominated(d) <=> b # d /\ Avoidable(d, b)
  BY UndominatedAvoidable DEF Inv, TypeOK
<1>3. d \in dom[d]
  <2>1. dom[d] = NewDom(dom, d)
    BY DEF Inv, Solved, Analysed
  <2> QED
    BY <2>1 DEF NewDom
<1> QED
  BY <1>1, <1>2, <1>3

\* No step of the pass writes to the function.
LEMMA BodyKept == [Analyse]_vars => ir' = ir
BY DEF Analyse, Skip, Begin, VisitBlock, NextRound, DomDone, Found, Search, NotFound, IdomDone,
       Climb, NextEdge, NextSource, FrontierDone, vars

\* On mirrored lists, dom_ is dominance along the successor lists: no walk of ReachFrom
\* from the roots reaches a block without its dominators.
THEOREM DomExactHolds == Spec /\ Mirrored => []DomExact
<1>1. Mirrored /\ [Analyse]_vars => Mirrored'
  BY BodyKept DEF Mirrored, Preds
<1> QED
  BY <1>1, SpecInv, InvDomExact, PTL DEF Spec

-----------------------------------------------------------------------------
(***************************************************************************)
(* The backward search.  Every strict dominator of at also dominates every *)
(* block of the queue, since a block that was passed over is not one; and  *)
(* the blocks passed over (V) have all their predecessors among themselves *)
(* and the queue.                                                          *)
(***************************************************************************)
Sound(b) == \A v \in ToSet(queue) : v # b /\ StrictDom(b) \subseteq dom[v]

Covered(b, V) ==
  /\ b \in V
  /\ (V \ {b}) \cap dom[b] = {}
  /\ visit \subseteq V \cup ToSet(queue)
  /\ \A v \in V : Preds(v) \subseteq V \cup ToSet(queue)

IdomOf(b) ==
  IF StrictDom(b) = {} THEN idom[b] = NoBlock
  ELSE /\ idom[b] \in StrictDom(b)
       /\ \A d \in StrictDom(b) : d \in dom[idom[b]]

SearchInv ==
  dpc = "idom" =>
    /\ queue \in Seq(Blocks(ir))
    /\ at \in visit \/ at \notin Blocks(ir)
    /\ visit \subseteq Blocks(ir)
    /\ at \in Blocks(ir) => Sound(at) /\ \E V \in SUBSET Blocks(ir) : Covered(at, V)

IdomsInv ==
  /\ dpc = "dom" => \A b \in Blocks(ir) : idom[b] = NoBlock
  /\ dpc = "idom" => \A b \in Blocks(ir) : IF b < at THEN IdomOf(b) ELSE idom[b] = NoBlock
  /\ Analysed /\ dpc \in {"frontier", "done"} => \A b \in Blocks(ir) : IdomOf(b)

IdomInv == Inv /\ NoSelfLoop /\ SearchInv /\ IdomsInv

-----------------------------------------------------------------------------
\* A strict dominator of b dominates every predecessor of b.
LEMMA DomOfPred ==
  ASSUME Inv, Analysed, dpc # "dom", NEW b \in Blocks(ir), NEW p \in Preds(b)
  PROVE  dom[b] \ {b} \subseteq dom[p]
<1>1. dom[b] = NewDom(dom, b)
  BY DEF Inv, Solved
<1> QED
  BY <1>1 DEF NewDom

\* Nothing leads into a set of blocks that has no root and whose predecessors are
\* all in it: every block dominates its blocks.
LEMMA Cyclic ==
  ASSUME Inv, Analysed, NEW U \in SUBSET Blocks(ir),
         \A u \in U : Preds(u) # {} /\ Preds(u) \subseteq U,
         NEW b \in U
  PROVE  dom[b] = Blocks(ir)
<1> DEFINE S == [x \in Blocks(ir) |-> IF x \in U THEN Blocks(ir) ELSE {x}]
<1>1. S \in DomMaps(ir)
  BY DEF DomMaps
<1>2. ASSUME NEW x \in Blocks(ir) PROVE S[x] \subseteq NewDom(S, x)
  <2>1. CASE x \in U
    BY <2>1 DEF NewDom
  <2>2. CASE x \notin U
    BY <2>2 DEF NewDom
  <2> QED
    BY <2>1, <2>2
<1>3. S[b] \subseteq dom[b]
  BY <1>1, <1>2 DEF Inv, Greatest, Solution
<1> QED
  BY <1>3 DEF Inv, TypeOK

\* A queue that ran empty has found that no block strictly dominates at.
LEMMA NothingFound ==
  ASSUME Inv, NoSelfLoop, Analysed, dpc # "dom", NEW b \in Blocks(ir),
         NEW V \in SUBSET Blocks(ir), Covered(b, V), ToSet(queue) = {}
  PROVE  StrictDom(b) = {}
<1> SUFFICES ASSUME NEW d \in StrictDom(b) PROVE FALSE
  OBVIOUS
<1>1. d \in Blocks(ir) /\ d \in dom[b] /\ d # b /\ d \notin V
  BY DEF StrictDom, Covered, Inv, TypeOK
<1>2. PICK X \in SUBSET Blocks(ir) : Closed(X, d) /\ b \notin X
  BY <1>1, SolutionDominates DEF Avoidable
<1> DEFINE U == V \ X
<1>3. ASSUME NEW u \in U PROVE Preds(u) # {} /\ Preds(u) \subseteq U
  <2>1. u \in Blocks(ir) /\ u # d /\ u \notin X /\ u \notin Roots
    BY <1>1, <1>2 DEF Closed
  <2>2. Preds(u) \subseteq V
    BY DEF Covered
  <2>3. Preds(u) \cap X = {}
    BY <1>2, <2>1 DEF Closed
  <2> QED
    BY <2>1, <2>2, <2>3, RootFacts DEF Inv, TypeOK
<1>4. b \in U /\ U \in SUBSET Blocks(ir)
  BY <1>2 DEF Covered
<1>5. dom[b] = Blocks(ir)
  <2> HIDE DEF U
  <2> QED
    BY <1>3, <1>4, Cyclic
<1>6. PICK p \in Preds(b) : p \in V
  BY <1>3, <1>4
<1> QED
  BY <1>5, <1>6 DEF NoSelfLoop, Covered

\* Dominance is transitive.
LEMMA DomTransitive ==
  ASSUME Inv, Analysed, dpc # "dom",
         NEW b \in Blocks(ir), NEW e \in dom[b], NEW d \in dom[e]
  PROVE  d \in dom[b]
<1>1. dom \in DomMaps(ir) /\ e \in Blocks(ir) /\ d \in Blocks(ir)
  BY DEF Inv, TypeOK, DomMaps
<1> DEFINE S == [x \in Blocks(ir) |-> IF e \in dom[x] THEN dom[x] \cup {d} ELSE dom[x]]
<1>2. S \in DomMaps(ir)
  BY <1>1 DEF DomMaps
<1>3. ASSUME NEW x \in Blocks(ir) PROVE S[x] \subseteq NewDom(S, x)
  <2>1. dom[x] = NewDom(dom, x)
    BY DEF Inv, Solved
  <2>2. NewDom(dom, x) \subseteq NewDom(S, x)
    BY <2>1, NewDomMonotone DEF Inv, TypeOK
  <2>3. CASE e \notin dom[x]
    BY <2>1, <2>2, <2>3
  <2>4. CASE x = e
    BY <2>1, <2>2, <2>4
  <2>5. CASE e \in dom[x] /\ x # e
    <3>1. Preds(x) # {} /\ \A p \in Preds(x) : p \in Blocks(ir) /\ e \in dom[p]
      BY <2>1, <2>5, BlockFacts DEF NewDom, Inv, TypeOK
    <3>2. d \in NewDom(S, x)
      BY <1>1, <3>1 DEF NewDom
    <3> QED
      BY <2>1, <2>2, <3>2
  <2> QED
    BY <2>3, <2>4, <2>5
<1>4. S[b] \subseteq dom[b]
  BY <1>2, <1>3 DEF Inv, Greatest, Solution
<1> QED
  BY <1>4

\* Append adds one element to the set of elements.
LEMMA AppendToSet ==
  ASSUME NEW S, NEW s \in Seq(S), NEW e \in S
  PROVE  ToSet(Append(s, e)) = ToSet(s) \cup {e}
<1>1. DOMAIN Append(s, e) = 1 .. Len(s) + 1 /\ DOMAIN s = 1 .. Len(s) /\ Len(s) \in Nat
  OBVIOUS
<1>2. \A i \in 1 .. Len(s) + 1 : Append(s, e)[i] = IF i = Len(s) + 1 THEN e ELSE s[i]
  OBVIOUS
<1> QED
  BY <1>1, <1>2 DEF ToSet

\* The queue and the visited set after the predecessors of b were looked at.
LEMMA SearchOnFacts ==
  ASSUME IsBody(ir), NEW b \in Blocks(ir), queue \in Seq(Blocks(ir)), queue # << >>,
         visit \subseteq Blocks(ir)
  PROVE  LET r == SearchOn(b)
         IN  /\ r.queue \in Seq(Blocks(ir)) /\ r.visit \subseteq Blocks(ir)
             /\ ToSet(Tail(queue)) \subseteq ToSet(r.queue)
             /\ ToSet(r.queue) \subseteq ToSet(Tail(queue)) \cup (Preds(b) \ visit)
             /\ visit \subseteq r.visit /\ r.visit \subseteq visit \cup ToSet(r.queue)
             /\ Preds(b) \subseteq r.visit
<1> DEFINE B     == Blocks(ir)
           pre   == ir.pre[b]
           start == [queue |-> Tail(queue), visit |-> visit]
           Known(n) == {acc \in [queue : Seq(B), visit : SUBSET B] :
                          /\ ToSet(Tail(queue)) \subseteq ToSet(acc.queue)
                          /\ ToSet(acc.queue) \subseteq ToSet(Tail(queue)) \cup (Preds(b) \ visit)
                          /\ visit \subseteq acc.visit
                          /\ acc.visit \subseteq visit \cup ToSet(acc.queue)
                          /\ \A j \in 1 .. n : pre[j] \in acc.visit}
           D == [n \in 0 .. Len(pre) |-> Known(n)]
<1>1. /\ pre \in Seq(B) /\ Len(pre) \in Nat
      /\ Preds(b) = {pre[j] : j \in 1 .. Len(pre)} /\ Preds(b) \subseteq B
  <2> HIDE DEF Known, D
  <2>1. pre \in Seq(B)
    BY DEF IsBody
  <2> QED
    BY <2>1, BlockFacts DEF Preds, ToSet
<1>2. start \in Known(0)
  <2>1. Tail(queue) \in Seq(B) /\ visit \in SUBSET B
    OBVIOUS
  <2>2. start \in [queue : Seq(B), visit : SUBSET B]
    BY <2>1
  <2>3. \A j \in 1 .. 0 : pre[j] \in visit
    OBVIOUS
  <2> HIDE DEF D, pre
  <2> QED
    BY <2>2, <2>3
<1>3. ASSUME NEW n \in 1 .. Len(pre), NEW acc \in Known(n - 1)
      PROVE  Unseen(acc, pre[n]) \in Known(n)
  <2>1. /\ pre[n] \in B /\ pre[n] \in Preds(b)
        /\ \A j \in 1 .. n : j = n \/ j \in 1 .. n - 1
    BY <1>1
  <2>2. acc.queue \in Seq(B) /\ acc.visit \in SUBSET B
    OBVIOUS
  <2>3. CASE pre[n] \in acc.visit
    <3>1. \A j \in 1 .. n : pre[j] \in acc.visit
      BY <2>1, <2>3
    <3> QED
      BY <2>3, <3>1 DEF Unseen
  <2>4. CASE pre[n] \notin acc.visit
    <3> DEFINE new == [queue |-> Append(acc.queue, pre[n]), visit |-> acc.visit \cup {pre[n]}]
    <3>1. Append(acc.queue, pre[n]) \in Seq(B)
      BY <2>1, <2>2
    <3>2. ToSet(Append(acc.queue, pre[n])) = ToSet(acc.queue) \cup {pre[n]}
      <4> HIDE DEF Known, D
      <4>1. \A T, s, e : s \in Seq(T) /\ e \in T => ToSet(Append(s, e)) = ToSet(s) \cup {e}
        BY AppendToSet
      <4> QED
        BY <2>1, <2>2, <4>1
    <3>3. \A j \in 1 .. n : pre[j] \in new.visit
      BY <2>1
    <3>4. new \in [queue : Seq(B), visit : SUBSET B]
      BY <2>1, <2>2, <3>1
    <3>5. pre[n] \in Preds(b) \ visit
      BY <2>1, <2>4
    <3>6. /\ ToSet(Tail(queue)) \subseteq ToSet(new.queue)
          /\ ToSet(new.queue) \subseteq ToSet(Tail(queue)) \cup (Preds(b) \ visit)
          /\ visit \subseteq new.visit
          /\ new.visit \subseteq visit \cup ToSet(new.queue)
      BY <3>2, <3>5
    <3>7. new \in Known(n)
      <4> HIDE DEF new, D, pre
      <4> QED
        BY <3>3, <3>4, <3>6
    <3> QED
      BY <2>4, <3>7 DEF Unseen
  <2> QED
    BY <2>3, <2>4
<1>4. /\ D[0] = Known(0) /\ D[Len(pre)] = Known(Len(pre))
      /\ \A n \in 1 .. Len(pre) : D[n] = Known(n) /\ D[n - 1] = Known(n - 1)
  <2> HIDE DEF Known
  <2> QED
    BY <1>1
<1>5. SearchOn(b) = Body!Run(0, start, pre)
  BY DEF SearchOn, RunThrough, UnseenStep, Body!Run, Body!RunThrough
<1>6. SearchOn(b) \in D[Len(pre)]
  <2> HIDE DEF D, Known, start
  <2>1. \A n \in 1 .. Len(pre) : \A x :
          IsIn(D, n - 1, x) => IsIn(D, n, UnseenStep(0, x, pre[n]))
    BY <1>3, <1>4 DEF UnseenStep, IsIn
  <2>2. IsIn(D, 0, start)
    BY <1>2, <1>4 DEF IsIn
  <2>3. IsIn(D, Len(pre), SearchOn(b))
    BY <1>1, <1>5, <2>1, <2>2, Body!RunRule
  <2> QED
    BY <2>3 DEF IsIn
<1> QED
  BY <1>1, <1>4, <1>6

\* What create_idom starts a block with.
LEMMA SearchFromStarts ==
  ASSUME IsBody(ir), NoSelfLoop, \A c \in Blocks(ir) : dom[c] = NewDom(dom, c),
         UNCHANGED <<ir, dom>>,
         NEW b \in Nat, at' = b, SearchFrom(b)
  PROVE  SearchInv'
<1>1. CASE b \notin Blocks(ir)
  BY <1>1, BlockFacts DEF SearchInv, SearchFrom
<1>2. CASE b \in Blocks(ir)
  <2>1. queue' = ir.pre[b] /\ visit' = {b} /\ ToSet(queue') = Preds(b)
    BY <1>2 DEF SearchFrom, Preds
  <2>2. queue' \in Seq(Blocks(ir))
    BY <1>2, <2>1 DEF IsBody
  <2>3. \A v \in Preds(b) : v # b /\ StrictDom(b) \subseteq dom[v]
    BY <1>2 DEF NoSelfLoop, StrictDom, NewDom
  <2>4. Sound(b)'
    BY <2>1, <2>3 DEF Sound, StrictDom
  <2>5. Covered(b, {b})'
    BY <2>1 DEF Covered, Preds
  <2> QED
    BY <1>2, <2>1, <2>2, <2>4, <2>5 DEF SearchInv
<1> QED
  BY <1>1, <1>2

\* A block of the dominator set the search comes to is the closest one.
LEMMA FoundIsIdom ==
  ASSUME Inv, NEW b \in Blocks(ir), queue \in Seq(Blocks(ir)), queue # << >>, Sound(b),
         Head(queue) \in dom[b]
  PROVE  /\ StrictDom(b) # {}
         /\ Head(queue) \in StrictDom(b)
         /\ \A d \in StrictDom(b) : d \in dom[Head(queue)]
<1>1. Head(queue) \in ToSet(queue)
  <2>1. 1 \in DOMAIN queue /\ Head(queue) = queue[1]
    OBVIOUS
  <2> QED
    BY <2>1 DEF ToSet
<1> QED
  BY <1>1 DEF Sound, StrictDom

LEMMA HeadTail ==
  ASSUME NEW S, NEW s \in Seq(S), s # << >>
  PROVE  ToSet(s) = {Head(s)} \cup ToSet(Tail(s)) /\ Head(s) \in S /\ Tail(s) \in Seq(S)
<1>1. /\ DOMAIN s = 1 .. Len(s) /\ Len(s) \in Nat \ {0}
      /\ DOMAIN Tail(s) = 1 .. Len(s) - 1
      /\ \A i \in 1 .. Len(s) - 1 : Tail(s)[i] = s[i + 1]
      /\ Head(s) = s[1]
  OBVIOUS
<1>2. \A i \in 1 .. Len(s) : i = 1 \/ i - 1 \in 1 .. Len(s) - 1
  BY <1>1
<1>3. \A i \in 1 .. Len(s) : i = 1 \/ s[i] = Tail(s)[i - 1]
  BY <1>1, <1>2
<1>4. \A i \in 1 .. Len(s) - 1 : i + 1 \in 1 .. Len(s)
  BY <1>1
<1>5. ToSet(s) \subseteq {Head(s)} \cup ToSet(Tail(s))
  <2>1. ASSUME NEW x \in ToSet(s) PROVE x \in {Head(s)} \cup ToSet(Tail(s))
    <3>1. PICK i \in 1 .. Len(s) : x = s[i]
      BY <1>1 DEF ToSet
    <3> QED
      BY <1>1, <1>2, <1>3, <3>1 DEF ToSet
  <2> QED
    BY <2>1
<1>6. {Head(s)} \cup ToSet(Tail(s)) \subseteq ToSet(s)
  BY <1>1, <1>4 DEF ToSet
<1> QED
  BY <1>5, <1>6

\* A block that was passed over joins V: its predecessors were put in the queue.
LEMMA SearchStep ==
  ASSUME Inv, NoSelfLoop, SearchInv, Search
  PROVE  SearchInv'
<1>0. /\ dpc = "idom" /\ queue # << >> /\ at \in Blocks(ir) /\ Analysed
      /\ UNCHANGED <<ir, dom, at>>
  BY DEF Search, Inv, TypeOK, Analysed
<1>h. PICK h : h = Head(queue)
  OBVIOUS
<1>r. PICK r : r = SearchOn(h)
  OBVIOUS
<1>1. /\ queue \in Seq(Blocks(ir)) /\ visit \subseteq Blocks(ir) /\ at \in visit /\ Sound(at)
      /\ h \in Blocks(ir) /\ h \notin dom[at]
      /\ ToSet(queue) = {h} \cup ToSet(Tail(queue))
      /\ queue' = r.queue /\ visit' = r.visit
  BY <1>0, <1>h, <1>r, HeadTail DEF SearchInv, Search
<1>2. /\ r.queue \in Seq(Blocks(ir)) /\ r.visit \subseteq Blocks(ir)
      /\ ToSet(Tail(queue)) \subseteq ToSet(r.queue)
      /\ ToSet(r.queue) \subseteq ToSet(Tail(queue)) \cup (Preds(h) \ visit)
      /\ visit \subseteq r.visit /\ r.visit \subseteq visit \cup ToSet(r.queue)
      /\ Preds(h) \subseteq r.visit
  BY <1>0, <1>1, <1>r, SearchOnFacts DEF Inv, TypeOK
<1>3. PICK V \in SUBSET Blocks(ir) : Covered(at, V)
  BY <1>0 DEF SearchInv
<1>4. StrictDom(at) \subseteq dom[h] /\ h # at
  BY <1>1 DEF Sound
<1>5. Sound(at)'
  <2>1. ASSUME NEW v \in ToSet(queue') PROVE v # at /\ StrictDom(at) \subseteq dom[v]
    <3>1. CASE v \in ToSet(Tail(queue))
      BY <1>1, <3>1 DEF Sound
    <3>2. CASE v \in Preds(h) \ visit
      <4>1. dom[h] \ {h} \subseteq dom[v]
        BY <1>0, <1>1, <3>2, DomOfPred
      <4>2. StrictDom(at) \subseteq dom[v]
        BY <1>1, <1>4, <4>1 DEF StrictDom
      <4> QED
        BY <1>1, <3>2, <4>2
    <3> QED
      BY <1>1, <1>2, <3>1, <3>2
  <2> QED
    BY <1>0, <2>1 DEF Sound, StrictDom
<1>6. Covered(at, V \cup {h})'
  <2>1. at \in V \cup {h} /\ ((V \cup {h}) \ {at}) \cap dom[at] = {}
    BY <1>1, <1>3 DEF Covered
  <2>2. visit' \subseteq (V \cup {h}) \cup ToSet(queue')
    BY <1>1, <1>2, <1>3 DEF Covered
  <2>3. \A v \in V \cup {h} : Preds(v) \subseteq (V \cup {h}) \cup ToSet(queue')
    BY <1>1, <1>2, <1>3, <2>2 DEF Covered
  <2> QED
    BY <1>0, <2>1, <2>2, <2>3 DEF Covered, Preds
<1>7. V \cup {h} \in SUBSET Blocks(ir)
  BY <1>1
<1> QED
  BY <1>0, <1>1, <1>2, <1>5, <1>6, <1>7 DEF SearchInv

LEMMA IdomOfKept ==
  ASSUME NEW b \in Blocks(ir), UNCHANGED dom, idom'[b] = idom[b]
  PROVE  IdomOf(b)' <=> IdomOf(b)
BY DEF IdomOf, StrictDom

\* The first block found is the immediate dominator, and the search of the next block starts.
LEMMA FoundKeeps ==
  ASSUME IdomInv, Found
  PROVE  SearchInv' /\ IdomsInv'
<1>1. /\ Inv /\ NoSelfLoop /\ Analysed /\ dpc = "idom" /\ at \in Blocks(ir)
      /\ idom \in [Blocks(ir) -> Blocks(ir) \cup {NoBlock}]
      /\ IsBody(ir) /\ UNCHANGED <<ir, dom>>
  BY DEF IdomInv, Found, Inv, TypeOK, Analysed
<1>2. queue \in Seq(Blocks(ir)) /\ queue # << >> /\ Sound(at) /\ Head(queue) \in dom[at]
  BY <1>1 DEF IdomInv, Found, SearchInv
<1>3. /\ idom' = [idom EXCEPT ![at] = Head(queue)]
      /\ at' = at + 1 /\ at + 1 \in Nat /\ dpc' = "idom" /\ SearchFrom(at + 1)
  BY <1>1, BlockFacts DEF Found
<1>4. SearchInv'
  <2>1. \A c \in Blocks(ir) : dom[c] = NewDom(dom, c)
    BY <1>1 DEF Inv, Solved
  <2> QED
    BY <1>1, <1>3, <2>1, SearchFromStarts
<1>5. ASSUME NEW b \in Blocks(ir) PROVE IF b < at + 1 THEN IdomOf(b)' ELSE idom'[b] = NoBlock
  <2>1. CASE b = at
    <3>1. at < at + 1 /\ at \in Nat
      BY <1>1, BlockFacts
    <3>2. PICK c : c = at
      OBVIOUS
    <3>3. IdomOf(c)'
      BY <1>1, <1>2, <1>3, <3>2, FoundIsIdom DEF IdomOf, StrictDom
    <3> QED
      BY <2>1, <3>1, <3>2, <3>3
  <2>2. CASE b # at
    <3>1. idom'[b] = idom[b]
      BY <1>1, <1>3, <2>2
    <3>2. b < at + 1 <=> b < at
      BY <1>1, <2>2, BlockFacts
    <3> QED
      BY <1>1, <3>1, <3>2, IdomOfKept DEF IdomInv, IdomsInv
  <2> QED
    BY <2>1, <2>2
<1>6. IdomsInv'
  BY <1>1, <1>3, <1>5 DEF IdomsInv
<1> QED
  BY <1>4, <1>6

\* An empty queue leaves idom_ at nullptr: nothing dominates the block strictly.
LEMMA NotFoundKeeps ==
  ASSUME IdomInv, NotFound
  PROVE  SearchInv' /\ IdomsInv'
<1>1. /\ Inv /\ NoSelfLoop /\ Analysed /\ dpc = "idom" /\ at \in Blocks(ir)
      /\ IsBody(ir) /\ UNCHANGED <<ir, dom, idom>>
      /\ at' = at + 1 /\ at + 1 \in Nat /\ dpc' = "idom" /\ SearchFrom(at + 1)
  BY BlockFacts DEF IdomInv, NotFound, Inv, TypeOK, Analysed
<1>2. SearchInv'
  <2>1. \A c \in Blocks(ir) : dom[c] = NewDom(dom, c)
    BY <1>1 DEF Inv, Solved
  <2> QED
    BY <1>1, <2>1, SearchFromStarts
<1>3. StrictDom(at) = {}
  <2>1. PICK V \in SUBSET Blocks(ir) : Covered(at, V)
    BY <1>1 DEF IdomInv, SearchInv
  <2>2. ToSet(queue) = {}
    BY DEF NotFound, ToSet
  <2> QED
    BY <1>1, <2>1, <2>2, NothingFound
<1>4. ASSUME NEW b \in Blocks(ir) PROVE IF b < at + 1 THEN IdomOf(b) ELSE idom[b] = NoBlock
  <2>1. IF b < at THEN IdomOf(b) ELSE idom[b] = NoBlock
    BY <1>1 DEF IdomInv, IdomsInv
  <2>2. b < at + 1 <=> b < at \/ b = at
    BY <1>1, BlockFacts
  <2>3. ~(at < at)
    BY <1>1, BlockFacts
  <2> QED
    BY <1>3, <2>1, <2>2, <2>3 DEF IdomOf
<1>5. IdomsInv'
  <2>1. \A b \in Blocks(ir) : IF b < at + 1 THEN IdomOf(b)' ELSE idom'[b] = NoBlock
    BY <1>1, <1>4, IdomOfKept
  <2> QED
    BY <1>1, <2>1 DEF IdomsInv
<1> QED
  BY <1>2, <1>5

LEMMA IdomKeeps == IdomInv /\ [Analyse]_vars => IdomInv'
<1> SUFFICES ASSUME IdomInv, [Analyse]_vars PROVE IdomInv'
  OBVIOUS
<1>0. Inv /\ Inv' /\ NoSelfLoop /\ NoSelfLoop' /\ SearchInv /\ IdomsInv /\ IsBody(ir) /\ ir' = ir
  BY NextInv, BodyKept DEF IdomInv, NoSelfLoop, Preds, Inv, TypeOK
<1> SUFFICES SearchInv' /\ IdomsInv'
  BY <1>0 DEF IdomInv
<1>1. CASE Skip
  <2>1. ~Analysed' /\ dpc' = "done"
    BY <1>0, <1>1, BlockFacts DEF Skip, Analysed
  <2> QED
    BY <2>1 DEF SearchInv, IdomsInv
<1>2. CASE Begin
  <2>1. dpc' = "dom" /\ \A b \in Blocks(ir') : idom'[b] = NoBlock
    BY <1>0, <1>2 DEF Begin
  <2> QED
    BY <2>1 DEF SearchInv, IdomsInv
<1>3. CASE VisitBlock \/ NextRound
  <2>1. dpc = "dom" /\ dpc' = "dom" /\ idom' = idom
    BY <1>3 DEF VisitBlock, NextRound
  <2> QED
    BY <1>0, <2>1 DEF SearchInv, IdomsInv
<1>4. CASE DomDone
  <2>1. /\ dpc = "dom" /\ dpc' = "idom" /\ at' = 1 /\ SearchFrom(1)
        /\ UNCHANGED <<dom, idom>> /\ Analysed
    BY <1>4 DEF DomDone, Analysed
  <2>2. \A c \in Blocks(ir) : dom[c] = NewDom(dom, c)
    <3>1. \A c \in Blocks(ir) : c < at
      BY <1>0, <1>4, BlockFacts DEF DomDone, Inv, TypeOK
    <3> QED
      BY <1>0, <1>4, <3>1 DEF DomDone, Inv, RoundInv
  <2>3. SearchInv'
    BY <1>0, <2>1, <2>2, SearchFromStarts
  <2>4. \A b \in Blocks(ir) : ~(b < 1) /\ idom[b] = NoBlock
    BY <1>0, <2>1, BlockFacts DEF IdomsInv
  <2>5. IdomsInv'
    BY <1>0, <2>1, <2>4 DEF IdomsInv
  <2> QED
    BY <2>3, <2>5
<1>5. CASE Found
  BY <1>5, FoundKeeps
<1>6. CASE Search
  <2>1. SearchInv'
    BY <1>0, <1>6, SearchStep
  <2>2. UNCHANGED <<ir, dom, idom, dpc, at>> /\ dpc = "idom"
    BY <1>6 DEF Search
  <2> QED
    BY <1>0, <2>1, <2>2, IdomOfKept DEF IdomsInv
<1>7. CASE NotFound
  BY <1>7, NotFoundKeeps
<1>8. CASE IdomDone
  <2>1. UNCHANGED <<ir, dom, idom>> /\ dpc = "idom" /\ dpc' = "frontier"
    BY <1>8 DEF IdomDone
  <2>2. \A b \in Blocks(ir) : b < at
    BY <1>0, <1>8, BlockFacts DEF IdomDone, Inv, TypeOK
  <2>3. \A b \in Blocks(ir) : IdomOf(b)'
    BY <1>0, <2>1, <2>2, IdomOfKept DEF IdomsInv
  <2> QED
    BY <1>0, <2>1, <2>3 DEF IdomsInv, SearchInv
<1>9. CASE Climb \/ NextEdge \/ NextSource \/ FrontierDone
  <2>1. /\ UNCHANGED <<ir, dom, idom>> /\ Analysed /\ dpc = "frontier"
        /\ dpc' \in {"frontier", "done"}
    BY <1>9 DEF Climb, NextEdge, NextSource, FrontierDone, OnEdge, Analysed
  <2>2. \A b \in Blocks(ir) : IdomOf(b)'
    BY <1>0, <2>1, IdomOfKept DEF IdomsInv
  <2> QED
    BY <1>0, <2>1, <2>2 DEF IdomsInv, SearchInv
<1>10. CASE UNCHANGED vars
  <2>1. UNCHANGED <<ir, dom, idom, dpc, at, queue, visit>>
    BY <1>10 DEF vars, domVars
  <2> QED
    BY <1>0, <2>1 DEF IdomsInv, SearchInv, IdomOf, Sound, Covered, StrictDom, Preds, Analysed
<1> QED
  BY <1>1, <1>2, <1>3, <1>4, <1>5, <1>6, <1>7, <1>8, <1>9, <1>10 DEF Analyse

LEMMA InitIdomInv == Init /\ NoSelfLoop => IdomInv
<1> SUFFICES ASSUME Init, NoSelfLoop PROVE IdomInv
  OBVIOUS
<1>1. dpc = "idle" /\ ~Analysed
  BY DEF Init, Idle, Analysed
<1> QED
  BY <1>1, InitInv DEF IdomInv, SearchInv, IdomsInv

LEMMA SpecIdomInv == Spec /\ NoSelfLoop => []IdomInv
BY InitIdomInv, IdomKeeps, PTL DEF Spec

\* Without self loops, create_idom leaves the closest strict dominator of every block,
\* whatever the order in which the search comes to the blocks.
THEOREM IdomExactHolds == Spec /\ NoSelfLoop => []IdomExact
<1>1. IdomInv => IdomExact
  BY DEF IdomInv, IdomsInv, IdomExact, IdomOf, Analysed
<1> QED
  BY <1>1, SpecIdomInv, PTL

-----------------------------------------------------------------------------
(***************************************************************************)
(* The climb.  Upper: a target is only put in frontiers it belongs to.     *)
(* Filled: the climb from p has reached every dominator of p that does not *)
(* dominate y.  Climbed: those the running climb has not reached dominate  *)
(* the block it is at.                                                     *)
(***************************************************************************)
Upper ==
  \A x, y \in Blocks(ir) :
    y \in frontier[x] => \E p \in Preds(y) : x \in dom[p] /\ x \notin dom[y]

Filled(p, y) == \A x \in dom[p] \ dom[y] : y \in frontier[x]

Climbed(p, y) ==
  /\ runner \in dom[p] \cup {NoBlock}
  /\ \A x \in dom[p] \ dom[y] : y \in frontier[x] \/ (runner # NoBlock /\ x \in dom[runner])

FrontierInv ==
  /\ dpc \in {"dom", "idom"} => \A x \in Blocks(ir) : frontier[x] = {}
  /\ dpc = "frontier" =>
       /\ Upper
       /\ \A p \in Blocks(ir) : \A i \in DOMAIN ir.succ[p] :
            p < at \/ (p = at /\ i < succAt) => Filled(p, ir.succ[p][i])
       /\ at \in Blocks(ir) =>
            /\ succAt \in 1 .. Len(ir.succ[at]) + 1
            /\ succAt \in DOMAIN ir.succ[at] => Climbed(at, ir.succ[at][succAt])
  /\ dpc = "done" /\ Analysed =>
       /\ Upper
       /\ \A p \in Blocks(ir) : \A i \in DOMAIN ir.succ[p] : Filled(p, ir.succ[p][i])

-----------------------------------------------------------------------------
LEMMA EdgeFacts ==
  ASSUME IsBody(ir), NEW p \in Blocks(ir)
  PROVE  /\ DOMAIN ir.succ[p] = 1 .. Len(ir.succ[p]) /\ Len(ir.succ[p]) \in Nat
         /\ \A i \in DOMAIN ir.succ[p] : ir.succ[p][i] \in Blocks(ir) /\ ir.succ[p][i] \in ToSet(ir.succ[p])
<1>1. ir.succ[p] \in Seq(Blocks(ir))
  BY DEF IsBody
<1> QED
  BY <1>1 DEF ToSet

LEMMA SelfDom ==
  ASSUME Inv, Analysed, dpc # "dom", NEW b \in Blocks(ir)
  PROVE  b \in dom[b]
<1>1. dom[b] = NewDom(dom, b)
  BY DEF Inv, Solved
<1> QED
  BY <1>1 DEF NewDom

\* A climb that starts at the source has everything before it.
LEMMA ClimbStarts ==
  ASSUME Inv, Analysed, dpc # "dom", NEW b \in Blocks(ir),
         NEW y, UNCHANGED <<ir, dom>>, runner' = b
  PROVE  runner' \in dom[b] \cup {NoBlock} /\
         \A x \in dom[b] \ dom[y] : y \in frontier'[x] \/ (runner' # NoBlock /\ x \in dom[runner'])
<1>1. b # NoBlock
  BY BlockFacts DEF NoBlock, Inv, TypeOK
<1> QED
  BY <1>1, SelfDom

\* The block the climb is at gets the target, and the climb goes on above it.
LEMMA ClimbKeeps ==
  ASSUME IdomInv, Mirrored, FrontierInv, Climb
  PROVE  FrontierInv'
<1> DEFINE edge == ir.succ[at][succAt]
<1>1. /\ Inv /\ Inv' /\ Analysed /\ dpc = "frontier" /\ at \in Blocks(ir) /\ IsBody(ir)
      /\ succAt \in DOMAIN ir.succ[at] /\ UNCHANGED <<ir, dom, dpc, at, succAt>>
  <2>1. [Analyse]_vars
    BY DEF Analyse
  <2> QED
    BY <2>1, NextInv DEF IdomInv, Climb, OnEdge, Inv, TypeOK, Analysed
<1>2. PICK y : y = ir.succ[at][succAt]
  OBVIOUS
<1>3. /\ y \in Blocks(ir) /\ at \in Preds(y)
      /\ runner # NoBlock /\ runner \notin dom[y] /\ runner \in dom[at]
      /\ Climbed(at, y) /\ Upper
      /\ frontier' = [frontier EXCEPT ![runner] = @ \cup {y}]
      /\ runner' = idom[runner]
  BY <1>1, <1>2, EdgeFacts DEF Climb, Climbing, FrontierInv, Climbed, Mirrored
<1>4. /\ runner \in Blocks(ir) /\ frontier \in [Blocks(ir) -> SUBSET Blocks(ir)]
      /\ dom \in [Blocks(ir) -> SUBSET Blocks(ir)]
      /\ IdomOf(runner)
  BY <1>1, <1>3 DEF Inv, TypeOK, IdomInv, IdomsInv
<1>5. /\ \A x \in Blocks(ir) : frontier[x] \subseteq frontier'[x]
      /\ \A x, z \in Blocks(ir) : z \in frontier'[x] => z \in frontier[x] \/ (x = runner /\ z = y)
      /\ y \in frontier'[runner]
  BY <1>3, <1>4
<1>6. Upper'
  <2>1. \A x, z \in Blocks(ir) :
          z \in frontier'[x] => \E p \in Preds(z) : x \in dom[p] /\ x \notin dom[z]
    BY <1>3, <1>5 DEF Upper
  <2> QED
    BY <1>1, <2>1 DEF Upper, Preds
<1>7. \A p, z \in Blocks(ir) : Filled(p, z) => Filled(p, z)'
  BY <1>1, <1>4, <1>5 DEF Filled
<1>8. runner' \in dom[at] \cup {NoBlock}
  <2>1. CASE StrictDom(runner) = {}
    BY <1>3, <1>4, <2>1 DEF IdomOf
  <2>2. CASE StrictDom(runner) # {}
    <3>1. idom[runner] \in dom[runner]
      BY <1>4, <2>2 DEF IdomOf, StrictDom
    <3> QED
      BY <1>1, <1>3, <3>1, DomTransitive
  <2> QED
    BY <2>1, <2>2
<1>9. ASSUME NEW x \in dom[at] \ dom[y]
      PROVE  y \in frontier'[x] \/ (runner' # NoBlock /\ x \in dom[runner'])
  <2>1. CASE y \in frontier[x]
    BY <1>1, <1>4, <1>5, <2>1
  <2>2. CASE x = runner
    BY <1>5, <2>2
  <2>3. CASE y \notin frontier[x] /\ x # runner
    <3>1. x \in StrictDom(runner)
      BY <1>3, <2>3 DEF Climbed, StrictDom
    <3>2. idom[runner] \in Blocks(ir) /\ x \in dom[idom[runner]]
      BY <1>4, <3>1 DEF IdomOf, StrictDom
    <3>3. idom[runner] # NoBlock
      BY <1>1, <3>2, BlockFacts DEF NoBlock
    <3> QED
      BY <1>3, <3>2, <3>3
  <2> QED
    BY <2>1, <2>2, <2>3
<1>10. Climbed(at, edge)'
  BY <1>1, <1>2, <1>8, <1>9 DEF Climbed
<1>11. \A p \in Blocks(ir) : \A i \in DOMAIN ir.succ[p] :
          p < at \/ (p = at /\ i < succAt) => Filled(p, ir.succ[p][i])'
  BY <1>1, <1>7, EdgeFacts DEF FrontierInv
<1> QED
  BY <1>1, <1>6, <1>10, <1>11 DEF FrontierInv

\* A climb ends at a dominator of the target: what is left dominates the target too.
LEMMA NextEdgeKeeps ==
  ASSUME IdomInv, FrontierInv, NextEdge
  PROVE  FrontierInv'
<1>1. /\ Inv /\ Analysed /\ dpc = "frontier" /\ at \in Blocks(ir) /\ IsBody(ir)
      /\ succAt \in DOMAIN ir.succ[at] /\ UNCHANGED <<ir, dom, dpc, at, frontier>>
      /\ succAt' = succAt + 1 /\ runner' = at
      /\ ~Climbing(ir.succ[at][succAt]) /\ Upper /\ Climbed(at, ir.succ[at][succAt])
  BY DEF IdomInv, NextEdge, OnEdge, Inv, TypeOK, Analysed, FrontierInv
<1>2. PICK y : y = ir.succ[at][succAt]
  OBVIOUS
<1>3. y \in Blocks(ir) /\ Climbed(at, y) /\ (runner = NoBlock \/ runner \in dom[y])
  BY <1>1, <1>2, EdgeFacts DEF Climbing
<1>4. Filled(at, y)
  BY <1>1, <1>3, DomTransitive DEF Filled, Climbed
<1>5. ASSUME NEW p \in Blocks(ir), NEW i \in DOMAIN ir.succ[p],
             p < at \/ (p = at /\ i < succAt + 1)
      PROVE  Filled(p, ir.succ[p][i])
  <2>1. p < at \/ (p = at /\ i < succAt) \/ (p = at /\ i = succAt)
    BY <1>1, <1>5, EdgeFacts
  <2> QED
    BY <1>2, <1>4, <2>1, <1>1 DEF FrontierInv
<1>6. succAt + 1 \in 1 .. Len(ir.succ[at]) + 1
  BY <1>1, EdgeFacts
<1>7. /\ runner' \in dom[at] \cup {NoBlock}
      /\ \A z : \A x \in dom[at] \ dom[z] : z \in frontier'[x] \/ (runner' # NoBlock /\ x \in dom[runner'])
  BY <1>1, ClimbStarts
<1>8. (succAt \in DOMAIN ir.succ[at] => Climbed(at, ir.succ[at][succAt]))'
  BY <1>1, <1>7 DEF Climbed
<1>9. Upper'
  BY <1>1 DEF Upper, Preds
<1>10. \A p \in Blocks(ir) : \A i \in DOMAIN ir.succ[p] :
         p < at' \/ (p = at' /\ i < succAt') => Filled(p, ir.succ[p][i])'
  BY <1>1, <1>5 DEF Filled
<1> QED
  BY <1>1, <1>6, <1>8, <1>9, <1>10 DEF FrontierInv

LEMMA NextSourceKeeps ==
  ASSUME IdomInv, FrontierInv, NextSource
  PROVE  FrontierInv'
<1>1. /\ Inv /\ Analysed /\ dpc = "frontier" /\ at \in Blocks(ir) /\ IsBody(ir)
      /\ succAt \notin DOMAIN ir.succ[at] /\ UNCHANGED <<ir, dom, dpc, frontier>>
      /\ at' = at + 1 /\ succAt' = 1 /\ runner' = at + 1 /\ Upper
      /\ succAt \in 1 .. Len(ir.succ[at]) + 1 /\ at \in Nat
  BY BlockFacts DEF IdomInv, NextSource, Inv, TypeOK, Analysed, FrontierInv
<1>2. ASSUME NEW p \in Blocks(ir), NEW i \in DOMAIN ir.succ[p],
             p < at + 1 \/ (p = at + 1 /\ i < 1)
      PROVE  Filled(p, ir.succ[p][i])
  <2>1. p < at \/ p = at
    BY <1>1, <1>2, EdgeFacts, BlockFacts
  <2>2. p = at => i < succAt
    BY <1>1, EdgeFacts
  <2> QED
    BY <1>1, <2>1, <2>2 DEF FrontierInv
<1>3. ASSUME at + 1 \in Blocks(ir)
      PROVE  /\ 1 \in 1 .. Len(ir.succ[at + 1]) + 1
             /\ runner' \in dom[at + 1] \cup {NoBlock}
             /\ \A y : \A x \in dom[at + 1] \ dom[y] :
                  y \in frontier'[x] \/ (runner' # NoBlock /\ x \in dom[runner'])
  BY <1>1, <1>3, ClimbStarts, EdgeFacts
<1>4. Upper'
  BY <1>1 DEF Upper, Preds
<1>5. \A p \in Blocks(ir) : \A i \in DOMAIN ir.succ[p] :
         p < at' \/ (p = at' /\ i < succAt') => Filled(p, ir.succ[p][i])'
  BY <1>1, <1>2 DEF Filled
<1>6. (at \in Blocks(ir) =>
            /\ succAt \in 1 .. Len(ir.succ[at]) + 1
            /\ succAt \in DOMAIN ir.succ[at] => Climbed(at, ir.succ[at][succAt]))'
  BY <1>1, <1>3 DEF Climbed
<1> QED
  BY <1>1, <1>4, <1>5, <1>6 DEF FrontierInv

LEMMA FrontierKeeps == IdomInv /\ Mirrored /\ FrontierInv /\ [Analyse]_vars => FrontierInv'
<1> SUFFICES ASSUME IdomInv, Mirrored, FrontierInv, [Analyse]_vars PROVE FrontierInv'
  OBVIOUS
<1>0. Inv /\ Inv' /\ IsBody(ir) /\ ir' = ir
  BY NextInv, BodyKept DEF IdomInv, Inv, TypeOK
<1>1. CASE Skip
  <2>1. ~Analysed' /\ dpc' = "done"
    BY <1>0, <1>1, BlockFacts DEF Skip, Analysed
  <2> QED
    BY <2>1 DEF FrontierInv
<1>2. CASE Begin
  BY <1>0, <1>2 DEF Begin, FrontierInv
<1>3. CASE VisitBlock \/ NextRound \/ DomDone \/ Found \/ Search \/ NotFound
  <2>1. dpc \in {"dom", "idom"} /\ dpc' \in {"dom", "idom"} /\ frontier' = frontier
    BY <1>3 DEF VisitBlock, NextRound, DomDone, Found, Search, NotFound
  <2> QED
    BY <1>0, <2>1 DEF FrontierInv
<1>4. CASE IdomDone
  <2>1. /\ Analysed /\ dpc = "idom" /\ dpc' = "frontier" /\ UNCHANGED <<dom, frontier>>
        /\ at' = 1 /\ succAt' = 1 /\ runner' = 1 /\ 1 \in Blocks(ir)
    BY <1>0, <1>4, BlockFacts DEF IdomDone, Analysed, Entry
  <2>2. \A x \in Blocks(ir) : frontier[x] = {}
    BY <2>1 DEF FrontierInv
  <2>3. Upper'
    BY <1>0, <2>1, <2>2 DEF Upper
  <2>4. \A p \in Blocks(ir) : \A i \in DOMAIN ir.succ[p] : ~(p < 1) /\ ~(i < 1)
    BY <1>0, BlockFacts, EdgeFacts
  <2>5. /\ 1 \in 1 .. Len(ir.succ[1]) + 1
        /\ runner' \in dom[1] \cup {NoBlock}
        /\ \A y : \A x \in dom[1] \ dom[y] : y \in frontier'[x] \/ (runner' # NoBlock /\ x \in dom[runner'])
    BY <1>0, <2>1, ClimbStarts, EdgeFacts
  <2>6. (at \in Blocks(ir) =>
            /\ succAt \in 1 .. Len(ir.succ[at]) + 1
            /\ succAt \in DOMAIN ir.succ[at] => Climbed(at, ir.succ[at][succAt]))'
    BY <1>0, <2>1, <2>5 DEF Climbed
  <2> QED
    BY <1>0, <2>1, <2>3, <2>4, <2>6 DEF FrontierInv
<1>5. CASE Climb
  BY <1>5, ClimbKeeps
<1>6. CASE NextEdge
  BY <1>6, NextEdgeKeeps
<1>7. CASE NextSource
  BY <1>7, NextSourceKeeps
<1>8. CASE FrontierDone
  <2>1. /\ dpc = "frontier" /\ dpc' = "done" /\ UNCHANGED <<dom, frontier>>
        /\ \A p \in Blocks(ir) : p < at
    BY <1>0, <1>8, BlockFacts DEF FrontierDone, Inv, TypeOK
  <2>2. Upper' /\ \A p \in Blocks(ir) : \A i \in DOMAIN ir.succ[p] : Filled(p, ir.succ[p][i])'
    BY <1>0, <2>1 DEF FrontierInv, Upper, Filled, Preds
  <2> QED
    BY <1>0, <2>1, <2>2 DEF FrontierInv
<1>9. CASE UNCHANGED vars
  <2>1. UNCHANGED <<ir, dom, frontier, dpc, at, succAt, runner>>
    BY <1>9 DEF vars, domVars
  <2> QED
    BY <2>1 DEF FrontierInv, Upper, Filled, Climbed, Preds, Analysed
<1> QED
  BY <1>1, <1>2, <1>3, <1>4, <1>5, <1>6, <1>7, <1>8, <1>9 DEF Analyse

LEMMA InvFrontierExact == IdomInv /\ Mirrored /\ FrontierInv => FrontierExact
<1> SUFFICES ASSUME IdomInv, Mirrored, FrontierInv, Analysed, dpc = "done",
                    NEW x \in Blocks(ir), NEW y \in Blocks(ir)
             PROVE  y \in frontier[x] <=> y \in TextbookFrontier(x) \ {x}
  BY DEF FrontierExact, IdomInv, Inv, TypeOK, TextbookFrontier
<1>1. Inv /\ IsBody(ir) /\ x \in dom[x] /\ y \in dom[y]
  BY SelfDom DEF IdomInv, Inv, TypeOK
<1>2. y \in TextbookFrontier(x) \ {x} <=>
        (\E p \in Preds(y) : x \in dom[p]) /\ x \notin dom[y]
  BY <1>1 DEF TextbookFrontier, StrictDom
<1>3. ASSUME NEW p \in Preds(y), x \in dom[p], x \notin dom[y] PROVE y \in frontier[x]
  <2>1. p \in Blocks(ir) /\ y \in ToSet(ir.succ[p])
    BY <1>1, BlockFacts DEF Mirrored
  <2>2. PICK i \in DOMAIN ir.succ[p] : y = ir.succ[p][i]
    BY <2>1 DEF ToSet
  <2> QED
    BY <1>3, <2>1, <2>2 DEF FrontierInv, Filled
<1> QED
  BY <1>2, <1>3 DEF FrontierInv, Upper

\* Without self loops and on mirrored lists, the climb leaves the dominance frontiers,
\* except that no block is put in its own.
THEOREM FrontierExactHolds == Spec /\ Mirrored /\ NoSelfLoop => []FrontierExact
<1>1. Init => FrontierInv
  BY DEF Init, Idle, Analysed, FrontierInv
<1>2. Mirrored /\ [Analyse]_vars => Mirrored'
  BY BodyKept DEF Mirrored, Preds
<1> QED
  BY <1>1, <1>2, SpecIdomInv, FrontierKeeps, InvFrontierExact, PTL DEF Spec
=============================================================================
