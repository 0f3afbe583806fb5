----------------------------- MODULE Dominators -----------------------------
(***************************************************************************)
(* The Dominators pass on one function: the round-robin computation of the *)
(* dominator sets, the backward search for the immediate dominators, and   *)
(* the walk that fills the dominance frontiers.  One step is one iteration *)
(* of the innermost loop of create_dom, of create_idom, or of              *)
(* create_dominance_frontier.                                              *)
(***************************************************************************)
EXTENDS Ir

VARIABLES
  ir,        \* the function: read, never changed
  dom,       \* dom_: block -> set of blocks
  idom,      \* idom_: block -> block, NoBlock for nullptr
  frontier,  \* dom_frontier_: block -> set of blocks
  dpc,       \* which of the three computations is running
  at,        \* the block the current for loop is at
  changed,   \* if_continue of create_dom
  queue,     \* q of create_idom
  visit,     \* visit of create_idom
  succAt,    \* the successor of block at create_dominance_frontier is at
  runner     \* x of create_dominance_frontier

domVars == <<dom, idom, frontier, dpc, at, changed, queue, visit, succAt, runner>>
vars == <<ir, domVars>>

NoBlock == 0

Preds(b) == ToSet(ir.pre[b])

-----------------------------------------------------------------------------
\* what the pass may rely on: a list of blocks with their edge lists
IsBody(f) ==
  /\ Len(f.code) \in Nat \ {0}
  /\ Blocks(f) = 1 .. Len(f.code)
  /\ f.pre \in [Blocks(f) -> Seq(Blocks(f))]
  /\ f.succ \in [Blocks(f) -> Seq(Blocks(f))]
  /\ f.pre[Entry] = << >>

\* before the pass: empty maps
Idle ==
  /\ dom = << >> /\ idom = << >> /\ frontier = << >>
  /\ dpc = "idle"
  /\ at = 1 /\ changed = FALSE
  /\ queue = << >> /\ visit = {}
  /\ succAt = 1 /\ runner = NoBlock

Init == IsBody(ir) /\ Idle

(***************************************************************************)
(* A function of one block is skipped.  Otherwise the entry starts with    *)
(* itself, every other block with all blocks.                              *)
(***************************************************************************)
Skip ==
  /\ dpc = "idle" /\ Cardinality(Blocks(ir)) < 2
  /\ dpc' = "done"
  /\ UNCHANGED <<ir, dom, idom, frontier, at, changed, queue, visit, succAt, runner>>

Begin ==
  /\ dpc = "idle" /\ Cardinality(Blocks(ir)) >= 2
  /\ dom' = [b \in Blocks(ir) |-> IF b = Entry THEN {Entry} ELSE Blocks(ir)]
  /\ idom' = [b \in Blocks(ir) |-> NoBlock]
  /\ frontier' = [b \in Blocks(ir) |-> {}]
  /\ dpc' = "dom"
  /\ UNCHANGED <<ir, at, changed, queue, visit, succAt, runner>>

-----------------------------------------------------------------------------
(***************************************************************************)
(* create_dom: new_set is the block itself and what all its predecessors   *)
(* have in common.  A round that changed something is followed by another. *)
(***************************************************************************)
\* mutant: the first predecessor stands for all
NewDomFirst(d, b) ==
  {b} \cup (IF ir.pre[b] = << >> THEN {} ELSE d[Head(ir.pre[b])])

NewDom(d, b) ==
  {b} \cup (IF Preds(b) = {} THEN {} ELSE {x \in Blocks(ir) : \A p \in Preds(b) : x \in d[p]})

VisitBlock ==
  /\ dpc = "dom" /\ at \in Blocks(ir)
  /\ dom' = [dom EXCEPT ![at] = NewDom(dom, at)]
  /\ changed' = (changed \/ dom[at] # NewDom(dom, at))
  /\ at' = at + 1
  /\ UNCHANGED <<ir, idom, frontier, dpc, queue, visit, succAt, runner>>

NextRound ==
  /\ dpc = "dom" /\ at \notin Blocks(ir) /\ changed
  /\ at' = 1
  /\ changed' = FALSE
  /\ UNCHANGED <<ir, dom, idom, frontier, dpc, queue, visit, succAt, runner>>

\* the queue and the visited set create_idom starts block b with
SearchFrom(b) ==
  /\ queue' = IF b \in Blocks(ir) THEN ir.pre[b] ELSE << >>
  /\ visit' = IF b \in Blocks(ir) THEN {b} ELSE {}

DomDone ==
  /\ dpc = "dom" /\ at \notin Blocks(ir) /\ ~changed
  /\ dpc' = "idom"
  /\ at' = 1
  /\ SearchFrom(1)
  /\ UNCHANGED <<ir, dom, idom, frontier, changed, succAt, runner>>

-----------------------------------------------------------------------------
(***************************************************************************)
(* create_idom: a breadth-first search backwards from the block, stopped   *)
(* by the first block that is in its dominator set.                        *)
(***************************************************************************)
\* the predecessors of b that were not seen yet go to the end of the queue
Unseen(acc, p) ==
  IF p \in acc.visit THEN acc
  ELSE [queue |-> Append(acc.queue, p), visit |-> acc.visit \cup {p}]

SearchOn(b) == RunThrough(Unseen, [queue |-> Tail(queue), visit |-> visit], ir.pre[b])

\* mutant: the search goes on after a dominator was found
FoundGoesOn ==
  /\ dpc = "idom" /\ queue # << >> /\ Head(queue) \in dom[at]
  /\ idom' = [idom EXCEPT ![at] = Head(queue)]
  /\ queue' = SearchOn(Head(queue)).queue
  /\ visit' = SearchOn(Head(queue)).visit
  /\ UNCHANGED <<ir, dom, frontier, dpc, at, changed, succAt, runner>>

Found ==
  /\ dpc = "idom" /\ queue # << >> /\ Head(queue) \in dom[at]
  /\ idom' = [idom EXCEPT ![at] = Head(queue)]
  /\ at' = at + 1
  /\ SearchFrom(at + 1)
  /\ UNCHANGED <<ir, dom, frontier, dpc, changed, succAt, runner>>

Search ==
  /\ dpc = "idom" /\ queue # << >> /\ Head(queue) \notin dom[at]
  /\ queue' = SearchOn(Head(queue)).queue
  /\ visit' = SearchOn(Head(queue)).visit
  /\ UNCHANGED <<ir, dom, idom, frontier, dpc, at, changed, succAt, runner>>

NotFound ==
  /\ dpc = "idom" /\ queue = << >> /\ at \in Blocks(ir)
  /\ at' = at + 1
  /\ SearchFrom(at + 1)
  /\ UNCHANGED <<ir, dom, idom, frontier, dpc, changed, succAt, runner>>

IdomDone ==
  /\ dpc = "idom" /\ at \notin Blocks(ir)
  /\ dpc' = "frontier"
  /\ at' = 1
  /\ succAt' = 1
  /\ runner' = 1
  /\ UNCHANGED <<ir, dom, idom, frontier, changed, queue, visit>>

-----------------------------------------------------------------------------
(***************************************************************************)
(* create_dominance_frontier: for every edge, climb from its source along  *)
(* the immediate dominators until a block that dominates its target.       *)
(***************************************************************************)
OnEdge == dpc = "frontier" /\ at \in Blocks(ir) /\ succAt \in DOMAIN ir.succ[at]

\* mutant: the operands of find are swapped
ClimbingSwapped(target) == runner # NoBlock /\ target \notin dom[runner]

Climbing(target) == runner # NoBlock /\ runner \notin dom[target]

\* mutant: x is not advanced
ClimbInPlace ==
  /\ OnEdge
  /\ Climbing(ir.succ[at][succAt])
  /\ frontier' = [frontier EXCEPT ![runner] = @ \cup {ir.succ[at][succAt]}]
  /\ UNCHANGED <<ir, dom, idom, dpc, at, changed, queue, visit, succAt, runner>>

Climb ==
  /\ OnEdge
  /\ Climbing(ir.succ[at][succAt])
  /\ frontier' = [frontier EXCEPT ![runner] = @ \cup {ir.succ[at][succAt]}]
  /\ runner' = idom[runner]
  /\ UNCHANGED <<ir, dom, idom, dpc, at, changed, queue, visit, succAt>>

NextEdge ==
  /\ OnEdge
  /\ ~Climbing(ir.succ[at][succAt])
  /\ succAt' = succAt + 1
  /\ runner' = at
  /\ UNCHANGED <<ir, dom, idom, frontier, dpc, at, changed, queue, visit>>

NextSource ==
  /\ dpc = "frontier" /\ at \in Blocks(ir) /\ succAt \notin DOMAIN ir.succ[at]
  /\ at' = at + 1
  /\ succAt' = 1
  /\ runner' = at + 1
  /\ UNCHANGED <<ir, dom, idom, frontier, dpc, changed, queue, visit>>

FrontierDone ==
  /\ dpc = "frontier" /\ at \notin Blocks(ir)
  /\ dpc' = "done"
  /\ UNCHANGED <<ir, dom, idom, frontier, at, changed, queue, visit, succAt, runner>>

-----------------------------------------------------------------------------
Analyse ==
  \/ Skip
  \/ Begin
  \/ VisitBlock
  \/ NextRound
  \/ DomDone
  \/ Found
  \/ Search
  \/ NotFound
  \/ IdomDone
  \/ Climb
  \/ NextEdge
  \/ NextSource
  \/ FrontierDone

Spec == Init /\ [][Analyse]_vars

-----------------------------------------------------------------------------
(***************************************************************************)
(* Properties.                                                             *)
(***************************************************************************)
\* the maps are total on the blocks of a function that is being analysed
Analysed == dpc \notin {"idle", "done"} \/ (dpc = "done" /\ Cardinality(Blocks(ir)) > 1)

TypeOK ==
  /\ IsBody(ir)
  /\ Analysed =>
      /\ dom \in [Blocks(ir) -> SUBSET Blocks(ir)]
      /\ idom \in [Blocks(ir) -> Blocks(ir) \cup {NoBlock}]
      /\ frontier \in [Blocks(ir) -> SUBSET Blocks(ir)]
  /\ dpc \in {"idle", "dom", "idom", "frontier", "done"}
  /\ at \in 1 .. Len(ir.code) + 1
  /\ changed \in BOOLEAN
  /\ dpc = "idom" /\ at \notin Blocks(ir) => queue = << >>

(***************************************************************************)
(* The meaning of the analysis, by paths: a root is a block without        *)
(* predecessors (the entry, and the heads of unreachable code), and d      *)
(* dominates b when no path from a root reaches b without d.               *)
(***************************************************************************)
Roots == {b \in Blocks(ir) : ir.pre[b] = << >>}

Undominated(d) == ReachFrom(ir, Roots, {d})

\* create_dom leaves exactly the dominators in dom_, not merely a solution of
\* the equations: round-robin from full sets must reach the greatest one.
DomExact ==
  dpc \in {"idom", "frontier"} =>
    \A d \in Blocks(ir) : LET free == Undominated(d) IN
       \A b \in Blocks(ir) : d \in dom[b] <=> b \notin free

StrictDom(b) == dom[b] \ {b}

\* The backward search stops at the closest strict dominator, although it looks
\* at blocks in queue order and may run through loops and unreachable blocks.
IdomExact ==
  dpc = "frontier" =>
    \A b \in Blocks(ir) :
       IF StrictDom(b) = {} THEN idom[b] = NoBlock
       ELSE /\ idom[b] \in StrictDom(b)
            /\ \A d \in StrictDom(b) : d \in dom[idom[b]]

\* x dominates a predecessor of y but does not strictly dominate y
TextbookFrontier(x) ==
  {y \in Blocks(ir) : /\ \E p \in Preds(y) : x \in dom[p]
                      /\ x \notin StrictDom(y)}

\* The climb leaves the dominance frontier of every block, except that a loop
\* header is never put in its own frontier (the climb stops at the target itself).
FrontierExact ==
  (Analysed /\ dpc = "done") =>
    \A x \in Blocks(ir) : frontier[x] = TextbookFrontier(x) \ {x}

\* A dominator set only ever loses blocks: each round is a step down, so the
\* do-while of create_dom must end.
DomShrinks == [][Analysed => \A b \in Blocks(ir) : dom'[b] \subseteq dom[b]]_vars
=============================================================================
