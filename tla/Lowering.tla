------------------------------ MODULE Lowering ------------------------------
(***************************************************************************)
(* SysYBuilder walking the syntax tree of one function and emitting its    *)
(* control-flow graph.  The tree is not given in advance: each visit takes *)
(* any statement the grammar allows next, so the behaviours are the walks  *)
(* over every function body up to the bound MaxStmts.                      *)
(*                                                                         *)
(* The C++ call stack of the nested visit() calls is the variable frames:  *)
(* one record per statement being visited, with the blocks its visit()     *)
(* still has to use after the body returns.  A body is visited as an       *)
(* ASTBlock; a single statement as a body is a block of one statement.     *)
(***************************************************************************)
EXTENDS Ir, FiniteSetsExt

CONSTANTS
  Names,      \* names of scalar variables
  Params,     \* the names that are scalar parameters of the function
  Reads,      \* bound: the names that expressions read
  NoName,     \* an expression that reads no variable
  Conds,      \* shapes of conditions: the number of && operands of each || operand
  MaxStmts    \* bound on the statements of the function and the phis of its conditions

ASSUME NamesAssumption ==
  Params \subseteq Names /\ IsFiniteSet(Params) /\ Reads \subseteq Names /\ NoName \notin Names
ASSUME CondsAssumption == Conds \subseteq Seq(Nat \ {0}) /\ << >> \notin Conds
ASSUME MaxStmtsAssumption == MaxStmts \in Nat

VARIABLES
  ir,          \* the body under construction, with the builder's insert point
  breakBB,     \* break_BB: exit blocks of the enclosing loops
  continueBB,  \* continue_BB: condition blocks of the enclosing loops
  scope,       \* scope.inner: one map from names to allocas per open scope
  allocas,     \* number of allocas created
  frames,      \* pending visit() calls, innermost last
  stmts        \* statements visited so far, and phis of their conditions (bound)

vars == <<ir, breakBB, continueBB, scope, allocas, frames, stmts>>

-----------------------------------------------------------------------------
(***************************************************************************)
(* Scope: enter, exit, push and find.                                      *)
(***************************************************************************)
NoBindings == [n \in {} |-> 0]

Enter(s) == Append(s, NoBindings)
Exit(s)  == Front(s)

\* insert() keeps an existing binding of the same scope
Push(s, n, a) ==
  [s EXCEPT ![Len(s)] =
     [m \in DOMAIN @ \cup {n} |-> IF m \in DOMAIN @ THEN @[m] ELSE a]]

Visible(s) == UNION {DOMAIN s[i] : i \in DOMAIN s}

Find(s, n) == s[Max({i \in DOMAIN s : n \in DOMAIN s[i]})][n]

-----------------------------------------------------------------------------
(***************************************************************************)
(* Expressions.  The scalar expression e is a variable or NoName (any      *)
(* expression that reads no local).  Its value is the load just emitted or *)
(* a constant of its own.                                                  *)
(***************************************************************************)
Exprs(s) == (Visible(s) \cap Reads) \cup {NoName}

Eval(f, s, e) == IF e = NoName THEN f ELSE EmitLoad(f, Find(s, e))

ValueOf(f, e) == IF e = NoName THEN Const(f.ids + 1) ELSE Loaded(f.ids)

StartBlock(f) == SetInsert(NewBlock(f), LastBlock(f) + 1)

\* the last operand branches to cont_BB, where a phi joins the operands
Join(f, from, cont_BB) ==
  AddInstrBegin(SetInsert(Br(SetInsert(f, Last(from)), cont_BB), cont_BB), cont_BB, CondPhi(from))

(***************************************************************************)
(* A && chain of n operands, each reading e: operand i > 1 gets a block of *)
(* its own; every operand but the last branches on to the next one or to   *)
(* cont_BB.                                                                *)
(***************************************************************************)
AndOperands(f, s, e, n) ==
  LET operand(g, i) == Eval(StartBlock(g), s, e)
  IN  RunThrough(operand, Eval(f, s, e), [i \in 1 .. n - 1 |-> i])

JoinAnd(f, bb_vec, cont_BB) ==
  LET branch(g, i) == CondBr(SetInsert(g, bb_vec[i]), bb_vec[i + 1], cont_BB)
  IN  Join(RunThrough(branch, NewBlock(f), [i \in 1 .. Len(bb_vec) - 1 |-> i]), bb_vec, cont_BB)

LowerAnd(f, s, e, n) ==
  IF n = 1 THEN Eval(f, s, e)
  ELSE JoinAnd(AndOperands(f, s, e, n),
               [i \in 1 .. n |-> IF i = 1 THEN f.cur ELSE LastBlock(f) + i - 1],
               LastBlock(f) + n)

(***************************************************************************)
(* A || chain: operand i may itself span several blocks, so the block it   *)
(* starts in (the target of the previous branch) and the block it ends in  *)
(* (the source of its own branch and the phi's predecessor) are kept       *)
(* apart.                                                                  *)
(***************************************************************************)
Evaluated(acc, start, h) ==
  [body |-> h, start |-> Append(acc.start, start), end |-> Append(acc.end, h.cur)]

OrOperands(f, s, e, shape) ==
  LET operand(acc, i) == Evaluated(acc, IF i = 1 THEN f.cur ELSE LastBlock(acc.body) + 1,
                                   LowerAnd(IF i = 1 THEN f ELSE StartBlock(acc.body),
                                            s, e, shape[i]))
  IN  RunThrough(operand, [body |-> f, start |-> << >>, end |-> << >>],
                 [i \in DOMAIN shape |-> i])

\* mutant: the phi names the blocks the operands start in
JoinOrStarts(all, cont_BB) ==
  LET branch(g, i) == CondBr(SetInsert(g, all.end[i]), cont_BB, all.start[i + 1])
      branched == RunThrough(branch, NewBlock(all.body), [i \in 1 .. Len(all.end) - 1 |-> i])
  IN  AddInstrBegin(SetInsert(Br(SetInsert(branched, Last(all.end)), cont_BB), cont_BB),
                    cont_BB, CondPhi(all.start))

JoinOr(all, cont_BB) ==
  LET branch(g, i) == CondBr(SetInsert(g, all.end[i]), cont_BB, all.start[i + 1])
  IN  Join(RunThrough(branch, NewBlock(all.body), [i \in 1 .. Len(all.end) - 1 |-> i]),
           all.end, cont_BB)

LowerOr(f, s, e, shape) ==
  IF Len(shape) = 1 THEN LowerAnd(f, s, e, shape[1])
  ELSE LET all == OrOperands(f, s, e, shape) IN JoinOr(all, LastBlock(all.body) + 1)

-----------------------------------------------------------------------------
(***************************************************************************)
(* ASTFuncdef up to its body: the entry block, an alloca and a store for   *)
(* every parameter, and the scopes of the function and of its block.       *)
(***************************************************************************)
Init ==
  LET params == SetToSeq(Params)
      entry  == SetInsert(NewBlock(EmptyBody), Entry)
      store(f, i) == EmitStore(f, i, Const(f.ids + 1))
      bind(s, i)  == Push(s, params[i], i)
      all    == [i \in DOMAIN params |-> i]
  IN  /\ ir = RunThrough(store, entry, all)
      /\ scope = Enter(RunThrough(bind, <<NoBindings, NoBindings>>, all))
      /\ allocas = Len(params)
      /\ breakBB = << >>
      /\ continueBB = << >>
      /\ frames = <<[kind |-> "func"]>>
      /\ stmts = 0

\* ASTBlock visits its next statement: only while the insert block is open.  To
\* the bound a statement counts one, and one for every phi of its condition.
VisitCounting(n) ==
  /\ frames # << >>
  /\ ~Terminated(ir, ir.cur)
  /\ stmts + n <= MaxStmts
  /\ stmts' = stmts + n

VisitNext == VisitCounting(1)

VisitCond(c) ==
  VisitCounting(1 + Quantify(DOMAIN c, LAMBDA i : c[i] > 1) + (IF Len(c) > 1 THEN 1 ELSE 0))

\* a local scalar: the alloca, then a store of the initial value or of zero
Decl(n, e) ==
  /\ VisitNext
  /\ n \notin DOMAIN Last(scope)
  /\ LET g == Eval(ir, scope, e)
     IN  ir' = EmitStore(g, allocas + 1, ValueOf(g, e))
  /\ allocas' = allocas + 1
  /\ scope' = Push(scope, n, allocas + 1)
  /\ UNCHANGED <<breakBB, continueBB, frames>>

\* the value, then the left-hand side (ASTLval loads it as well), then the store
Assign(n, e) ==
  /\ VisitNext
  /\ LET g == Eval(ir, scope, e)
         h == EmitLoad(g, Find(scope, n))
     IN  ir' = EmitStore(h, Find(scope, n),
                         IF e = NoName THEN Const(h.ids + 1) ELSE Loaded(g.ids))
  /\ UNCHANGED <<breakBB, continueBB, scope, allocas, frames>>

Return(e) ==
  /\ VisitNext
  /\ ir' = Emit(Eval(ir, scope, e), Ret)
  /\ UNCHANGED <<breakBB, continueBB, scope, allocas, frames>>

Break ==
  /\ VisitNext
  /\ breakBB # << >>
  /\ ir' = Br(ir, Last(breakBB))
  /\ UNCHANGED <<breakBB, continueBB, scope, allocas, frames>>

Continue ==
  /\ VisitNext
  /\ continueBB # << >>
  /\ ir' = Br(ir, Last(continueBB))
  /\ UNCHANGED <<breakBB, continueBB, scope, allocas, frames>>

\* a block used as a statement (an empty one enters no scope in the code; here it
\* enters one and leaves it at once)
Block ==
  /\ VisitNext
  /\ scope' = Enter(scope)
  /\ frames' = Append(frames, [kind |-> "block"])
  /\ UNCHANGED <<ir, breakBB, continueBB, allocas>>

\* the condition, then trueBB, falseBB if there is an else, and contBB
If(c, e, hasElse) ==
  /\ VisitCond(c)
  /\ \E g \in {LowerOr(ir, scope, e, c)} :
     \E trueBB \in {LastBlock(g) + 1} :
     \E contBB \in {IF hasElse THEN trueBB + 2 ELSE trueBB + 1} :
       LET h == IF hasElse THEN NewBlock(NewBlock(NewBlock(g))) ELSE NewBlock(NewBlock(g))
       IN  /\ ir' = SetInsert(CondBr(h, trueBB, IF hasElse THEN trueBB + 1 ELSE contBB), trueBB)
           /\ frames' = Append(frames, [kind |-> "then", cont |-> contBB,
                                        else |-> IF hasElse THEN trueBB + 1 ELSE 0])
  /\ scope' = Enter(Enter(scope))
  /\ UNCHANGED <<breakBB, continueBB, allocas>>

\* exprBB, the condition in it, then trueBB and contBB
While(c, e) ==
  /\ VisitCond(c)
  /\ \E exprBB \in {LastBlock(ir) + 1} :
     \E g \in {LowerOr(SetInsert(Br(NewBlock(ir), exprBB), exprBB), scope, e, c)} :
     \E trueBB \in {LastBlock(g) + 1} :
     \E contBB \in {LastBlock(g) + 2} :
       /\ ir' = SetInsert(CondBr(NewBlock(NewBlock(g)), trueBB, contBB), trueBB)
       /\ breakBB' = Append(breakBB, contBB)
       /\ continueBB' = Append(continueBB, exprBB)
       /\ frames' = Append(frames, [kind |-> "loop", head |-> exprBB, cont |-> contBB])
  /\ scope' = Enter(Enter(scope))
  /\ UNCHANGED allocas

-----------------------------------------------------------------------------
(***************************************************************************)
(* The statement list of the innermost body ends, or the body was left     *)
(* early because its insert block is terminated: the rest of the enclosing *)
(* visit() runs.                                                           *)
(***************************************************************************)
Returning(kind) == frames # << >> /\ Last(frames).kind = kind

\* mutant: the check of is_terminated is missing
BrAlways(f, t) == Br(f, t)

\* a branch to t unless the arm already ended in a br or a ret
BrUnlessTerminated(f, t) == IF Terminated(f, f.cur) THEN f ELSE Br(f, t)

EndBlock ==
  /\ Returning("block")
  /\ scope' = Exit(scope)
  /\ frames' = Front(frames)
  /\ UNCHANGED <<ir, breakBB, continueBB, allocas, stmts>>

EndThen ==
  /\ Returning("then")
  /\ LET fr == Last(frames)
         g  == BrUnlessTerminated(ir, fr.cont)
     IN  IF fr.else = 0
         THEN /\ ir' = SetInsert(g, fr.cont)
              /\ scope' = Exit(Exit(scope))
              /\ frames' = Front(frames)
         ELSE /\ ir' = SetInsert(g, fr.else)
              /\ scope' = Enter(Enter(Exit(Exit(scope))))
              /\ frames' = Append(Front(frames), [kind |-> "else", cont |-> fr.cont])
  /\ UNCHANGED <<breakBB, continueBB, allocas, stmts>>

EndElse ==
  /\ Returning("else")
  /\ ir' = SetInsert(BrUnlessTerminated(ir, Last(frames).cont), Last(frames).cont)
  /\ scope' = Exit(Exit(scope))
  /\ frames' = Front(frames)
  /\ UNCHANGED <<breakBB, continueBB, allocas, stmts>>

\* mutants: continue_BB is not popped; no scope is left; the body branches back
\* to its own first block
EndLoopKeepsContinue ==
  /\ Returning("loop")
  /\ ir' = SetInsert(BrUnlessTerminated(ir, Last(frames).head), Last(frames).cont)
  /\ breakBB' = Front(breakBB)
  /\ scope' = Exit(Exit(scope))
  /\ frames' = Front(frames)
  /\ UNCHANGED <<continueBB, allocas, stmts>>

EndLoopKeepsScope ==
  /\ Returning("loop")
  /\ ir' = SetInsert(BrUnlessTerminated(ir, Last(frames).head), Last(frames).cont)
  /\ breakBB' = Front(breakBB)
  /\ continueBB' = Front(continueBB)
  /\ scope' = Exit(scope)
  /\ frames' = Front(frames)
  /\ UNCHANGED <<allocas, stmts>>

EndLoopToBody ==
  /\ Returning("loop")
  /\ ir' = SetInsert(BrUnlessTerminated(ir, Last(frames).cont - 1), Last(frames).cont)
  /\ breakBB' = Front(breakBB)
  /\ continueBB' = Front(continueBB)
  /\ scope' = Exit(Exit(scope))
  /\ frames' = Front(frames)
  /\ UNCHANGED <<allocas, stmts>>

EndLoop ==
  /\ Returning("loop")
  /\ ir' = SetInsert(BrUnlessTerminated(ir, Last(frames).head), Last(frames).cont)
  /\ breakBB' = Front(breakBB)
  /\ continueBB' = Front(continueBB)
  /\ scope' = Exit(Exit(scope))
  /\ frames' = Front(frames)
  /\ UNCHANGED <<allocas, stmts>>

\* mutant: no implicit return
EndFuncNoRet ==
  /\ Returning("func")
  /\ scope' = Exit(Exit(scope))
  /\ frames' = << >>
  /\ UNCHANGED <<ir, breakBB, continueBB, allocas, stmts>>

\* ASTFuncdef after its body: the implicit return
EndFunc ==
  /\ Returning("func")
  /\ ir' = IF Terminated(ir, ir.cur) THEN ir ELSE Emit(ir, Ret)
  /\ scope' = Exit(Exit(scope))
  /\ frames' = << >>
  /\ UNCHANGED <<breakBB, continueBB, allocas, stmts>>

-----------------------------------------------------------------------------
Done == frames = << >>

Visit ==
  \/ \E n \in Names, e \in Exprs(scope) : Decl(n, e)
  \/ \E n \in Visible(scope), e \in Exprs(scope) : Assign(n, e)
  \/ \E e \in Exprs(scope) : Return(e)
  \/ Break
  \/ Continue
  \/ Block
  \/ \E c \in Conds, e \in Exprs(scope), hasElse \in BOOLEAN : If(c, e, hasElse)
  \/ \E c \in Conds, e \in Exprs(scope) : While(c, e)
  \/ EndBlock
  \/ EndThen
  \/ EndElse
  \/ EndLoop
  \/ EndFunc

Terminating == Done /\ UNCHANGED vars

Next == Visit \/ Terminating

Spec == Init /\ [][Next]_vars

-----------------------------------------------------------------------------
(***************************************************************************)
(* Properties.                                                             *)
(***************************************************************************)
\* No visit() ever appends to a block that already ends in a br or a ret:
\* the assertion in BasicBlock::add_instruction never stops the front end.
NoInsertAfterTerminator == ~ir.aborted

\* The pre and succ lists are two views of one edge set without duplicates,
\* a block has successors only through its final branch, and nothing branches
\* to the entry block.  The CFG analyses take all four for granted.
EdgesMirror ==
  /\ \A b, t \in Blocks(ir) : Contains(ir.succ[b], t) <=> Contains(ir.pre[t], b)
  /\ \A b \in Blocks(ir) : IsInjective(ir.succ[b]) /\ IsInjective(ir.pre[b])
  /\ \A b \in Blocks(ir) : ir.succ[b] # << >> => Last(ir.code[b]).op = "br"
  /\ ir.pre[Entry] = << >>

\* How many of the first n frames are statements of these kinds.
Pending(fs, n, kinds) == Cardinality({i \in 1 .. n : fs[i].kind \in kinds})

\* However a body was left (return, break, falling through), the loop stacks
\* and the scopes are those of the statements still being visited.
StacksFollowFrames ==
  LET n       == Len(frames)
      loop(i) == Pending(frames, i, {"loop"})
  IN  /\ Len(breakBB) = loop(n) /\ Len(continueBB) = loop(n)
      /\ \A i \in 1 .. n : frames[i].kind = "loop" =>
           breakBB[loop(i)] = frames[i].cont /\ continueBB[loop(i)] = frames[i].head
      /\ Len(scope) = IF Done THEN 1
                      ELSE 3 + Pending(frames, n, {"block"})
                             + 2 * Pending(frames, n, {"then", "else", "loop"})

\* Every phi of a condition has exactly one pair per predecessor of its block,
\* also when an operand of || was itself spread over several blocks.
CondPhisMatchPreds ==
  Done => \A b \in Blocks(ir) : \A i \in DOMAIN ir.code[b] :
            ir.code[b][i].op = "phi" =>
              /\ ToSet(ir.code[b][i].from) = ToSet(ir.pre[b])
              /\ Len(ir.code[b][i].from) = Len(ir.pre[b])

\* In the finished function every block, also one nothing branches to, ends in
\* a terminator, and the blocks nothing reaches hang off blocks without
\* predecessors (create_dom gives every other block a predecessor to read).
AllBlocksEnd ==
  Done => /\ \A b \in Blocks(ir) : Terminated(ir, b)
          /\ ReachFrom(ir, {b \in Blocks(ir) : ir.pre[b] = << >>}, {}) = Blocks(ir)

StoresTo(b, a) == \E i \in DOMAIN ir.code[b] : ir.code[b][i].op = "store" /\ ir.code[b][i].var = a

\* the edges p -> h of the reachable graph whose target dominates their source
BackEdges(f) ==
  LET reach == Reachable(f)
  IN  UNION {LET without == ReachFrom(f, {Entry}, {h})
             IN  {<<p, h>> : p \in {p \in ToSet(f.pre[h]) : p \in reach \ without}} : h \in reach}

\* A loop header contains no store: only condition blocks are loop headers, and
\* conditions assign nothing.  Dominators leaves a header out of its own
\* frontier, so a variable stored in a header would miss its phi there.
HeaderHasNoStore ==
  Done => \A e \in BackEdges(ir) : \A a \in 1 .. allocas : ~StoresTo(e[2], a)

\* Without its back edges the reachable graph has no cycle left: every loop is
\* entered through its header only, which is what the loop passes assume.
\* (Blocks are peeled off once everything that leads to them is.)
Reducible ==
  Done =>
    LET back  == BackEdges(ir)
        reach == Reachable(ir)
        Peel[X \in SUBSET reach] ==
          LET free == {b \in X : \A p \in ToSet(ir.pre[b]) \cap X : <<p, b>> \in back}
          IN  IF free = {} THEN X ELSE Peel[X \ free]
    IN  Peel[reach] = {}
=============================================================================
