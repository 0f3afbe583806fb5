--------------------------- MODULE LoweringProofs ---------------------------
(***************************************************************************)
(* Proofs about Lowering, for any variables, parameters, shapes of         *)
(* conditions and number of statements: the front end never inserts into   *)
(* a terminated block, the edge lists mirror each other, the phis of       *)
(* conditions have one pair per predecessor, the loop stacks and scopes    *)
(* follow the pending visits, and every block of a finished function ends  *)
(* in a terminator and hangs off a block without predecessors.             *)
(*                                                                         *)
(* The proof goes bottom up.  A body keeps five facts (Body) under every   *)
(* builder call; expressions and conditions lead from a body with one open *)
(* insert block to another one (Lowered), by an induction over the         *)
(* operands of && and || which the run rule of IterateProofs gives; and the     *)
(* pending visits own the other open blocks, each of them one or two that  *)
(* nobody else will continue in (Framed).  The last is what a test of the  *)
(* generated code would hardly show: a visit that returned to the wrong    *)
(* block would branch twice from one block or leave another one open.      *)
(***************************************************************************)
EXTENDS Lowering, FiniteSetTheorems, TLAPS

-----------------------------------------------------------------------------
(***************************************************************************)
(* Bodies.  Shape is the type of a body nothing was refused on; Edges says *)
(* that pre and succ are two views of one set of edges, none of which      *)
(* leaves an open block or enters the entry block; Phis that a phi names   *)
(* the predecessors of its block in order; Rooted that every block is      *)
(* below a block without predecessors; LoadsOnce what Mem2Reg needs of the *)
(* loads it replaces.                                                      *)
(***************************************************************************)
\* bodies whose instructions are in S: Emit was never refused
Bodies(S) ==
  [succ : Seq(Seq(Nat)), pre : Seq(Seq(Nat)), code : Seq(Seq(S)),
   cur : Nat, ids : Nat, aborted : {FALSE}]

Shape(f) ==
  /\ \E S : f \in Bodies(S)
  /\ Len(f.succ) = LastBlock(f) /\ Len(f.pre) = LastBlock(f)
  /\ f.cur \in Blocks(f)

Edges(f) ==
  /\ \A b, t \in Blocks(f) : t \in ToSet(f.succ[b]) <=> b \in ToSet(f.pre[t])
  /\ \A b \in Blocks(f) : /\ ToSet(f.succ[b]) \subseteq Blocks(f) \ {b}
                          /\ ToSet(f.pre[b]) \subseteq Blocks(f)
                          /\ IsInjective(f.succ[b]) /\ IsInjective(f.pre[b])
  /\ \A b \in Blocks(f) : f.succ[b] # << >> => f.code[b] # << >> /\ Last(f.code[b]).op = "br"
  /\ f.pre[Entry] = << >>

IsPhi(instr) == instr.op = "phi"

Phis(f) ==
  \A b \in Blocks(f) : \A i \in DOMAIN f.code[b] :
    IsPhi(f.code[b][i]) => f.code[b][i].from = f.pre[b]

\* the blocks that lie on a path from a block without predecessors
Rooted(f) ==
  \A X \in SUBSET Blocks(f) :
    /\ \A b \in Blocks(f) : f.pre[b] = << >> => b \in X
    /\ \A b \in X : ToSet(f.succ[b]) \subseteq X
    => X = Blocks(f)

\* the value v is a load that stands before place k of the code, or no load
Follows(code, k, v) ==
  v[1] = "load" => \E j \in DOMAIN code : j < k /\ code[j].op = "load" /\ code[j].id = v[2]

\* loads have numbers of their own, and a loaded value is stored in the block of its load
LoadsOnce(f) ==
  /\ \A b \in Blocks(f) : \A k \in DOMAIN f.code[b] :
       /\ f.code[b][k].op = "load" => f.code[b][k].id \in 1 .. f.ids
       /\ f.code[b][k].op = "store" => Follows(f.code[b], k, f.code[b][k].val)
  /\ \A b, c \in Blocks(f) : \A k \in DOMAIN f.code[b], j \in DOMAIN f.code[c] :
       f.code[b][k].op = "load" /\ f.code[c][j].op = "load" /\ f.code[b][k].id = f.code[c][j].id
         => b = c /\ k = j

Graph(f) == Shape(f) /\ Edges(f) /\ Phis(f) /\ Rooted(f)

Body(f) == Shape(f) /\ Edges(f) /\ Phis(f) /\ Rooted(f) /\ LoadsOnce(f)

\* the blocks that still lack a terminator
Open(f) == {b \in Blocks(f) : ~Terminated(f, b)}

\* the block holds no phi
Plain(f, b) == \A i \in DOMAIN f.code[b] : ~IsPhi(f.code[b][i])

-----------------------------------------------------------------------------
\* What Append returns.
LEMMA SeqAppend ==
  ASSUME NEW S, NEW s \in Seq(S), NEW x
  PROVE  LET r == Append(s, x)
         IN  /\ \E T : r \in Seq(T)
             /\ Len(r) = Len(s) + 1 /\ DOMAIN r = 1 .. Len(s) + 1
             /\ r # << >> /\ Last(r) = x /\ r[Len(s) + 1] = x
             /\ \A i \in 1 .. Len(s) : r[i] = s[i]
             /\ ToSet(r) = ToSet(s) \cup {x}
<1> DEFINE r == Append(s, x)
<1>1. s \in Seq(S \cup {x}) /\ x \in S \cup {x}
  OBVIOUS
<1>2. /\ r \in Seq(S \cup {x}) /\ Len(r) = Len(s) + 1 /\ DOMAIN r = 1 .. Len(s) + 1
      /\ \A i \in 1 .. Len(s) + 1 : r[i] = IF i = Len(s) + 1 THEN x ELSE s[i]
  BY <1>1
<1>3. DOMAIN s = 1 .. Len(s) /\ Len(s) \in Nat
  OBVIOUS
<1>4. ToSet(r) = ToSet(s) \cup {x}
  <2> HIDE DEF r
  <2> QED
    BY <1>2, <1>3 DEF ToSet
<1> QED
  BY <1>2, <1>3, <1>4 DEF Last

\* The blocks are numbered, and every block has its two edge lists.
LEMMA BlocksAre ==
  ASSUME NEW f, Shape(f)
  PROVE  /\ LastBlock(f) \in Nat /\ Blocks(f) = 1 .. LastBlock(f)
         /\ DOMAIN f.code = 1 .. LastBlock(f)
         /\ f.succ \in Seq(Seq(Nat)) /\ f.succ \in [Blocks(f) -> Seq(Nat)]
         /\ f.pre \in Seq(Seq(Nat)) /\ f.pre \in [Blocks(f) -> Seq(Nat)]
         /\ f.cur \in Blocks(f)
<1>1. PICK S : f \in Bodies(S)
  BY DEF Shape
<1>2. /\ f.succ \in Seq(Seq(Nat)) /\ f.pre \in Seq(Seq(Nat)) /\ f.code \in Seq(Seq(S))
  BY <1>1 DEF Bodies
<1>3. LastBlock(f) \in Nat /\ DOMAIN f.code = 1 .. LastBlock(f)
  BY <1>2 DEF LastBlock
<1>4. \A s \in Seq(Seq(Nat)) : s \in [1 .. Len(s) -> Seq(Nat)]
  OBVIOUS
<1> QED
  BY <1>2, <1>3, <1>4 DEF Shape, Blocks

\* Emit on an open block appends the instruction and does nothing else.
LEMMA EmitIs ==
  ASSUME NEW f, Shape(f), f.cur \in Open(f), NEW instr
  PROVE  LET g == Emit(f, instr)
         IN  /\ Shape(g)
             /\ g.succ = f.succ /\ g.pre = f.pre /\ g.cur = f.cur
             /\ LastBlock(g) = LastBlock(f) /\ Blocks(g) = Blocks(f)
             /\ g.code = [f.code EXCEPT ![f.cur] = Append(@, instr)]
<1> DEFINE g == [f EXCEPT !.code[f.cur] = Append(@, instr)]
           c == [f.code EXCEPT ![f.cur] = Append(@, instr)]
<1>1. Emit(f, instr) = g
  BY DEF Emit, Open
<1>2. PICK S : f \in Bodies(S)
  BY DEF Shape
<1>3. LastBlock(f) \in Nat /\ DOMAIN f.code = 1 .. LastBlock(f) /\ f.cur \in 1 .. LastBlock(f)
  BY BlocksAre
<1>4. f.code \in Seq(Seq(S))
  BY <1>2 DEF Bodies
<1>5. \A b \in 1 .. LastBlock(f) : f.code[b] \in Seq(S) /\ f.code[b] \in Seq(S \cup {instr})
  BY <1>3, <1>4 DEF LastBlock
<1>6. Append(f.code[f.cur], instr) \in Seq(S \cup {instr})
  BY <1>3, <1>5
<1>7. c \in [1 .. LastBlock(f) -> Seq(S \cup {instr})]
  BY <1>3, <1>5, <1>6
<1>8. c \in Seq(Seq(S \cup {instr})) /\ Len(c) = LastBlock(f) /\ DOMAIN c = 1 .. LastBlock(f)
  <2> HIDE DEF c
  <2> QED
    BY <1>3, <1>7
<1>9. /\ g \in Bodies(S \cup {instr}) /\ g.code = c
      /\ g.succ = f.succ /\ g.pre = f.pre /\ g.cur = f.cur
  BY <1>2, <1>8 DEF Bodies
<1> QED
  <2> HIDE DEF c, g
  <2>1. Shape(g)
    BY <1>8, <1>9, <1>3 DEF Shape, LastBlock, Blocks
  <2> QED
    BY <1>1, <1>3, <1>8, <1>9, <2>1 DEF LastBlock, Blocks, c

-----------------------------------------------------------------------------
(***************************************************************************)
(* The builder calls that add no edge.                                     *)
(***************************************************************************)
\* The code of a block is a sequence.
LEMMA CodeSeq ==
  ASSUME NEW f, Shape(f), NEW b \in Blocks(f)
  PROVE  /\ \E S : f.code[b] \in Seq(S)
         /\ DOMAIN f.code[b] = 1 .. Len(f.code[b]) /\ Len(f.code[b]) \in Nat
<1>1. PICK S : f \in Bodies(S)
  BY DEF Shape
<1>2. f.code \in Seq(Seq(S))
  BY <1>1 DEF Bodies
<1>3. f.code[b] \in Seq(S)
  BY <1>2, BlocksAre DEF LastBlock
<1> QED
  BY <1>3

\* No edge leaves an open block.
LEMMA OpenEdges ==
  ASSUME NEW f, Body(f), NEW b \in Open(f)
  PROVE  b \in Blocks(f) /\ f.succ[b] = << >> /\ \A t \in Blocks(f) : b \notin ToSet(f.pre[t])
<1>1. b \in Blocks(f) /\ f.succ[b] = << >>
  BY DEF Open, Terminated, Body, Edges
<1>2. ToSet(f.succ[b]) = {}
  BY <1>1 DEF ToSet
<1> QED
  BY <1>1, <1>2 DEF Body, Edges

\* One instruction more leaves every load with a number of its own.
LEMMA AppendLoadsOnce ==
  ASSUME NEW f, Shape(f), LoadsOnce(f), NEW instr, NEW g,
         g.code = [f.code EXCEPT ![f.cur] = Append(@, instr)],
         g.ids \in Nat, f.ids <= g.ids, f.ids \in Nat,
         instr.op = "load" => instr.id = f.ids + 1 /\ g.ids = f.ids + 1,
         instr.op = "store" => Follows(f.code[f.cur], Len(f.code[f.cur]) + 1, instr.val)
  PROVE  LoadsOnce(g)
<1> DEFINE c == f.cur
           n == Len(f.code[c])
<1>1. c \in Blocks(f) /\ DOMAIN f.code = Blocks(f) /\ Blocks(g) = Blocks(f)
  BY BlocksAre DEF Blocks
<1>2. /\ n \in Nat /\ DOMAIN f.code[c] = 1 .. n /\ DOMAIN g.code[c] = 1 .. n + 1
      /\ g.code[c][n + 1] = instr
      /\ \A i \in 1 .. n : g.code[c][i] = f.code[c][i]
  <2>1. PICK S : f.code[c] \in Seq(S)
    BY <1>1, CodeSeq
  <2>2. g.code[c] = Append(f.code[c], instr)
    BY <1>1
  <2> QED
    BY <1>1, <2>1, <2>2, SeqAppend, CodeSeq
<1>3. \A b \in Blocks(f) : b # c => g.code[b] = f.code[b]
  BY <1>1
<1>4. \A b \in Blocks(f) : \A k \in DOMAIN g.code[b] :
        \/ k \in DOMAIN f.code[b] /\ g.code[b][k] = f.code[b][k]
        \/ b = c /\ k = n + 1 /\ g.code[b][k] = instr
  <2>1. \A k \in DOMAIN g.code[c] : k \in 1 .. n \/ k = n + 1
    BY <1>2
  <2> QED
    BY <1>2, <1>3, <2>1
<1>5. \A b \in Blocks(f) : \A k \in DOMAIN f.code[b] :
        k \in DOMAIN g.code[b] /\ g.code[b][k] = f.code[b][k]
  <2>1. \A k \in 1 .. n : k \in 1 .. n + 1
    BY <1>2
  <2> QED
    BY <1>2, <1>3, <2>1
<1>6. \A b \in Blocks(f) : \A k \in DOMAIN f.code[b] :
        f.code[b][k].op = "load" => /\ f.code[b][k].id \in 1 .. g.ids
                                    /\ f.code[b][k].id # f.ids + 1
  <2>1. \A x \in 1 .. f.ids : x \in 1 .. g.ids /\ x # f.ids + 1
    OBVIOUS
  <2> QED
    BY <2>1 DEF LoadsOnce
<1>7. instr.op = "load" => instr.id \in 1 .. g.ids
  OBVIOUS
<1>8. ASSUME NEW b \in Blocks(f), NEW k \in DOMAIN g.code[b]
      PROVE  /\ g.code[b][k].op = "load" => g.code[b][k].id \in 1 .. g.ids
             /\ g.code[b][k].op = "store" => Follows(g.code[b], k, g.code[b][k].val)
  <2>1. CASE k \in DOMAIN f.code[b] /\ g.code[b][k] = f.code[b][k]
    <3>1. g.code[b][k].op = "store" => Follows(f.code[b], k, g.code[b][k].val)
      BY <2>1 DEF LoadsOnce
    <3> QED
      BY <1>5, <1>6, <2>1, <3>1 DEF Follows
  <2>2. CASE b = c /\ k = n + 1 /\ g.code[b][k] = instr
    <3>1. instr.op = "store" => Follows(f.code[c], n + 1, instr.val)
      OBVIOUS
    <3>2. \A v : Follows(f.code[c], n + 1, v) => Follows(g.code[c], n + 1, v)
      <4>1. \A j \in DOMAIN f.code[c] : j \in DOMAIN g.code[c] /\ g.code[c][j] = f.code[c][j]
        BY <1>1, <1>5
      <4> QED
        BY <4>1 DEF Follows
    <3> QED
      BY <1>7, <2>2, <3>1, <3>2
  <2> QED
    BY <1>4, <2>1, <2>2
<1>9. ASSUME NEW b \in Blocks(f), NEW d \in Blocks(f),
             NEW k \in DOMAIN g.code[b], NEW j \in DOMAIN g.code[d],
             g.code[b][k].op = "load", g.code[d][j].op = "load",
             g.code[b][k].id = g.code[d][j].id
      PROVE  b = d /\ k = j
  <2>1. CASE /\ k \in DOMAIN f.code[b] /\ g.code[b][k] = f.code[b][k]
             /\ j \in DOMAIN f.code[d] /\ g.code[d][j] = f.code[d][j]
    BY <1>9, <2>1 DEF LoadsOnce
  <2>2. CASE b = c /\ k = n + 1 /\ d = c /\ j = n + 1
    BY <2>2
  <2>3. CASE k \in DOMAIN f.code[b] /\ g.code[b][k] = f.code[b][k] /\ g.code[d][j] = instr
    BY <1>6, <1>9, <2>3
  <2>4. CASE j \in DOMAIN f.code[d] /\ g.code[d][j] = f.code[d][j] /\ g.code[b][k] = instr
    BY <1>6, <1>9, <2>4
  <2> QED
    BY <1>4, <2>1, <2>2, <2>3, <2>4
<1>10. \A b \in Blocks(g) : \A k \in DOMAIN g.code[b] :
         /\ g.code[b][k].op = "load" => g.code[b][k].id \in 1 .. g.ids
         /\ g.code[b][k].op = "store" => Follows(g.code[b], k, g.code[b][k].val)
  BY <1>1, <1>8
<1>11. \A b, d \in Blocks(g) : \A k \in DOMAIN g.code[b], j \in DOMAIN g.code[d] :
         g.code[b][k].op = "load" /\ g.code[d][j].op = "load" /\ g.code[b][k].id = g.code[d][j].id
         => b = d /\ k = j
  BY <1>1, <1>9
<1> QED
  BY <1>10, <1>11 DEF LoadsOnce

\* The graph of a body stays as it is when an instruction other than a phi is emitted.
LEMMA EmitKeeps ==
  ASSUME NEW f, Body(f), f.cur \in Open(f), NEW instr, ~IsPhi(instr)
  PROVE  LET g == Emit(f, instr)
         IN  /\ Graph(g)
             /\ instr.op \notin {"load", "store"} => Body(g)
             /\ g.code = [f.code EXCEPT ![f.cur] = Append(@, instr)] /\ g.ids = f.ids
             /\ g.succ = f.succ /\ g.pre = f.pre /\ g.cur = f.cur
             /\ LastBlock(g) = LastBlock(f) /\ Blocks(g) = Blocks(f)
             /\ Open(g) = IF instr.op \in {"br", "ret"} THEN Open(f) \ {f.cur} ELSE Open(f)
             /\ g.code[f.cur] # << >> /\ Last(g.code[f.cur]) = instr
             /\ \A b \in Blocks(f) : Plain(g, b) <=> Plain(f, b)
<1> DEFINE c == f.cur
<1>1. PICK g : g = Emit(f, instr)
  OBVIOUS
<1>2. /\ Shape(f) /\ Shape(g)
      /\ g.succ = f.succ /\ g.pre = f.pre /\ g.cur = f.cur
      /\ LastBlock(g) = LastBlock(f) /\ Blocks(g) = Blocks(f)
      /\ g.code = [f.code EXCEPT ![c] = Append(@, instr)]
  BY <1>1, EmitIs DEF Body
<1>3. c \in Blocks(f) /\ DOMAIN f.code = Blocks(f) /\ f.succ[c] = << >>
  BY <1>2, BlocksAre, OpenEdges
<1>4. /\ g.code[c] # << >> /\ Last(g.code[c]) = instr
      /\ DOMAIN g.code[c] = 1 .. Len(f.code[c]) + 1
      /\ g.code[c][Len(f.code[c]) + 1] = instr
      /\ \A i \in 1 .. Len(f.code[c]) : g.code[c][i] = f.code[c][i]
  <2>1. PICK S : f.code[c] \in Seq(S)
    BY <1>2, <1>3, CodeSeq
  <2>2. g.code[c] = Append(f.code[c], instr)
    BY <1>2, <1>3
  <2> QED
    BY <2>1, <2>2, SeqAppend
<1>5. \A b \in Blocks(f) : b # c => g.code[b] = f.code[b]
  BY <1>2, <1>3
<1>6. /\ DOMAIN f.code[c] = 1 .. Len(f.code[c]) /\ Len(f.code[c]) \in Nat
      /\ \A i \in 1 .. Len(f.code[c]) + 1 : i \in 1 .. Len(f.code[c]) \/ i = Len(f.code[c]) + 1
  BY <1>2, <1>3, CodeSeq
<1>7. Open(g) = IF instr.op \in {"br", "ret"} THEN Open(f) \ {f.cur} ELSE Open(f)
  BY <1>2, <1>4, <1>5 DEF Open, Terminated
<1>8. Edges(g)
  BY <1>2, <1>3, <1>4, <1>5 DEF Body, Edges
<1>9. Phis(g)
  <2>1. ASSUME NEW b \in Blocks(f), NEW i \in DOMAIN g.code[b], IsPhi(g.code[b][i])
        PROVE  i \in DOMAIN f.code[b] /\ g.code[b][i] = f.code[b][i]
    BY <1>4, <1>5, <1>6, <2>1
  <2> QED
    BY <1>2, <2>1 DEF Phis, Body
<1>10. Rooted(g)
  BY <1>2 DEF Rooted, Body
<1>11. \A b \in Blocks(f) : Plain(g, b) <=> Plain(f, b)
  <2>1. Plain(g, c) <=> Plain(f, c)
    <3>1. \A i \in DOMAIN g.code[c] : i \in DOMAIN f.code[c] \/ ~IsPhi(g.code[c][i])
      BY <1>4, <1>6
    <3>2. \A i \in DOMAIN f.code[c] : i \in DOMAIN g.code[c] /\ g.code[c][i] = f.code[c][i]
      BY <1>4, <1>6
    <3> QED
      BY <3>1, <3>2 DEF Plain
  <2> QED
    BY <1>5, <2>1 DEF Plain
<1>12. g.ids = f.ids /\ f.ids \in Nat
  <2>1. g = [f EXCEPT !.code[f.cur] = Append(@, instr)]
    BY <1>1 DEF Emit, Open
  <2>2. PICK S : f \in Bodies(S)
    BY <1>2 DEF Shape
  <2> QED
    BY <2>1, <2>2 DEF Bodies
<1>13. ASSUME instr.op \notin {"load", "store"} PROVE LoadsOnce(g)
  <2>1. g.code = [f.code EXCEPT ![f.cur] = Append(@, instr)] /\ f.ids <= g.ids
    BY <1>2, <1>12
  <2>2. LoadsOnce(f)
    BY DEF Body
  <2> QED
    BY <1>2, <1>12, <1>13, <2>1, <2>2, AppendLoadsOnce
<1> QED
  BY <1>1, <1>2, <1>4, <1>7, <1>8, <1>9, <1>10, <1>11, <1>12, <1>13 DEF Body, Graph

\* So do empty blocks, and a body with the same code.
LEMMA SameLoadsOnce ==
  ASSUME NEW f, LoadsOnce(f), NEW g, g.ids = f.ids, Blocks(f) \subseteq Blocks(g),
         \A b \in Blocks(f) : g.code[b] = f.code[b],
         \A b \in Blocks(g) \ Blocks(f) : g.code[b] = << >>
  PROVE  LoadsOnce(g)
<1>1. \A b \in Blocks(g) : \A k \in DOMAIN g.code[b] :
        b \in Blocks(f) /\ k \in DOMAIN f.code[b] /\ g.code[b] = f.code[b]
  <2>1. DOMAIN << >> = {}
    OBVIOUS
  <2> QED
    BY <2>1
<1> QED
  BY <1>1 DEF LoadsOnce

\* A new block has no edges, so it is a root, and it is open.
LEMMA NewBlockKeeps ==
  ASSUME NEW f, Body(f)
  PROVE  LET g == NewBlock(f)
             n == LastBlock(f) + 1
         IN  /\ Body(g)
             /\ g.cur = f.cur /\ LastBlock(g) = n /\ Blocks(g) = Blocks(f) \cup {n}
             /\ n \notin Blocks(f)
             /\ g.succ[n] = << >> /\ g.pre[n] = << >>
             /\ \A b \in Blocks(f) : g.succ[b] = f.succ[b] /\ g.pre[b] = f.pre[b]
             /\ Open(g) = Open(f) \cup {n}
             /\ Plain(g, n)
             /\ \A b \in Blocks(f) : Plain(g, b) <=> Plain(f, b)
<1>1. PICK g : g = NewBlock(f)
  OBVIOUS
<1>n. PICK n : n = LastBlock(f) + 1
  OBVIOUS
<1>0. Shape(f)
  BY DEF Body
<1>2. PICK S : f \in Bodies(S)
  BY <1>0 DEF Shape
<1>3. /\ g = [f EXCEPT !.succ = Append(f.succ, << >>), !.pre = Append(f.pre, << >>),
                       !.code = Append(f.code, << >>)]
  BY <1>1 DEF NewBlock
<1>4. /\ f.succ \in Seq(Seq(Nat)) /\ f.pre \in Seq(Seq(Nat)) /\ f.code \in Seq(Seq(S))
      /\ Append(f.succ, << >>) \in Seq(Seq(Nat)) /\ Append(f.pre, << >>) \in Seq(Seq(Nat))
      /\ Append(f.code, << >>) \in Seq(Seq(S))
  BY <1>2 DEF Bodies
<1>5. /\ g \in Bodies(S) /\ g.cur = f.cur
      /\ g.succ = Append(f.succ, << >>) /\ g.pre = Append(f.pre, << >>)
      /\ g.code = Append(f.code, << >>)
  BY <1>2, <1>3, <1>4 DEF Bodies
<1>6. /\ LastBlock(f) \in Nat /\ Blocks(f) = 1 .. LastBlock(f) /\ f.cur \in Blocks(f)
      /\ Len(f.succ) = LastBlock(f) /\ Len(f.pre) = LastBlock(f) /\ Len(f.code) = LastBlock(f)
  BY <1>0, BlocksAre DEF Shape, LastBlock
<1>7. /\ LastBlock(g) = n /\ Len(g.succ) = n /\ Len(g.pre) = n /\ Blocks(g) = 1 .. n
      /\ g.succ[n] = << >> /\ g.pre[n] = << >> /\ g.code[n] = << >>
      /\ \A b \in Blocks(f) :
           g.succ[b] = f.succ[b] /\ g.pre[b] = f.pre[b] /\ g.code[b] = f.code[b]
  BY <1>4, <1>5, <1>6, <1>n DEF LastBlock, Blocks
<1>8. Blocks(g) = Blocks(f) \cup {n} /\ n \notin Blocks(f) /\ Entry \in Blocks(f)
  BY <1>6, <1>7, <1>n DEF Entry
<1>9. Shape(g)
  BY <1>5, <1>6, <1>7, <1>8 DEF Shape
<1>10. Open(g) = Open(f) \cup {n}
  BY <1>7, <1>8 DEF Open, Terminated
<1>11. Edges(g)
  <2>1. ToSet(g.succ[n]) = {} /\ ToSet(g.pre[n]) = {} /\ IsInjective(g.succ[n]) /\ IsInjective(g.pre[n])
    BY <1>7 DEF ToSet, IsInjective
  <2>2. \A b \in Blocks(f) : /\ ToSet(f.succ[b]) \subseteq Blocks(f) \ {b}
                             /\ ToSet(f.pre[b]) \subseteq Blocks(f)
                             /\ IsInjective(f.succ[b]) /\ IsInjective(f.pre[b])
    BY DEF Body, Edges
  <2>3. \A b, t \in Blocks(g) : t \in ToSet(g.succ[b]) <=> b \in ToSet(g.pre[t])
    BY <1>7, <1>8, <2>1, <2>2 DEF Body, Edges
  <2>4. \A b \in Blocks(g) : /\ ToSet(g.succ[b]) \subseteq Blocks(g) \ {b}
                             /\ ToSet(g.pre[b]) \subseteq Blocks(g)
                             /\ IsInjective(g.succ[b]) /\ IsInjective(g.pre[b])
    BY <1>7, <1>8, <2>1, <2>2
  <2>5. \A b \in Blocks(g) : g.succ[b] # << >> => g.code[b] # << >> /\ Last(g.code[b]).op = "br"
    BY <1>7, <1>8 DEF Body, Edges
  <2>6. g.pre[Entry] = << >>
    BY <1>7, <1>8 DEF Body, Edges
  <2> QED
    BY <2>3, <2>4, <2>5, <2>6 DEF Edges
<1>12. Phis(g) /\ Plain(g, n) /\ \A b \in Blocks(f) : Plain(g, b) <=> Plain(f, b)
  BY <1>7, <1>8 DEF Body, Phis, Plain
<1>13. Rooted(g)
  <2>1. ASSUME NEW X \in SUBSET Blocks(g),
               \A b \in Blocks(g) : g.pre[b] = << >> => b \in X,
               \A b \in X : ToSet(g.succ[b]) \subseteq X
        PROVE  X = Blocks(g)
    <3>1. X \ {n} \in SUBSET Blocks(f) /\ n \in X
      BY <1>7, <1>8, <2>1
    <3>2. \A b \in Blocks(f) : f.pre[b] = << >> => b \in X \ {n}
      BY <1>7, <1>8, <2>1
    <3>3. \A b \in X \ {n} : ToSet(f.succ[b]) \subseteq X \ {n}
      BY <1>7, <1>8, <2>1 DEF Body, Edges
    <3>4. X \ {n} = Blocks(f)
      BY <3>1, <3>2, <3>3 DEF Body, Rooted
    <3> QED
      BY <1>8, <3>1, <3>4
  <2> QED
    BY <2>1 DEF Rooted
<1>14. LoadsOnce(g)
  <2>1. g.ids = f.ids
    BY <1>3, <1>2 DEF Bodies
  <2>2. LoadsOnce(f)
    BY DEF Body
  <2> QED
    BY <1>7, <1>8, <2>1, <2>2, SameLoadsOnce
<1> QED
  BY <1>1, <1>n, <1>5, <1>7, <1>8, <1>9, <1>10, <1>11, <1>12, <1>13, <1>14 DEF Body

\* Moving the insert point changes nothing else.
LEMMA SetInsertKeeps ==
  ASSUME NEW f, Body(f), NEW b \in Blocks(f)
  PROVE  LET g == SetInsert(f, b)
         IN  /\ Body(g)
             /\ g.cur = b /\ g.succ = f.succ /\ g.pre = f.pre
             /\ LastBlock(g) = LastBlock(f) /\ Blocks(g) = Blocks(f) /\ Open(g) = Open(f)
             /\ \A c \in Blocks(f) : Plain(g, c) <=> Plain(f, c)
<1>1. PICK g : g = SetInsert(f, b)
  OBVIOUS
<1>2. PICK S : f \in Bodies(S)
  BY DEF Body, Shape
<1>3. b \in Nat
  BY BlocksAre DEF Body
<1>4. /\ g \in Bodies(S) /\ g.cur = b /\ g.succ = f.succ /\ g.pre = f.pre /\ g.code = f.code
  BY <1>1, <1>2, <1>3 DEF Bodies, SetInsert
<1>5. LastBlock(g) = LastBlock(f) /\ Blocks(g) = Blocks(f) /\ Open(g) = Open(f)
  BY <1>4 DEF LastBlock, Blocks, Open, Terminated
<1>6. Body(g)
  <2>1. Shape(g)
    BY <1>4, <1>5 DEF Body, Shape
  <2>2. Edges(g) /\ Phis(g)
    BY <1>4, <1>5 DEF Body, Edges, Phis
  <2>3. Rooted(g)
    BY <1>4, <1>5 DEF Body, Rooted
  <2>4. LoadsOnce(g)
    <3>1. g.ids = f.ids
      BY <1>1, <1>2 DEF Bodies, SetInsert
    <3> QED
      BY <1>4, <1>5, <3>1, SameLoadsOnce DEF Body
  <2> QED
    BY <2>1, <2>2, <2>3, <2>4 DEF Body
<1> QED
  BY <1>1, <1>4, <1>5, <1>6 DEF Plain

-----------------------------------------------------------------------------
(***************************************************************************)
(* Edges.  A branch may lead to a block other than the entry that holds no *)
(* phi and that the new edge does not cut off.                             *)
(***************************************************************************)
\* A new edge from b to t cannot cut t off: it is no root, or it does not lead to b.
Sep(f, t, b) ==
  \/ f.pre[t] # << >>
  \/ \E Z \in SUBSET Blocks(f) : t \in Z /\ b \notin Z /\ \A z \in Z : ToSet(f.succ[z]) \subseteq Z

MayBranch(f, b, t) ==
  /\ t \in Blocks(f) \ {b, Entry} /\ t \notin ToSet(f.succ[b])
  /\ Plain(f, t) /\ Sep(f, t, b)

\* A function on 1 .. n is a sequence of length n.
LEMMA FunSeq ==
  ASSUME NEW T, NEW n \in Nat, NEW s \in [1 .. n -> T]
  PROVE  s \in Seq(T) /\ Len(s) = n
OBVIOUS

\* A sequence without duplicates stays one when it gets a new element.
LEMMA InjectiveAppend ==
  ASSUME NEW S, NEW s \in Seq(S), IsInjective(s), NEW x, x \notin ToSet(s)
  PROVE  IsInjective(Append(s, x))
<1>1. PICK r : r = Append(s, x)
  OBVIOUS
<1>2. /\ DOMAIN r = 1 .. Len(s) + 1 /\ r[Len(s) + 1] = x /\ \A i \in 1 .. Len(s) : r[i] = s[i]
      /\ Len(s) \in Nat /\ DOMAIN s = 1 .. Len(s)
  BY <1>1, SeqAppend
<1>3. \A i \in 1 .. Len(s) : s[i] # x
  BY <1>2 DEF ToSet
<1>4. ASSUME NEW i \in DOMAIN r, NEW j \in DOMAIN r, r[i] = r[j] PROVE i = j
  <2>1. \A k \in DOMAIN r : k \in 1 .. Len(s) \/ k = Len(s) + 1
    BY <1>2
  <2> QED
    BY <1>2, <1>3, <1>4, <2>1 DEF IsInjective
<1> QED
  BY <1>1, <1>4 DEF IsInjective

\* g is f with an edge from b to t
EdgeAdded(f, g, b, t) ==
  /\ g.cur = f.cur /\ LastBlock(g) = LastBlock(f) /\ Blocks(g) = Blocks(f)
  /\ g.code = f.code /\ Open(g) = Open(f)
  /\ ToSet(g.succ[b]) = ToSet(f.succ[b]) \cup {t}
  /\ \A c \in Blocks(f) : c # b => g.succ[c] = f.succ[c]
  /\ g.pre[t] = Append(f.pre[t], b) /\ g.pre[t] # << >>
  /\ \A c \in Blocks(f) : c # t => g.pre[c] = f.pre[c]
  /\ \A c \in Blocks(f) : Plain(g, c) <=> Plain(f, c)

\* A body stays one when it gets an edge from a block that ends in a br.
LEMMA AddEdgeKeeps ==
  ASSUME NEW f, Body(f), NEW b \in Blocks(f), NEW t, MayBranch(f, b, t),
         f.code[b] # << >>, Last(f.code[b]).op = "br",
         NEW g, g = AddEdge(f, b, t)
  PROVE  Body(g) /\ EdgeAdded(f, g, b, t)
<1>1. g = AddEdge(f, b, t)
  OBVIOUS
<1>2. PICK S : f \in Bodies(S)
  BY DEF Body, Shape
<1>3. PICK sc, pr : sc = [f.succ EXCEPT ![b] = Append(@, t)] /\ pr = [f.pre EXCEPT ![t] = Append(@, b)]
  OBVIOUS
<1>4. /\ f.succ \in Seq(Seq(Nat)) /\ f.pre \in Seq(Seq(Nat))
      /\ f.succ \in [Blocks(f) -> Seq(Nat)] /\ f.pre \in [Blocks(f) -> Seq(Nat)]
      /\ LastBlock(f) \in Nat /\ Blocks(f) = 1 .. LastBlock(f) /\ f.cur \in Blocks(f)
      /\ Len(f.succ) = LastBlock(f) /\ Len(f.pre) = LastBlock(f)
      /\ b \in Nat /\ t \in Nat /\ t \in Blocks(f) /\ t # b /\ t # Entry
  <2>1. Shape(f) /\ t \in Blocks(f) /\ t # b /\ t # Entry
    BY DEF Body, MayBranch
  <2>2. Len(f.succ) = LastBlock(f) /\ Len(f.pre) = LastBlock(f)
    BY <2>1 DEF Shape
  <2>3. LastBlock(f) \in Nat /\ Blocks(f) = 1 .. LastBlock(f)
    BY <2>1, BlocksAre
  <2>4. b \in Nat /\ t \in Nat
    BY <2>1, <2>3
  <2> QED
    BY <2>1, <2>2, <2>4, BlocksAre
<1>5. /\ Append(f.succ[b], t) \in Seq(Nat) /\ Append(f.pre[t], b) \in Seq(Nat)
      /\ Append(f.pre[t], b) # << >>
      /\ ToSet(Append(f.succ[b], t)) = ToSet(f.succ[b]) \cup {t}
      /\ ToSet(Append(f.pre[t], b)) = ToSet(f.pre[t]) \cup {b}
  <2>1. f.succ[b] \in Seq(Nat) /\ f.pre[t] \in Seq(Nat)
    BY <1>4
  <2> QED
    <3>1. \A s \in Seq(Nat) : \A x \in Nat :
            /\ Append(s, x) \in Seq(Nat) /\ Append(s, x) # << >>
            /\ ToSet(Append(s, x)) = ToSet(s) \cup {x}
      BY SeqAppend
    <3> QED
      BY <1>4, <2>1, <3>1
<1>6. sc \in [Blocks(f) -> Seq(Nat)] /\ pr \in [Blocks(f) -> Seq(Nat)]
  BY <1>3, <1>4, <1>5
<1>7. /\ sc \in Seq(Seq(Nat)) /\ Len(sc) = LastBlock(f)
      /\ pr \in Seq(Seq(Nat)) /\ Len(pr) = LastBlock(f)
  BY <1>4, <1>6, FunSeq
<1>8. /\ g \in Bodies(S) /\ g.cur = f.cur /\ g.code = f.code /\ g.succ = sc /\ g.pre = pr
  BY <1>1, <1>2, <1>3, <1>7 DEF AddEdge, Bodies
<1>9. /\ LastBlock(g) = LastBlock(f) /\ Blocks(g) = Blocks(f) /\ Open(g) = Open(f)
      /\ \A c \in Blocks(f) : Plain(g, c) <=> Plain(f, c)
  BY <1>8 DEF LastBlock, Blocks, Open, Terminated, Plain
<1>10. /\ g.succ[b] = Append(f.succ[b], t) /\ g.pre[t] = Append(f.pre[t], b)
       /\ \A c \in Blocks(f) : c # b => g.succ[c] = f.succ[c]
       /\ \A c \in Blocks(f) : c # t => g.pre[c] = f.pre[c]
  BY <1>3, <1>4, <1>8
<1>11. Shape(g)
  BY <1>4, <1>7, <1>8, <1>9 DEF Shape
<1>12. Edges(g)
  <2>1. \A c, u \in Blocks(f) : /\ u \in ToSet(g.succ[c]) <=> u \in ToSet(f.succ[c]) \/ (c = b /\ u = t)
                                /\ c \in ToSet(g.pre[u]) <=> c \in ToSet(f.pre[u]) \/ (c = b /\ u = t)
    <3> TAKE c, u \in Blocks(f)
    <3>1. u \in ToSet(g.succ[c]) <=> u \in ToSet(f.succ[c]) \/ (c = b /\ u = t)
      <4>1. CASE c = b
        BY <1>5, <1>10, <4>1
      <4>2. CASE c # b
        BY <1>10, <4>2
      <4> QED
        BY <4>1, <4>2
    <3>2. c \in ToSet(g.pre[u]) <=> c \in ToSet(f.pre[u]) \/ (c = b /\ u = t)
      <4>1. CASE u = t
        BY <1>5, <1>10, <4>1
      <4>2. CASE u # t
        BY <1>10, <4>2
      <4> QED
        BY <4>1, <4>2
    <3> QED
      BY <3>1, <3>2
  <2>2. \A c, u \in Blocks(g) : u \in ToSet(g.succ[c]) <=> c \in ToSet(g.pre[u])
    BY <1>9, <2>1 DEF Body, Edges
  <2>3. \A c \in Blocks(g) : ToSet(g.succ[c]) \subseteq Blocks(g) \ {c}
    <3>1. \A c \in Blocks(f) : ToSet(f.succ[c]) \subseteq Blocks(f) \ {c}
      BY DEF Body, Edges
    <3>2. ToSet(g.succ[b]) \subseteq Blocks(f) \ {b}
      BY <1>4, <1>5, <1>10, <3>1
    <3> QED
      BY <1>9, <1>10, <3>1, <3>2
  <2>4. \A c \in Blocks(g) : ToSet(g.pre[c]) \subseteq Blocks(g)
    <3>1. \A c \in Blocks(f) : ToSet(f.pre[c]) \subseteq Blocks(f)
      BY DEF Body, Edges
    <3> QED
      <4>1. b \in Blocks(f) /\ t \in Blocks(f)
        BY <1>4
      <4>2. ToSet(g.pre[t]) \subseteq Blocks(f)
        BY <1>5, <1>10, <3>1, <4>1
      <4>3. \A c \in Blocks(f) : c # t => ToSet(g.pre[c]) \subseteq Blocks(f)
        BY <1>10, <3>1
      <4> QED
        BY <1>9, <4>2, <4>3
  <2>5. IsInjective(g.succ[b]) /\ IsInjective(g.pre[t])
    <3>1. IsInjective(f.succ[b]) /\ IsInjective(f.pre[t])
      BY <1>4 DEF Body, Edges
    <3>2. t \notin ToSet(f.succ[b]) /\ b \notin ToSet(f.pre[t])
      BY <1>4 DEF Body, Edges, MayBranch
    <3>3. f.succ[b] \in Seq(Nat) /\ f.pre[t] \in Seq(Nat)
      BY <1>4
    <3> QED
      BY <1>10, <3>1, <3>2, <3>3, InjectiveAppend
  <2>6. \A c \in Blocks(g) : IsInjective(g.succ[c]) /\ IsInjective(g.pre[c])
    BY <1>9, <1>10, <2>5 DEF Body, Edges
  <2>7. \A c \in Blocks(g) : g.succ[c] # << >> => g.code[c] # << >> /\ Last(g.code[c]).op = "br"
    BY <1>8, <1>9, <1>10 DEF Body, Edges
  <2>8. g.pre[Entry] = << >>
    <3>1. Entry \in Blocks(f)
      BY <1>4 DEF Entry
    <3> QED
      BY <1>4, <1>10, <3>1 DEF Body, Edges
  <2> QED
    BY <2>2, <2>3, <2>4, <2>6, <2>7, <2>8 DEF Edges
<1>13. Phis(g)
  <2>1. ASSUME NEW c \in Blocks(f), NEW i \in DOMAIN f.code[c], IsPhi(f.code[c][i])
        PROVE  c # t
    BY <2>1 DEF MayBranch, Plain
  <2> QED
    BY <1>8, <1>9, <1>10, <2>1 DEF Body, Phis
<1>14. Rooted(g)
  <2>1. ASSUME NEW X \in SUBSET Blocks(g),
               \A c \in Blocks(g) : g.pre[c] = << >> => c \in X,
               \A c \in X : ToSet(g.succ[c]) \subseteq X
        PROVE  X = Blocks(g)
    <3>0. \A c \in X : ToSet(f.succ[c]) \subseteq X
      BY <1>5, <1>9, <1>10, <2>1
    <3>1. ASSUME NEW Z \in SUBSET Blocks(f), t \in Z, b \notin Z,
                 \A z \in Z : ToSet(f.succ[z]) \subseteq Z
          PROVE  t \in X
      <4>1. X \cup Z \in SUBSET Blocks(f)
        BY <1>9
      <4>2. \A c \in Blocks(f) : f.pre[c] = << >> => c \in X \cup Z
        BY <1>9, <1>10, <2>1, <3>1
      <4>3. \A c \in X \cup Z : ToSet(f.succ[c]) \subseteq X \cup Z
        BY <3>0, <3>1
      <4>4. X \cup Z = Blocks(f)
        BY <4>1, <4>2, <4>3 DEF Body, Rooted
      <4> QED
        BY <1>5, <1>10, <2>1, <3>1, <4>4
    <3>2. \A c \in Blocks(f) : f.pre[c] = << >> => c \in X
      BY <1>9, <1>10, <2>1, <3>1 DEF MayBranch, Sep
    <3> QED
      BY <1>9, <3>0, <3>2 DEF Body, Rooted
  <2> QED
    BY <2>1 DEF Rooted
<1>15. LoadsOnce(g)
  <2>1. g.ids = f.ids
    BY <1>1, <1>2 DEF Bodies, AddEdge
  <2> QED
    BY <1>8, <1>9, <2>1, SameLoadsOnce DEF Body
<1> QED
  BY <1>1, <1>3, <1>5, <1>8, <1>9, <1>10, <1>11, <1>12, <1>13, <1>14, <1>15 DEF Body, EdgeAdded

\* What putting an element before a sequence returns.
LEMMA SeqPrepend ==
  ASSUME NEW S, NEW s \in Seq(S), NEW x, NEW r, r = <<x>> \o s
  PROVE  /\ r \in Seq(S \cup {x}) /\ r # << >>
         /\ s = << >> => Last(r) = x
         /\ s # << >> => Last(r) = Last(s)
         /\ \A i \in DOMAIN r : r[i] = x \/ \E j \in DOMAIN s : r[i] = s[j]
         /\ \A i \in DOMAIN r : \/ i = 1 /\ r[i] = x
                                \/ i - 1 \in DOMAIN s /\ r[i] = s[i - 1] /\ i \in Nat
         /\ \A j \in DOMAIN s : j + 1 \in DOMAIN r /\ r[j + 1] = s[j] /\ j \in Nat
<1>1. r = <<x>> \o s
  OBVIOUS
<1>2. <<x>> \in Seq(S \cup {x}) /\ s \in Seq(S \cup {x}) /\ Len(<<x>>) = 1 /\ <<x>>[1] = x
  OBVIOUS
<1>3. /\ r \in Seq(S \cup {x}) /\ Len(r) = Len(s) + 1 /\ Len(s) \in Nat
      /\ DOMAIN r = 1 .. Len(s) + 1 /\ DOMAIN s = 1 .. Len(s)
      /\ \A i \in 1 .. Len(s) + 1 : r[i] = IF i = 1 THEN x ELSE s[i - 1]
  BY <1>1, <1>2
<1>4. Last(r) = IF s = << >> THEN x ELSE Last(s)
  <2>1. r[Len(s) + 1] = IF Len(s) = 0 THEN x ELSE s[Len(s)]
    BY <1>3
  <2>2. s = << >> <=> Len(s) = 0
    OBVIOUS
  <2> QED
    BY <1>3, <2>1, <2>2 DEF Last
<1>5. \A i \in DOMAIN r : r[i] = x \/ \E j \in DOMAIN s : r[i] = s[j]
  <2>1. ASSUME NEW i \in 1 .. Len(s) + 1, i # 1 PROVE i - 1 \in 1 .. Len(s) /\ r[i] = s[i - 1]
    BY <1>3, <2>1
  <2> QED
    BY <1>3, <2>1
<1>6. r # << >>
  BY <1>3
<1>7. \A i \in DOMAIN r : \/ i = 1 /\ r[i] = x
                          \/ i - 1 \in DOMAIN s /\ r[i] = s[i - 1] /\ i \in Nat
  BY <1>3
<1>8. \A j \in DOMAIN s : j + 1 \in DOMAIN r /\ r[j + 1] = s[j] /\ j \in Nat
  <2>1. \A j \in 1 .. Len(s) : j + 1 \in 1 .. Len(s) + 1 /\ j + 1 # 1 /\ (j + 1) - 1 = j
    BY <1>3
  <2> QED
    BY <1>3, <2>1
<1> QED
  BY <1>3, <1>4, <1>5, <1>6, <1>7, <1>8

\* A phi before a block shifts its loads and stores.
LEMMA PrependLoadsOnce ==
  ASSUME NEW f, LoadsOnce(f), Shape(f), NEW b \in Blocks(f), NEW phi, IsPhi(phi),
         NEW g, g.ids = f.ids, Blocks(g) = Blocks(f), g.code[b] = <<phi>> \o f.code[b],
         \A x \in Blocks(f) : x # b => g.code[x] = f.code[x]
  PROVE  LoadsOnce(g)
<1> DEFINE at(x, k) == IF x = b THEN k - 1 ELSE k
<1>1. ASSUME NEW x \in Blocks(f)
      PROVE  /\ \A k \in DOMAIN g.code[x] :
                  \/ IsPhi(g.code[x][k])
                  \/ at(x, k) \in DOMAIN f.code[x] /\ g.code[x][k] = f.code[x][at(x, k)] /\ k \in Nat
             /\ \A j \in DOMAIN f.code[x] :
                  j \in Nat /\ \E k \in DOMAIN g.code[x] : g.code[x][k] = f.code[x][j] /\ at(x, k) = j /\ k \in Nat
  <2>1. PICK S : f.code[x] \in Seq(S)
    BY CodeSeq
  <2>2. CASE x = b
    <3>1. PICK r, s : r = g.code[x] /\ s = f.code[x]
      OBVIOUS
    <3>2. r = <<phi>> \o s /\ s \in Seq(S)
      BY <2>1, <2>2, <3>1
    <3>3. \A i \in DOMAIN r : \/ i = 1 /\ r[i] = phi
                              \/ i - 1 \in DOMAIN s /\ r[i] = s[i - 1] /\ i \in Nat
      BY <3>2, SeqPrepend
    <3>4. \A j \in DOMAIN s : j + 1 \in DOMAIN r /\ r[j + 1] = s[j] /\ j \in Nat
      BY <3>2, SeqPrepend
    <3>5. \A j \in Nat : (j + 1) - 1 = j /\ j + 1 \in Nat
      OBVIOUS
    <3>6. \A k \in DOMAIN r :
            \/ IsPhi(r[k])
            \/ at(x, k) \in DOMAIN s /\ r[k] = s[at(x, k)] /\ k \in Nat
      BY <2>2, <3>3
    <3>7. \A j \in DOMAIN s :
            j \in Nat /\ \E k \in DOMAIN r : r[k] = s[j] /\ at(x, k) = j /\ k \in Nat
      BY <2>2, <3>4, <3>5
    <3> QED
      BY <3>1, <3>6, <3>7
  <2>3. CASE x # b
    BY <2>1, <2>3
  <2> QED
    BY <2>2, <2>3
<1>2. \A i : IsPhi(i) => i.op # "load" /\ i.op # "store"
  BY DEF IsPhi
<1>3. ASSUME NEW x \in Blocks(f), NEW k \in DOMAIN g.code[x]
      PROVE  /\ g.code[x][k].op = "load" => g.code[x][k].id \in 1 .. g.ids
             /\ g.code[x][k].op = "store" => Follows(g.code[x], k, g.code[x][k].val)
  <2>1. CASE IsPhi(g.code[x][k])
    BY <1>2, <2>1
  <2>2. CASE at(x, k) \in DOMAIN f.code[x] /\ g.code[x][k] = f.code[x][at(x, k)] /\ k \in Nat
    <3>1. PICK i : i = at(x, k)
      OBVIOUS
    <3>2. g.code[x][k].op = "load" => g.code[x][k].id \in 1 .. g.ids
      BY <2>2 DEF LoadsOnce
    <3>3. g.code[x][k].op = "store" => Follows(f.code[x], i, g.code[x][k].val)
      BY <2>2, <3>1 DEF LoadsOnce
    <3>4. ASSUME NEW j \in DOMAIN f.code[x], j < i
          PROVE  \E l \in DOMAIN g.code[x] : l < k /\ g.code[x][l] = f.code[x][j]
      <4>1. PICK l \in DOMAIN g.code[x] : g.code[x][l] = f.code[x][j] /\ at(x, l) = j /\ l \in Nat
        BY <1>1
      <4>2. l < k
        BY <2>2, <3>1, <3>4, <4>1
      <4> QED
        BY <4>1, <4>2
    <3>5. \A v : Follows(f.code[x], i, v) => Follows(g.code[x], k, v)
      BY <3>4 DEF Follows
    <3> QED
      BY <3>2, <3>3, <3>5
  <2> QED
    BY <1>1, <2>1, <2>2
<1>4. ASSUME NEW x \in Blocks(f), NEW y \in Blocks(f),
             NEW k \in DOMAIN g.code[x], NEW j \in DOMAIN g.code[y],
             g.code[x][k].op = "load", g.code[y][j].op = "load",
             g.code[x][k].id = g.code[y][j].id
      PROVE  x = y /\ k = j
  <2>1. /\ at(x, k) \in DOMAIN f.code[x] /\ g.code[x][k] = f.code[x][at(x, k)] /\ k \in Nat
        /\ at(y, j) \in DOMAIN f.code[y] /\ g.code[y][j] = f.code[y][at(y, j)] /\ j \in Nat
    BY <1>1, <1>2, <1>4
  <2>2. PICK u \in DOMAIN f.code[x] : u = at(x, k) /\ g.code[x][k] = f.code[x][u]
    BY <2>1
  <2>3. PICK v \in DOMAIN f.code[y] : v = at(y, j) /\ g.code[y][j] = f.code[y][v]
    BY <2>1
  <2>4. /\ f.code[x][u].op = "load" /\ f.code[y][v].op = "load"
        /\ f.code[x][u].id = f.code[y][v].id
    BY <1>4, <2>2, <2>3
  <2>5. x = y /\ u = v
    BY <2>4 DEF LoadsOnce
  <2> QED
    BY <2>1, <2>2, <2>3, <2>5
<1> QED
  BY <1>3, <1>4 DEF LoadsOnce

\* A body stays one when a phi over the predecessors of b is put before b.
LEMMA AddInstrBeginKeeps ==
  ASSUME NEW f, Body(f), NEW b \in Blocks(f),
         NEW g, g = AddInstrBegin(f, b, CondPhi(f.pre[b]))
  PROVE  /\ Body(g)
         /\ g.cur = f.cur /\ LastBlock(g) = LastBlock(f) /\ Blocks(g) = Blocks(f)
         /\ g.succ = f.succ /\ g.pre = f.pre /\ Open(g) = Open(f)
         /\ \A c \in Blocks(f) : c # b => (Plain(g, c) <=> Plain(f, c))
<1>p. PICK phi : phi = CondPhi(f.pre[b])
  OBVIOUS
<1>1. g = AddInstrBegin(f, b, phi)
  BY <1>p
<1>2. PICK S : f \in Bodies(S)
  BY DEF Body, Shape
<1>3. PICK c, q : c = [f.code EXCEPT ![b] = <<phi>> \o @] /\ q = <<phi>> \o f.code[b]
  OBVIOUS
<1>4. LastBlock(f) \in Nat /\ Blocks(f) = 1 .. LastBlock(f) /\ DOMAIN f.code = 1 .. LastBlock(f)
  BY BlocksAre DEF Body
<1>5. \A x \in Blocks(f) : f.code[x] \in Seq(S) /\ f.code[x] \in Seq(S \cup {phi})
  <2>1. f.code \in Seq(Seq(S))
    BY <1>2 DEF Bodies
  <2>2. \A x \in Blocks(f) : f.code[x] \in Seq(S)
    BY <1>4, <2>1 DEF LastBlock
  <2> QED
    BY <2>2
<1>6. /\ q \in Seq(S \cup {phi}) /\ q # << >>
      /\ f.code[b] = << >> => Last(q) = phi
      /\ f.code[b] # << >> => Last(q) = Last(f.code[b])
      /\ \A i \in DOMAIN q : q[i] = phi \/ \E j \in DOMAIN f.code[b] : q[i] = f.code[b][j]
  <2>1. PICK s : s = f.code[b]
    OBVIOUS
  <2>2. s \in Seq(S) /\ q = <<phi>> \o s
    BY <1>3, <1>5, <2>1
  <2>3. /\ q \in Seq(S \cup {phi}) /\ q # << >>
        /\ (s = << >> => Last(q) = phi) /\ (s # << >> => Last(q) = Last(s))
        /\ \A i \in DOMAIN q : q[i] = phi \/ \E j \in DOMAIN s : q[i] = s[j]
    <3>1. q \in Seq(S \cup {phi}) /\ q # << >>
      BY <2>2, SeqPrepend
    <3>2. s = << >> => Last(q) = phi
      BY <2>2, SeqPrepend, ZenonT(60)
    <3>4. s # << >> => Last(q) = Last(s)
      BY <2>2, SeqPrepend, ZenonT(60)
    <3>3. \A i \in DOMAIN q : q[i] = phi \/ \E j \in DOMAIN s : q[i] = s[j]
      BY <2>2, SeqPrepend
    <3> QED
      BY <3>1, <3>2, <3>3, <3>4
  <2> QED
    BY <2>1, <2>3
<1>7. c \in [Blocks(f) -> Seq(S \cup {phi})]
  BY <1>3, <1>4, <1>5, <1>6
<1>8. c \in Seq(Seq(S \cup {phi})) /\ Len(c) = LastBlock(f) /\ DOMAIN c = 1 .. LastBlock(f)
  BY <1>4, <1>7
<1>9. /\ g \in Bodies(S \cup {phi}) /\ g.cur = f.cur /\ g.succ = f.succ /\ g.pre = f.pre /\ g.code = c
  BY <1>1, <1>2, <1>3, <1>8 DEF AddInstrBegin, Bodies
<1>10. /\ LastBlock(g) = LastBlock(f) /\ Blocks(g) = Blocks(f)
       /\ g.code[b] = q /\ \A x \in Blocks(f) : x # b => g.code[x] = f.code[x]
  BY <1>3, <1>4, <1>8, <1>9 DEF LastBlock, Blocks
<1>11. phi.op = "phi" /\ phi.from = f.pre[b]
  BY <1>p DEF CondPhi
<1>12. Open(g) = Open(f)
  BY <1>6, <1>10, <1>11 DEF Open, Terminated
<1>13. Shape(g)
  BY <1>8, <1>9, <1>10 DEF Body, Shape
<1>14. Edges(g)
  <2>1. f.succ[b] # << >> => Last(g.code[b]).op = "br" /\ g.code[b] # << >>
    BY <1>6, <1>10 DEF Body, Edges
  <2> QED
    BY <1>9, <1>10, <2>1 DEF Body, Edges
<1>15. Phis(g)
  <2>1. \A i \in DOMAIN q : IsPhi(q[i]) => q[i].from = f.pre[b]
    BY <1>6, <1>11 DEF Body, Phis
  <2> QED
    BY <1>9, <1>10, <2>1 DEF Body, Phis
<1>16. Rooted(g)
  BY <1>9, <1>10 DEF Body, Rooted
<1>17. LoadsOnce(g)
  <2>1. g.ids = f.ids
    BY <1>1, <1>2 DEF AddInstrBegin, Bodies
  <2>2. IsPhi(phi) /\ Shape(f) /\ LoadsOnce(f) /\ g.code[b] = <<phi>> \o f.code[b]
    BY <1>3, <1>10, <1>11 DEF IsPhi, Body
  <2> QED
    BY <1>10, <2>1, <2>2, PrependLoadsOnce
<1> QED
  BY <1>p, <1>1, <1>9, <1>10, <1>12, <1>13, <1>14, <1>15, <1>16, <1>17 DEF Body, Plain

-----------------------------------------------------------------------------
(***************************************************************************)
(* Loads, stores and branches at the insert point.                         *)
(***************************************************************************)
\* g differs from f in the straight-line code of its blocks only
SameGraph(f, g) ==
  /\ g.succ = f.succ /\ g.pre = f.pre /\ g.cur = f.cur
  /\ LastBlock(g) = LastBlock(f) /\ Blocks(g) = Blocks(f) /\ Open(g) = Open(f)
  /\ \A b \in Blocks(f) : Plain(g, b) <=> Plain(f, b)

\* The instruction counter is no part of the graph.
LEMMA NumberedKeeps ==
  ASSUME NEW f, Graph(f)
  PROVE  LET g == [f EXCEPT !.ids = @ + 1]
         IN  Graph(g) /\ SameGraph(f, g) /\ g.code = f.code /\ g.ids = f.ids + 1 /\ f.ids \in Nat
<1>1. PICK g : g = [f EXCEPT !.ids = @ + 1]
  OBVIOUS
<1>2. PICK S : f \in Bodies(S)
  BY DEF Graph, Shape
<1>3. f.ids + 1 \in Nat /\ f.ids \in Nat
  BY <1>2 DEF Bodies
<1>4. /\ g \in Bodies(S) /\ g.cur = f.cur /\ g.succ = f.succ /\ g.pre = f.pre /\ g.code = f.code
      /\ g.ids = f.ids + 1
  BY <1>1, <1>2, <1>3 DEF Bodies
<1>5. /\ LastBlock(g) = LastBlock(f) /\ Blocks(g) = Blocks(f) /\ Open(g) = Open(f)
      /\ \A b \in Blocks(f) : Plain(g, b) <=> Plain(f, b)
  BY <1>4 DEF LastBlock, Blocks, Open, Terminated, Plain
<1>6. Shape(g)
  BY <1>4, <1>5 DEF Graph, Shape
<1>7. Edges(g) /\ Phis(g)
  BY <1>4, <1>5 DEF Graph, Edges, Phis
<1>8. Rooted(g)
  BY <1>4, <1>5 DEF Graph, Rooted
<1> QED
  BY <1>1, <1>3, <1>4, <1>5, <1>6, <1>7, <1>8 DEF Graph, SameGraph

\* the value v is a load of the insert block, or no load
Available(f, v) ==
  v[1] = "load" => \E j \in DOMAIN f.code[f.cur] :
                     f.code[f.cur][j].op = "load" /\ f.code[f.cur][j].id = v[2]

\* An instruction with the next number: what it leaves as it is, and what was available.
LEMMA EmitNumbered ==
  ASSUME NEW f, Body(f), f.cur \in Open(f), NEW instr, instr.op \in {"load", "store"},
         instr.op = "load" => instr.id = f.ids + 1,
         instr.op = "store" => Available(f, instr.val),
         NEW g, g = [Emit(f, instr) EXCEPT !.ids = @ + 1]
  PROVE  /\ Body(g) /\ SameGraph(f, g) /\ g.ids = f.ids + 1
         /\ \A v : Available(f, v) => Available(g, v)
         /\ instr.op = "load" => \A v : v[2] = f.ids + 1 => Available(g, v)
<1>1. PICK h : h = Emit(f, instr)
  OBVIOUS
<1>2. /\ Graph(h) /\ SameGraph(f, h) /\ h.ids = f.ids
      /\ h.code = [f.code EXCEPT ![f.cur] = Append(@, instr)]
  BY <1>1, EmitKeeps DEF IsPhi, SameGraph
<1>3. g = [h EXCEPT !.ids = @ + 1]
  BY <1>1
<1>4. Graph(g) /\ SameGraph(h, g) /\ g.code = h.code /\ g.ids = h.ids + 1 /\ h.ids \in Nat
  BY <1>2, <1>3, NumberedKeeps
<1>5. SameGraph(f, g)
  BY <1>2, <1>4 DEF SameGraph
<1>6. PICK c, n : c = f.code[f.cur] /\ n = Len(c)
  OBVIOUS
<1>7. f.cur \in Blocks(f) /\ f.cur \in DOMAIN f.code /\ g.cur = f.cur
  BY <1>5, BlocksAre DEF Body, SameGraph
<1>8. /\ n \in Nat /\ DOMAIN c = 1 .. n /\ DOMAIN g.code[f.cur] = 1 .. n + 1
      /\ g.code[f.cur][n + 1] = instr
      /\ \A i \in 1 .. n : g.code[f.cur][i] = c[i]
  <2>1. PICK S : c \in Seq(S)
    BY <1>6, <1>7, CodeSeq DEF Body
  <2>2. g.code[f.cur] = Append(c, instr)
    BY <1>2, <1>4, <1>6, <1>7
  <2> QED
    BY <1>6, <2>1, <2>2, SeqAppend
<1>9. \A j \in DOMAIN c : j < n + 1 /\ j \in 1 .. n + 1
  BY <1>8
<1>10. LoadsOnce(g)
  <2>1. instr.op = "store" => Follows(f.code[f.cur], Len(f.code[f.cur]) + 1, instr.val)
    BY <1>6, <1>9 DEF Available, Follows
  <2>2. g.code = [f.code EXCEPT ![f.cur] = Append(@, instr)] /\ g.ids = f.ids + 1 /\ f.ids \in Nat
    BY <1>2, <1>4
  <2>3. g.ids \in Nat /\ f.ids <= g.ids
    BY <2>2
  <2>4. Shape(f) /\ LoadsOnce(f)
    BY DEF Body
  <2> QED
    BY <2>1, <2>2, <2>3, <2>4, AppendLoadsOnce
<1>11. ASSUME NEW v, Available(f, v) PROVE Available(g, v)
  BY <1>6, <1>7, <1>8, <1>9, <1>11 DEF Available
<1>12. ASSUME instr.op = "load", NEW v, v[2] = f.ids + 1 PROVE Available(g, v)
  <2>1. n + 1 \in DOMAIN g.code[g.cur] /\ g.code[g.cur][n + 1] = instr
    BY <1>7, <1>8
  <2> QED
    BY <1>12, <2>1 DEF Available
<1>13. Body(g)
  BY <1>4, <1>10 DEF Body, Graph
<1> QED
  BY <1>2, <1>4, <1>5, <1>11, <1>12, <1>13

\* A load leaves the graph as it is, and its value is available.
LEMMA LoadKeeps ==
  ASSUME NEW f, Body(f), f.cur \in Open(f), NEW a, NEW g, g = EmitLoad(f, a)
  PROVE  /\ Body(g) /\ SameGraph(f, g)
         /\ \A v : Available(f, v) => Available(g, v)
         /\ Available(g, Loaded(g.ids))
<1>1. PICK instr : instr = Load(f.ids + 1, a)
  OBVIOUS
<1>2. /\ instr.op = "load" /\ instr.op \in {"load", "store"} /\ instr.op # "store"
      /\ instr.id = f.ids + 1 /\ g = [Emit(f, instr) EXCEPT !.ids = @ + 1]
  BY <1>1 DEF Load, EmitLoad
<1>7. Body(g)
  BY <1>2, EmitNumbered
<1>8. SameGraph(f, g)
  BY <1>2, EmitNumbered
<1>9. g.ids = f.ids + 1
  <2>1. PICK h : h = Emit(f, instr)
    OBVIOUS
  <2>2. Graph(h) /\ h.ids = f.ids
    BY <1>2, <2>1, EmitKeeps DEF IsPhi
  <2>3. g = [h EXCEPT !.ids = @ + 1]
    BY <1>2, <2>1
  <2> QED
    BY <2>2, <2>3, NumberedKeeps
<1>3. Body(g) /\ SameGraph(f, g) /\ g.ids = f.ids + 1
  BY <1>7, <1>8, <1>9
<1>4. \A v : v[2] = f.ids + 1 => Available(g, v)
  BY <1>2, EmitNumbered
<1>6. \A v : Available(f, v) => Available(g, v)
  BY <1>2, EmitNumbered
<1>5. Loaded(g.ids)[2] = g.ids
  BY DEF Loaded
<1> QED
  BY <1>3, <1>4, <1>5, <1>6

\* A store of a value that is available leaves the graph as it is.
LEMMA StoreKeeps ==
  ASSUME NEW f, Body(f), f.cur \in Open(f), NEW a, NEW v, Available(f, v),
         NEW g, g = EmitStore(f, a, v)
  PROVE  Body(g) /\ SameGraph(f, g)
<1>1. PICK instr : instr = Store(f.ids + 1, a, v)
  OBVIOUS
<1>2. instr.op = "store" /\ instr.val = v /\ g = [Emit(f, instr) EXCEPT !.ids = @ + 1]
  BY <1>1 DEF Store, EmitStore
<1> QED
  BY <1>2, EmitNumbered

\* A constant is available anywhere.
LEMMA ConstAvailable ==
  ASSUME NEW f, NEW n
  PROVE  Available(f, Const(n))
BY DEF Available, Const

\* A scalar expression is at most a load.
LEMMA EvalKeeps ==
  ASSUME NEW f, Body(f), f.cur \in Open(f), NEW s, NEW e
  PROVE  Body(Eval(f, s, e)) /\ SameGraph(f, Eval(f, s, e))
BY LoadKeeps DEF Eval, SameGraph

\* The value of a scalar expression is available once it is evaluated.
LEMMA ValueAvailable ==
  ASSUME NEW f, Body(f), f.cur \in Open(f), NEW s, NEW e, NEW g, g = Eval(f, s, e)
  PROVE  Available(g, ValueOf(g, e)) /\ (e # NoName => Available(g, Loaded(g.ids)))
BY LoadKeeps, ConstAvailable DEF Eval, ValueOf

\* the block f was at now ends in a branch to the blocks of T
Branched(f, g, T) ==
  /\ g.cur = f.cur /\ LastBlock(g) = LastBlock(f) /\ Blocks(g) = Blocks(f)
  /\ Open(g) = Open(f) \ {f.cur}
  /\ ToSet(g.succ[f.cur]) = T
  /\ \A c \in Blocks(f) : c # f.cur => g.succ[c] = f.succ[c]
  /\ \A c \in T : g.pre[c] = Append(f.pre[c], f.cur) /\ g.pre[c] # << >>
  /\ \A c \in Blocks(f) : c \notin T => g.pre[c] = f.pre[c]
  /\ \A c \in Blocks(f) : Plain(g, c) <=> Plain(f, c)

\* br at an open insert block closes it, with one edge.
LEMMA BrKeeps ==
  ASSUME NEW f, Body(f), f.cur \in Open(f), NEW t, MayBranch(f, f.cur, t),
         NEW g, g = Br(f, t)
  PROVE  /\ Body(g) /\ Branched(f, g, {t})
         /\ g.code[f.cur] # << >> /\ Last(g.code[f.cur]).op = "br"
<1>1. PICK b : b = f.cur
  OBVIOUS
<1>2. PICK h : h = Emit(f, Branch)
  OBVIOUS
<1>3. g = AddEdge(h, b, t)
  BY <1>1, <1>2 DEF Br
<1>4. ~IsPhi(Branch) /\ Branch.op = "br" /\ Branch.op \notin {"load", "store"}
  BY DEF IsPhi, Branch
<1>5. /\ Body(h) /\ h.succ = f.succ /\ h.pre = f.pre /\ h.cur = b
      /\ LastBlock(h) = LastBlock(f) /\ Blocks(h) = Blocks(f)
      /\ Open(h) = Open(f) \ {b}
      /\ h.code[b] # << >> /\ Last(h.code[b]).op = "br"
      /\ \A c \in Blocks(f) : Plain(h, c) <=> Plain(f, c)
  BY <1>1, <1>2, <1>4, EmitKeeps
<1>6. b \in Blocks(h) /\ t \in Blocks(h) /\ MayBranch(h, b, t) /\ f.succ[b] = << >>
  BY <1>1, <1>5, OpenEdges DEF MayBranch, Sep, Open
<1>7. Body(g) /\ EdgeAdded(h, g, b, t)
  BY <1>3, <1>5, <1>6, AddEdgeKeeps
<1>8. ToSet(f.succ[b]) = {}
  BY <1>6 DEF ToSet
<1> QED
  BY <1>1, <1>5, <1>6, <1>7, <1>8 DEF EdgeAdded, Branched

\* cond_br at an open insert block closes it, with two edges.
LEMMA CondBrKeeps ==
  ASSUME NEW f, Body(f), f.cur \in Open(f), NEW t, NEW e, t # e,
         MayBranch(f, f.cur, t), MayBranch(f, f.cur, e),
         NEW g, g = CondBr(f, t, e)
  PROVE  Body(g) /\ Branched(f, g, {t, e})
<1>1. PICK b : b = f.cur
  OBVIOUS
<1>2. PICK h : h = Br(f, t)
  OBVIOUS
<1>3. g = AddEdge(h, b, e)
  BY <1>1, <1>2 DEF Br, CondBr
<1>4. Body(h) /\ Branched(f, h, {t}) /\ h.code[b] # << >> /\ Last(h.code[b]).op = "br"
  BY <1>1, <1>2, BrKeeps
<1>5. b \in Blocks(h) /\ e \in Blocks(h) /\ e # b /\ e # Entry /\ t \in Blocks(h) /\ Plain(h, e)
  BY <1>1, <1>4 DEF MayBranch, Open, Branched
<1>6. Sep(h, e, b)
  <2>1. CASE f.pre[e] # << >>
    BY <1>4, <1>5, <2>1 DEF Sep, Branched
  <2>2. CASE \E Z \in SUBSET Blocks(f) : e \in Z /\ b \notin Z /\ \A z \in Z : ToSet(f.succ[z]) \subseteq Z
    <3>1. PICK Z \in SUBSET Blocks(f) : e \in Z /\ b \notin Z /\ \A z \in Z : ToSet(f.succ[z]) \subseteq Z
      BY <2>2
    <3>2. Z \in SUBSET Blocks(h) /\ \A z \in Z : ToSet(h.succ[z]) \subseteq Z
      BY <1>1, <1>4, <3>1 DEF Branched
    <3> QED
      BY <3>1, <3>2 DEF Sep
  <2> QED
    BY <1>1, <2>1, <2>2 DEF MayBranch, Sep
<1>7. MayBranch(h, b, e)
  BY <1>1, <1>4, <1>5, <1>6 DEF MayBranch, Branched
<1>8. Body(g) /\ EdgeAdded(h, g, b, e)
  BY <1>3, <1>4, <1>5, <1>7, AddEdgeKeeps
<1>9. /\ g.cur = f.cur /\ LastBlock(g) = LastBlock(f) /\ Blocks(g) = Blocks(f)
      /\ Open(g) = Open(f) \ {f.cur}
      /\ ToSet(g.succ[f.cur]) = {t, e}
      /\ \A c \in Blocks(f) : c # f.cur => g.succ[c] = f.succ[c]
      /\ \A c \in Blocks(f) : Plain(g, c) <=> Plain(f, c)
  BY <1>1, <1>4, <1>8 DEF EdgeAdded, Branched
<1>10. /\ h.pre[t] = Append(f.pre[t], b) /\ h.pre[t] # << >> /\ h.pre[e] = f.pre[e]
       /\ g.pre[e] = Append(h.pre[e], b) /\ g.pre[e] # << >> /\ g.pre[t] = h.pre[t]
  <2>1. h.pre[t] = Append(f.pre[t], b) /\ h.pre[t] # << >>
    BY <1>1, <1>4 DEF Branched
  <2>2. h.pre[e] = f.pre[e]
    BY <1>4, <1>5 DEF Branched
  <2>3. g.pre[e] = Append(h.pre[e], b) /\ g.pre[e] # << >> /\ g.pre[t] = h.pre[t]
    BY <1>5, <1>8 DEF EdgeAdded
  <2> QED
    BY <2>1, <2>2, <2>3
<1>11. \A c \in Blocks(f) : c \notin {t, e} => g.pre[c] = f.pre[c]
  BY <1>4, <1>8 DEF EdgeAdded, Branched
<1> QED
  BY <1>1, <1>8, <1>9, <1>10, <1>11 DEF Branched

-----------------------------------------------------------------------------
(***************************************************************************)
(* What lowering an expression at f.cur may have done to f: it branches to *)
(* new blocks only, which branch to new blocks only.                       *)
(***************************************************************************)
Within(f, g) ==
  /\ LastBlock(f) <= LastBlock(g)
  /\ \A b \in Blocks(f) : /\ g.pre[b] = f.pre[b]
                          /\ Plain(f, b) => Plain(g, b)
                          /\ b # f.cur => g.succ[b] = f.succ[b]
  /\ \A b \in Blocks(g) :
       b > LastBlock(f) \/ b = f.cur => ToSet(g.succ[b]) \subseteq LastBlock(f) + 1 .. LastBlock(g)

Lowered(f, g) ==
  /\ Body(g) /\ Within(f, g)
  /\ Open(g) = (Open(f) \ {f.cur}) \cup {g.cur}
  /\ g.cur = f.cur \/ g.cur > LastBlock(f)

(***************************************************************************)
(* The operands of a chain of && or || have been evaluated: operand k      *)
(* starts in start[k] and ends in the open block end[k].                   *)
(***************************************************************************)
Operands(f, h, start, end) ==
  /\ Body(h) /\ Within(f, h)
  /\ start \in Seq(Nat) /\ end \in Seq(Nat) /\ Len(start) = Len(end) /\ Len(end) > 0
  /\ end[1] = f.cur \/ end[1] > LastBlock(f)
  /\ \A k \in 2 .. Len(end) :
       /\ start[k] > LastBlock(f) /\ start[k] <= end[k]
       /\ Plain(h, start[k])
       /\ \A j \in 1 .. k - 1 : end[j] < start[k]
       /\ \A b \in start[k] .. LastBlock(h) : ToSet(h.succ[b]) \subseteq start[k] .. LastBlock(h)
  /\ Open(h) = (Open(f) \ {f.cur}) \cup {end[j] : j \in 1 .. Len(end)}

\* i operands have got their branches
Joining(f, h, start, end, i, g) ==
  LET cont == LastBlock(h) + 1
  IN  /\ Body(g) /\ Within(f, g) /\ LastBlock(g) = cont
      /\ Open(g) = (Open(f) \ {f.cur}) \cup {end[j] : j \in i + 1 .. Len(end)} \cup {cont}
      /\ Plain(g, cont)
      /\ Len(g.pre[cont]) = i /\ \A j \in 1 .. i : g.pre[cont][j] = end[j]
      /\ \A k \in 2 .. Len(end) : k > i =>
           /\ Plain(g, start[k])
           /\ \A b \in start[k] .. cont : ToSet(g.succ[b]) \subseteq start[k] .. cont

-----------------------------------------------------------------------------
\* The blocks of the operands are in the order they were created.
LEMMA OperandFacts ==
  ASSUME NEW f, Body(f), NEW h, NEW start, NEW end, Operands(f, h, start, end)
  PROVE  /\ LastBlock(f) \in Nat \ {0} /\ LastBlock(h) \in Nat /\ LastBlock(f) <= LastBlock(h)
         /\ Blocks(f) = 1 .. LastBlock(f) /\ Blocks(h) = 1 .. LastBlock(h)
         /\ Len(end) \in Nat \ {0}
         /\ \A j \in 1 .. Len(end) : /\ end[j] \in 1 .. LastBlock(h) /\ end[j] \in Open(h)
                                     /\ end[j] = f.cur \/ end[j] > LastBlock(f)
                                     /\ start[j] \in Nat
         /\ \A j, k \in 1 .. Len(end) : j < k => end[j] < start[k] /\ start[k] <= end[k]
         /\ \A k \in 2 .. Len(end) : start[k] \in LastBlock(f) + 1 .. LastBlock(h)
<1>1. /\ LastBlock(f) \in Nat /\ LastBlock(h) \in Nat
      /\ Blocks(f) = 1 .. LastBlock(f) /\ Blocks(h) = 1 .. LastBlock(h) /\ f.cur \in Blocks(f)
  BY BlocksAre DEF Body, Operands
<1>2. /\ Len(end) \in Nat \ {0} /\ LastBlock(f) <= LastBlock(h)
      /\ start \in Seq(Nat) /\ end \in Seq(Nat) /\ Len(start) = Len(end)
  BY DEF Operands, Within
<1>3. \A j \in 1 .. Len(end) : start[j] \in Nat /\ end[j] \in Nat
  BY <1>2
<1>4. \A j \in 1 .. Len(end) : end[j] \in Open(h)
  BY DEF Operands
<1>5. \A j \in 1 .. Len(end) : end[j] \in 1 .. LastBlock(h)
  BY <1>1, <1>4 DEF Open
<1>6. \A j, k \in 1 .. Len(end) : j < k => end[j] < start[k] /\ start[k] <= end[k]
  <2>1. \A j, k \in 1 .. Len(end) : j < k => k \in 2 .. Len(end) /\ j \in 1 .. k - 1
    BY <1>2
  <2> QED
    BY <2>1 DEF Operands
<1>7. \A k \in 2 .. Len(end) : start[k] \in LastBlock(f) + 1 .. LastBlock(h) /\ end[k] > LastBlock(f)
  <2>1. ASSUME NEW k \in 2 .. Len(end)
        PROVE  start[k] \in LastBlock(f) + 1 .. LastBlock(h) /\ end[k] > LastBlock(f)
    <3>1. start[k] > LastBlock(f) /\ start[k] <= end[k] /\ k \in 1 .. Len(end)
      BY <1>2 DEF Operands
    <3> QED
      BY <1>1, <1>2, <1>3, <1>5, <3>1
  <2> QED
    BY <2>1
<1>8. \A j \in 1 .. Len(end) : j = 1 \/ j \in 2 .. Len(end)
  BY <1>2
<1>9. \A j \in 1 .. Len(end) : end[j] = f.cur \/ end[j] > LastBlock(f)
  BY <1>7, <1>8 DEF Operands
<1> QED
  BY <1>1, <1>2, <1>3, <1>4, <1>5, <1>6, <1>7, <1>9

\* cont_BB is there, and no operand has its branch yet.
LEMMA JoinStarts ==
  ASSUME NEW f, Body(f), NEW h, NEW start, NEW end, Operands(f, h, start, end)
  PROVE  Joining(f, h, start, end, 0, NewBlock(h))
<1>1. PICK g : g = NewBlock(h)
  OBVIOUS
<1>2. PICK cont : cont = LastBlock(h) + 1
  OBVIOUS
<1>3. Body(h) /\ Within(f, h)
  BY DEF Operands
<1>4. /\ Body(g)
      /\ g.cur = h.cur /\ LastBlock(g) = cont /\ Blocks(g) = Blocks(h) \cup {cont}
      /\ g.succ[cont] = << >> /\ g.pre[cont] = << >>
      /\ \A b \in Blocks(h) : g.succ[b] = h.succ[b] /\ g.pre[b] = h.pre[b]
      /\ Open(g) = Open(h) \cup {cont}
      /\ Plain(g, cont)
      /\ \A b \in Blocks(h) : Plain(g, b) <=> Plain(h, b)
  BY <1>1, <1>2, <1>3, NewBlockKeeps
<1>5. /\ LastBlock(f) \in Nat \ {0} /\ LastBlock(h) \in Nat /\ LastBlock(f) <= LastBlock(h)
      /\ Blocks(f) = 1 .. LastBlock(f) /\ Blocks(h) = 1 .. LastBlock(h)
      /\ \A k \in 2 .. Len(end) : start[k] \in LastBlock(f) + 1 .. LastBlock(h)
  BY OperandFacts
<1>6. ToSet(g.succ[cont]) = {}
  BY <1>4 DEF ToSet
<1>7. Within(f, g)
  <2>1. LastBlock(f) <= LastBlock(g) /\ Blocks(f) \subseteq Blocks(h)
    BY <1>2, <1>4, <1>5
  <2>2. \A b \in Blocks(f) : /\ g.pre[b] = f.pre[b] /\ (Plain(f, b) => Plain(g, b))
                             /\ b # f.cur => g.succ[b] = f.succ[b]
    BY <1>3, <1>4, <2>1 DEF Within
  <2>3. ASSUME NEW b \in Blocks(g), b > LastBlock(f) \/ b = f.cur
        PROVE  ToSet(g.succ[b]) \subseteq LastBlock(f) + 1 .. LastBlock(g)
    <3>1. CASE b = cont
      BY <1>6, <3>1
    <3>2. CASE b \in Blocks(h)
      <4>1. ToSet(h.succ[b]) \subseteq LastBlock(f) + 1 .. LastBlock(h)
        BY <1>3, <2>3, <3>2 DEF Within
      <4> QED
        BY <1>2, <1>4, <1>5, <3>2, <4>1
    <3> QED
      BY <1>4, <3>1, <3>2
  <2> QED
    BY <2>1, <2>2, <2>3 DEF Within
<1>8. Open(g) = (Open(f) \ {f.cur}) \cup {end[j] : j \in 0 + 1 .. Len(end)} \cup {cont}
  BY <1>4 DEF Operands
<1>9. ASSUME NEW k \in 2 .. Len(end)
      PROVE  /\ Plain(g, start[k])
             /\ \A b \in start[k] .. cont : ToSet(g.succ[b]) \subseteq start[k] .. cont
  <2>1. start[k] \in Blocks(h) /\ start[k] \in Nat
    BY <1>5
  <2>2. /\ Plain(h, start[k])
        /\ \A b \in start[k] .. LastBlock(h) : ToSet(h.succ[b]) \subseteq start[k] .. LastBlock(h)
    BY DEF Operands
  <2>3. ASSUME NEW b \in start[k] .. cont PROVE ToSet(g.succ[b]) \subseteq start[k] .. cont
    <3>1. CASE b = cont
      BY <1>6, <3>1
    <3>2. CASE b \in start[k] .. LastBlock(h) /\ b \in Blocks(h)
      <4>1. ToSet(h.succ[b]) \subseteq start[k] .. LastBlock(h) /\ g.succ[b] = h.succ[b]
        BY <1>4, <2>2, <3>2
      <4> QED
        BY <1>2, <1>5, <2>1, <4>1
    <3> QED
      BY <1>2, <1>5, <2>1, <3>1, <3>2
  <2> QED
    BY <1>4, <2>1, <2>2, <2>3
<1>10. Len(g.pre[cont]) = 0
  BY <1>4
<1> QED
  BY <1>1, <1>2, <1>4, <1>7, <1>8, <1>9, <1>10 DEF Joining

\* Operand i may branch to the next one and to cont_BB.
LEMMA JoinMayBranch ==
  ASSUME NEW f, Body(f), NEW h, NEW start, NEW end, Operands(f, h, start, end),
         NEW i \in 1 .. Len(end), NEW g, Joining(f, h, start, end, i - 1, g),
         NEW r, r = SetInsert(g, end[i])
  PROVE  /\ Body(r) /\ r.cur = end[i] /\ r.cur \in Open(r)
         /\ r.succ = g.succ /\ r.pre = g.pre /\ LastBlock(r) = LastBlock(h) + 1
         /\ Blocks(r) = Blocks(g) /\ Open(r) = Open(g)
         /\ \A c \in Blocks(g) : Plain(r, c) <=> Plain(g, c)
         /\ MayBranch(r, end[i], LastBlock(h) + 1)
         /\ i < Len(end) =>
              MayBranch(r, end[i], start[i + 1]) /\ start[i + 1] # LastBlock(h) + 1
<1>0. PICK cont : cont = LastBlock(h) + 1
  OBVIOUS
<1>1. /\ LastBlock(f) \in Nat \ {0} /\ LastBlock(h) \in Nat /\ LastBlock(f) <= LastBlock(h)
      /\ Blocks(f) = 1 .. LastBlock(f) /\ Blocks(h) = 1 .. LastBlock(h)
      /\ Len(end) \in Nat \ {0}
      /\ end[i] \in 1 .. LastBlock(h) /\ end[i] \in Open(h)
      /\ \A k \in 1 .. Len(end) : i < k => end[i] < start[k] /\ start[k] <= end[k]
      /\ \A k \in 2 .. Len(end) : start[k] \in LastBlock(f) + 1 .. LastBlock(h)
  BY OperandFacts
<1>2. /\ Body(g) /\ LastBlock(g) = cont
      /\ Open(g) = (Open(f) \ {f.cur}) \cup {end[j] : j \in (i - 1) + 1 .. Len(end)} \cup {cont}
      /\ Plain(g, cont)
      /\ \A k \in 2 .. Len(end) : k > i - 1 =>
           /\ Plain(g, start[k])
           /\ \A b \in start[k] .. cont : ToSet(g.succ[b]) \subseteq start[k] .. cont
  BY <1>0 DEF Joining
<1>3. Blocks(g) = 1 .. cont
  BY <1>2, BlocksAre DEF Body
<1>4. end[i] \in Blocks(g) /\ end[i] \in Open(g) /\ cont \in Blocks(g) /\ cont # end[i] /\ cont # Entry
  BY <1>0, <1>1, <1>2, <1>3 DEF Entry
<1>5. /\ Body(r) /\ r.cur = end[i] /\ r.succ = g.succ /\ r.pre = g.pre
      /\ LastBlock(r) = LastBlock(g) /\ Blocks(r) = Blocks(g) /\ Open(r) = Open(g)
      /\ \A c \in Blocks(g) : Plain(r, c) <=> Plain(g, c)
  BY <1>2, <1>4, SetInsertKeeps
<1>6. r.succ[end[i]] = << >> /\ r.succ[cont] = << >>
  BY <1>2, <1>4, <1>5, OpenEdges
<1>7. ToSet(r.succ[end[i]]) = {} /\ ToSet(r.succ[cont]) = {}
  BY <1>6 DEF ToSet
<1>8. Sep(r, cont, end[i])
  <2>1. {cont} \in SUBSET Blocks(r) /\ cont \in {cont} /\ end[i] \notin {cont}
    BY <1>4, <1>5
  <2>2. \A z \in {cont} : ToSet(r.succ[z]) \subseteq {cont}
    BY <1>7
  <2> QED
    BY <2>1, <2>2 DEF Sep
<1>9. MayBranch(r, end[i], cont)
  BY <1>2, <1>4, <1>5, <1>7, <1>8 DEF MayBranch
<1>10. ASSUME i < Len(end) PROVE MayBranch(r, end[i], start[i + 1]) /\ start[i + 1] # cont
  <2>1. i + 1 \in 2 .. Len(end) /\ i + 1 \in 1 .. Len(end) /\ i < i + 1 /\ i + 1 > i - 1
    BY <1>1, <1>10
  <2>2. PICK t : t = start[i + 1]
    OBVIOUS
  <2>3. /\ t \in LastBlock(f) + 1 .. LastBlock(h) /\ end[i] < t /\ Plain(g, t)
        /\ \A b \in t .. cont : ToSet(g.succ[b]) \subseteq t .. cont
    BY <1>1, <1>2, <2>1, <2>2
  <2>4. t \in Blocks(g) \ {end[i], Entry} /\ t # cont /\ end[i] \notin t .. cont
        /\ t .. cont \in SUBSET Blocks(g) /\ t \in t .. cont
    BY <1>0, <1>1, <1>3, <2>3 DEF Entry
  <2>5. Sep(r, t, end[i])
    BY <1>5, <2>3, <2>4 DEF Sep
  <2> QED
    BY <1>5, <1>7, <2>2, <2>3, <2>4, <2>5 DEF MayBranch
<1> QED
  BY <1>0, <1>2, <1>4, <1>5, <1>9, <1>10

\* The branch of operand i leaves the operands after it as they were.
LEMMA JoinStep ==
  ASSUME NEW f, Body(f), NEW h, NEW start, NEW end, Operands(f, h, start, end),
         NEW i \in 1 .. Len(end), NEW g, Joining(f, h, start, end, i - 1, g),
         NEW r, r = SetInsert(g, end[i]),
         NEW T, T = {LastBlock(h) + 1} \cup (IF i < Len(end) THEN {start[i + 1]} ELSE {}),
         NEW s, Body(s), Branched(r, s, T)
  PROVE  Joining(f, h, start, end, i, s)
<1>0. PICK cont : cont = LastBlock(h) + 1
  OBVIOUS
<1>1. /\ LastBlock(f) \in Nat \ {0} /\ LastBlock(h) \in Nat /\ LastBlock(f) <= LastBlock(h)
      /\ Blocks(f) = 1 .. LastBlock(f)
      /\ Len(end) \in Nat \ {0} /\ i \in Nat
      /\ \A j \in 1 .. Len(end) : end[j] \in 1 .. LastBlock(h) /\ start[j] \in Nat
      /\ \A j, k \in 1 .. Len(end) : j < k => end[j] < start[k] /\ start[k] <= end[k]
      /\ \A k \in 2 .. Len(end) : start[k] \in LastBlock(f) + 1 .. LastBlock(h)
      /\ end[i] = f.cur \/ end[i] > LastBlock(f)
  BY OperandFacts
<1>2. /\ Body(g) /\ Within(f, g) /\ LastBlock(g) = cont
      /\ Open(g) = (Open(f) \ {f.cur}) \cup {end[j] : j \in (i - 1) + 1 .. Len(end)} \cup {cont}
      /\ Plain(g, cont)
      /\ Len(g.pre[cont]) = i - 1 /\ \A j \in 1 .. i - 1 : g.pre[cont][j] = end[j]
      /\ \A k \in 2 .. Len(end) : k > i - 1 =>
           /\ Plain(g, start[k])
           /\ \A b \in start[k] .. cont : ToSet(g.succ[b]) \subseteq start[k] .. cont
  BY <1>0 DEF Joining
<1>3. /\ Blocks(g) = 1 .. cont /\ g.pre[cont] \in Seq(Nat)
  BY <1>0, <1>1, <1>2, BlocksAre DEF Body
<1>4. /\ r.cur = end[i] /\ r.succ = g.succ /\ r.pre = g.pre /\ LastBlock(r) = cont
      /\ Blocks(r) = Blocks(g) /\ Open(r) = Open(g)
      /\ \A c \in Blocks(g) : Plain(r, c) <=> Plain(g, c)
  BY <1>0, JoinMayBranch
<1>5. /\ LastBlock(s) = cont /\ Blocks(s) = Blocks(g)
      /\ Open(s) = Open(g) \ {end[i]}
      /\ ToSet(s.succ[end[i]]) = T
      /\ \A c \in Blocks(g) : c # end[i] => s.succ[c] = g.succ[c]
      /\ \A c \in T : s.pre[c] = Append(g.pre[c], end[i])
      /\ \A c \in Blocks(g) : c \notin T => s.pre[c] = g.pre[c]
      /\ \A c \in Blocks(g) : Plain(s, c) <=> Plain(g, c)
  BY <1>4 DEF Branched
<1>6. T \subseteq LastBlock(f) + 1 .. cont /\ cont \in T
  <2>1. i < Len(end) => i + 1 \in 2 .. Len(end)
    BY <1>1
  <2> QED
    BY <1>0, <1>1, <2>1
<1>7. Within(f, s)
  <2>1. Blocks(f) \subseteq Blocks(g) /\ LastBlock(f) <= LastBlock(s)
    BY <1>0, <1>1, <1>3, <1>5
  <2>2. \A b \in Blocks(f) : b \notin T /\ (b # f.cur => b # end[i])
    BY <1>1, <1>6
  <2>3. \A b \in Blocks(f) : /\ s.pre[b] = f.pre[b] /\ (Plain(f, b) => Plain(s, b))
                             /\ b # f.cur => s.succ[b] = f.succ[b]
    BY <1>2, <1>5, <2>1, <2>2 DEF Within
  <2>4. ASSUME NEW b \in Blocks(s), b > LastBlock(f) \/ b = f.cur
        PROVE  ToSet(s.succ[b]) \subseteq LastBlock(f) + 1 .. LastBlock(s)
    <3>1. CASE b = end[i]
      BY <1>5, <1>6, <3>1
    <3>2. CASE b # end[i]
      BY <1>2, <1>5, <2>4, <3>2 DEF Within
    <3> QED
      BY <3>1, <3>2
  <2> QED
    BY <2>1, <2>3, <2>4 DEF Within
<1>8. Open(s) = (Open(f) \ {f.cur}) \cup {end[j] : j \in i + 1 .. Len(end)} \cup {cont}
  <2>1. \A j \in i + 1 .. Len(end) : end[i] # end[j]
    <3>1. \A j \in i + 1 .. Len(end) : j \in 1 .. Len(end) /\ i < j
      BY <1>1
    <3> QED
      BY <1>1, <3>1
  <2>2. end[i] # cont /\ end[i] \notin Open(f) \ {f.cur}
    BY <1>0, <1>1 DEF Open
  <2>3. \A j : j \in (i - 1) + 1 .. Len(end) <=> j = i \/ j \in i + 1 .. Len(end)
    BY <1>1
  <2> QED
    BY <1>2, <1>5, <2>1, <2>2, <2>3
<1>9. Plain(s, cont) /\ Len(s.pre[cont]) = i /\ \A j \in 1 .. i : s.pre[cont][j] = end[j]
  <2>0. cont \in Nat /\ cont \in Blocks(g) /\ end[i] \in Nat
    BY <1>0, <1>1, <1>3
  <2>1. s.pre[cont] = Append(g.pre[cont], end[i])
    BY <1>5, <1>6
  <2>2. \A j \in 1 .. i : j = i \/ j \in 1 .. i - 1
    BY <1>1
  <2>3. Len(s.pre[cont]) = i /\ s.pre[cont][i] = end[i]
        /\ \A j \in 1 .. i - 1 : s.pre[cont][j] = g.pre[cont][j]
    BY <1>1, <1>2, <1>3, <2>0, <2>1
  <2> QED
    BY <1>2, <1>5, <2>0, <2>2, <2>3
<1>10. ASSUME NEW k \in 2 .. Len(end), k > i
       PROVE  /\ Plain(s, start[k])
              /\ \A b \in start[k] .. cont : ToSet(s.succ[b]) \subseteq start[k] .. cont
  <2>1. k > i - 1 /\ k \in 1 .. Len(end) /\ start[k] \in 1 .. cont /\ start[k] > end[i]
    BY <1>0, <1>1, <1>10
  <2>2. \A b \in start[k] .. cont : b # end[i] /\ b \in Blocks(g)
    BY <1>0, <1>1, <1>3, <2>1
  <2> QED
    BY <1>2, <1>3, <1>5, <2>1, <2>2
<1> QED
  BY <1>0, <1>5, <1>7, <1>8, <1>9, <1>10 DEF Joining

\* Two sequences of the same elements are equal.
LEMMA SeqsEqual ==
  ASSUME NEW S, NEW s \in Seq(S), NEW t \in Seq(S), Len(s) = Len(t),
         \A i \in 1 .. Len(s) : s[i] = t[i]
  PROVE  s = t
<1>1. s \in [1 .. Len(s) -> S] /\ t \in [1 .. Len(s) -> S]
  OBVIOUS
<1> QED
  BY <1>1

\* The last branch and the phi complete the lowering of the chain.
LEMMA JoinEnds ==
  ASSUME NEW f, Body(f), NEW h, NEW start, NEW end, Operands(f, h, start, end),
         NEW g, Joining(f, h, start, end, Len(end) - 1, g),
         NEW w, w = Join(g, end, LastBlock(h) + 1)
  PROVE  Lowered(f, w)
<1>0. PICK cont, n : cont = LastBlock(h) + 1 /\ n = Len(end)
  OBVIOUS
<1>1. /\ LastBlock(f) \in Nat \ {0} /\ LastBlock(h) \in Nat /\ LastBlock(f) <= LastBlock(h)
      /\ Blocks(f) = 1 .. LastBlock(f) /\ n \in Nat \ {0}
  BY <1>0, OperandFacts
<1>2. PICK r : r = SetInsert(g, end[n])
  OBVIOUS
<1>3. PICK s : s = Br(r, cont)
  OBVIOUS
<1>4. PICK u : u = SetInsert(s, cont)
  OBVIOUS
<1>5. w = AddInstrBegin(u, cont, CondPhi(end))
  BY <1>0, <1>2, <1>3, <1>4 DEF Join, Last
<1>6. n \in 1 .. Len(end) /\ ~(n < Len(end)) /\ Joining(f, h, start, end, n - 1, g)
  BY <1>0, <1>1
<1>7. Body(r) /\ r.cur \in Open(r) /\ MayBranch(r, r.cur, cont)
  <2>1. Body(r) /\ r.cur = end[n] /\ r.cur \in Open(r)
    BY <1>2, <1>6, JoinMayBranch
  <2>2. MayBranch(r, end[n], LastBlock(h) + 1)
    BY <1>2, <1>6, JoinMayBranch
  <2> QED
    BY <1>0, <2>1, <2>2
<1>8. Body(s) /\ Branched(r, s, {cont})
  BY <1>3, <1>7, BrKeeps
<1>9. Joining(f, h, start, end, n, s)
  <2>1. PICK T : T = {LastBlock(h) + 1} \cup (IF n < Len(end) THEN {start[n + 1]} ELSE {})
    OBVIOUS
  <2>2. T = {cont}
    BY <1>0, <1>6, <2>1
  <2> QED
    BY <1>2, <1>6, <1>8, <2>1, <2>2, JoinStep
<1>10. /\ Within(f, s) /\ LastBlock(s) = cont
       /\ Open(s) = (Open(f) \ {f.cur}) \cup {end[j] : j \in n + 1 .. n} \cup {cont}
       /\ Len(s.pre[cont]) = n /\ \A j \in 1 .. n : s.pre[cont][j] = end[j]
  BY <1>0, <1>9 DEF Joining
<1>11. Open(s) = (Open(f) \ {f.cur}) \cup {cont}
  <2>1. n + 1 .. n = {}
    BY <1>1
  <2>2. {end[j] : j \in n + 1 .. n} = {}
    BY <2>1
  <2> QED
    BY <1>10, <2>2
<1>12. cont \in Blocks(s) /\ s.pre[cont] \in Seq(Nat)
  BY <1>0, <1>1, <1>8, <1>10, BlocksAre DEF Body
<1>13. s.pre[cont] = end
  <2>1. end \in Seq(Nat)
    BY DEF Operands
  <2> QED
    BY <1>0, <1>10, <1>12, <2>1, SeqsEqual
<1>14. /\ Body(u) /\ u.cur = cont /\ u.succ = s.succ /\ u.pre = s.pre
       /\ LastBlock(u) = cont /\ Blocks(u) = Blocks(s) /\ Open(u) = Open(s)
       /\ \A c \in Blocks(s) : Plain(u, c) <=> Plain(s, c)
  BY <1>4, <1>8, <1>10, <1>12, SetInsertKeeps
<1>15. w = AddInstrBegin(u, cont, CondPhi(u.pre[cont]))
  BY <1>5, <1>13, <1>14
<1>16. /\ Body(w) /\ w.cur = cont /\ w.succ = s.succ /\ w.pre = s.pre
       /\ LastBlock(w) = cont /\ Blocks(w) = Blocks(s) /\ Open(w) = Open(s)
       /\ \A c \in Blocks(s) : c # cont => (Plain(w, c) <=> Plain(u, c))
  BY <1>12, <1>14, <1>15, AddInstrBeginKeeps
<1>17. cont > LastBlock(f)
  BY <1>0, <1>1
<1>18. Within(f, w)
  <2>1. \A b \in Blocks(f) : b \in Blocks(s) /\ b # cont
    BY <1>0, <1>1, <1>8, <1>10, BlocksAre DEF Body
  <2>2. \A b \in Blocks(f) : Plain(w, b) <=> Plain(s, b)
    BY <1>14, <1>16, <2>1
  <2>3. LastBlock(w) = LastBlock(s)
    BY <1>10, <1>16
  <2> QED
    BY <1>10, <1>16, <2>2, <2>3 DEF Within
<1> QED
  BY <1>11, <1>16, <1>17, <1>18 DEF Lowered

-----------------------------------------------------------------------------
(***************************************************************************)
(* && chains: one new block per operand after the first, then the branches *)
(* and the phi.                                                            *)
(***************************************************************************)
\* A block of its own for an operand.
LEMMA StartBlockKeeps ==
  ASSUME NEW f, Body(f), NEW g, g = StartBlock(f), NEW n, n = LastBlock(f) + 1
  PROVE  /\ Body(g)
         /\ g.cur = n /\ LastBlock(g) = n /\ Blocks(g) = Blocks(f) \cup {n} /\ n \notin Blocks(f)
         /\ g.succ[n] = << >> /\ g.pre[n] = << >>
         /\ \A b \in Blocks(f) : g.succ[b] = f.succ[b] /\ g.pre[b] = f.pre[b]
         /\ Open(g) = Open(f) \cup {n}
         /\ Plain(g, n)
         /\ \A b \in Blocks(f) : Plain(g, b) <=> Plain(f, b)
<1>1. PICK h : h = NewBlock(f)
  OBVIOUS
<1>2. /\ Body(h) /\ LastBlock(h) = n /\ Blocks(h) = Blocks(f) \cup {n} /\ n \notin Blocks(f)
      /\ h.succ[n] = << >> /\ h.pre[n] = << >>
      /\ \A b \in Blocks(f) : h.succ[b] = f.succ[b] /\ h.pre[b] = f.pre[b]
      /\ Open(h) = Open(f) \cup {n}
      /\ Plain(h, n)
      /\ \A b \in Blocks(f) : Plain(h, b) <=> Plain(f, b)
  BY <1>1, NewBlockKeeps
<1>3. g = SetInsert(h, n) /\ n \in Blocks(h)
  BY <1>1, <1>2 DEF StartBlock
<1>4. /\ Body(g) /\ g.cur = n /\ g.succ = h.succ /\ g.pre = h.pre
      /\ LastBlock(g) = LastBlock(h) /\ Blocks(g) = Blocks(h) /\ Open(g) = Open(h)
      /\ \A c \in Blocks(h) : Plain(g, c) <=> Plain(h, c)
  BY <1>2, <1>3, SetInsertKeeps
<1> QED
  BY <1>2, <1>4

\* i operands of a && chain after the first have got their blocks
Chained(f, i, g) ==
  LET L == LastBlock(f)
  IN  /\ Body(g) /\ LastBlock(g) = L + i
      /\ Open(g) = Open(f) \cup (L + 1 .. L + i) /\ g.cur \in Open(g)
      /\ \A b \in Blocks(f) : /\ g.succ[b] = f.succ[b] /\ g.pre[b] = f.pre[b]
                              /\ Plain(f, b) => Plain(g, b)
      /\ \A b \in L + 1 .. L + i : Plain(g, b)

\* One more operand of a && chain.
LEMMA ChainStep ==
  ASSUME NEW f, Body(f), NEW i \in Nat, NEW g, Chained(f, i, g), NEW s, NEW e,
         NEW w, w = Eval(StartBlock(g), s, e)
  PROVE  Chained(f, i + 1, w)
<1>0. PICK L, n : L = LastBlock(f) /\ n = LastBlock(g) + 1
  OBVIOUS
<1>1. PICK h : h = StartBlock(g)
  OBVIOUS
<1>2. /\ Body(g) /\ LastBlock(g) = L + i
      /\ Open(g) = Open(f) \cup (L + 1 .. L + i)
      /\ \A b \in Blocks(f) : /\ g.succ[b] = f.succ[b] /\ g.pre[b] = f.pre[b]
                              /\ Plain(f, b) => Plain(g, b)
      /\ \A b \in L + 1 .. L + i : Plain(g, b)
  BY <1>0 DEF Chained
<1>3. /\ L \in Nat /\ Blocks(f) = 1 .. L /\ Blocks(g) = 1 .. L + i /\ n = L + (i + 1)
  BY <1>0, <1>2, BlocksAre DEF Body
<1>4. /\ Body(h)
      /\ h.cur = n /\ LastBlock(h) = n
      /\ \A b \in Blocks(g) : h.succ[b] = g.succ[b] /\ h.pre[b] = g.pre[b]
      /\ Open(h) = Open(g) \cup {n}
      /\ Plain(h, n)
      /\ \A b \in Blocks(g) : Plain(h, b) <=> Plain(g, b)
      /\ Blocks(h) = Blocks(g) \cup {n}
  BY <1>0, <1>1, <1>2, StartBlockKeeps
<1>5. Body(w) /\ SameGraph(h, w)
  BY <1>1, <1>4, EvalKeeps
<1>6. L + 1 .. L + (i + 1) = (L + 1 .. L + i) \cup {n} /\ \A b \in Blocks(f) : b \in Blocks(g)
  BY <1>3
<1>7. /\ w.succ = h.succ /\ w.pre = h.pre /\ w.cur = h.cur
      /\ LastBlock(w) = LastBlock(h) /\ Open(w) = Open(h)
      /\ \A b \in Blocks(h) : Plain(w, b) <=> Plain(h, b)
  BY <1>5 DEF SameGraph
<1>8. Open(w) = Open(f) \cup (L + 1 .. L + (i + 1)) /\ w.cur \in Open(w) /\ LastBlock(w) = L + (i + 1)
  BY <1>2, <1>3, <1>4, <1>6, <1>7
<1>9. \A b \in Blocks(f) : /\ w.succ[b] = f.succ[b] /\ w.pre[b] = f.pre[b]
                           /\ Plain(f, b) => Plain(w, b)
  BY <1>2, <1>4, <1>6, <1>7
<1>10. \A b \in L + 1 .. L + (i + 1) : Plain(w, b)
  <2>1. \A b \in L + 1 .. L + i : b \in Blocks(g)
    BY <1>3
  <2> QED
    BY <1>2, <1>4, <1>6, <1>7, <2>1
<1> QED
  BY <1>0, <1>5, <1>8, <1>9, <1>10 DEF Chained

\* The operands of a && chain as a run; env is the scope and the operand.
AndStep(env, g, i) == Eval(StartBlock(g), env[1], env[2])

AndKnown(f, n, g) == Chained(f, n, g)

Ands == INSTANCE IterateProofs WITH step <- AndStep, known <- AndKnown

\* The first operand of a && chain is evaluated where the chain starts.
LEMMA EvalStarts ==
  ASSUME NEW f, Body(f), f.cur \in Open(f), NEW s, NEW e
  PROVE  Chained(f, 0, Eval(f, s, e))
<1>1. PICK g : g = Eval(f, s, e)
  OBVIOUS
<1>2. Body(g) /\ SameGraph(f, g)
  BY <1>1, EvalKeeps
<1>3. PICK L : L = LastBlock(f)
  OBVIOUS
<1>4. L \in Nat /\ L + 1 .. L + 0 = {} /\ L + 0 = L
  BY <1>3, BlocksAre DEF Body
<1> QED
  BY <1>1, <1>2, <1>3, <1>4 DEF SameGraph, Chained

\* All operands of a && chain have got their blocks.
LEMMA AndOperandsChained ==
  ASSUME NEW f, Body(f), f.cur \in Open(f), NEW s, NEW e, NEW n \in Nat \ {0},
         NEW h, h = AndOperands(f, s, e, n)
  PROVE  Chained(f, n - 1, h)
<1>1. PICK seq : seq = [i \in 1 .. n - 1 |-> i]
  OBVIOUS
<1>2. Len(seq) = n - 1 /\ Len(seq) \in Nat /\ \A i \in 1 .. Len(seq) : i - 1 \in Nat /\ (i - 1) + 1 = i
  <2>1. seq \in [1 .. n - 1 -> Nat] /\ n - 1 \in Nat
    BY <1>1
  <2>2. Len(seq) = n - 1 /\ Len(seq) \in Nat
    BY <2>1, FunSeq
  <2> QED
    BY <2>1, <2>2
<1>e. PICK env : s = env[1] /\ e = env[2]
  <2>1. s = <<s, e>>[1] /\ e = <<s, e>>[2]
    OBVIOUS
  <2> QED
    BY <2>1
<1>3. h = Ands!Run(env, Eval(f, s, e), seq)
  BY <1>1, <1>e DEF AndOperands, RunThrough, Ands!Run, Ands!RunThrough, AndStep
<1>4. AndKnown(f, 0, Eval(f, s, e))
  BY EvalStarts DEF AndKnown
<1>5. ASSUME NEW i \in 1 .. Len(seq), NEW g, AndKnown(f, i - 1, g)
      PROVE  AndKnown(f, i, AndStep(env, g, seq[i]))
  <2>1. Chained(f, (i - 1) + 1, Eval(StartBlock(g), s, e))
    BY <1>2, <1>5, ChainStep DEF AndKnown
  <2> QED
    BY <1>2, <1>e, <2>1 DEF AndKnown, AndStep
<1>6. AndKnown(f, Len(seq), h)
  BY <1>2, <1>3, <1>4, <1>5, Ands!RunRule
<1> QED
  BY <1>2, <1>6 DEF AndKnown

\* One more operand of a chain has got its branch, in either order of its targets.
LEMMA BranchStep ==
  ASSUME NEW f, Body(f), NEW h, NEW start, NEW end, Operands(f, h, start, end),
         NEW i \in 1 .. Len(end), i < Len(end), NEW g, Joining(f, h, start, end, i - 1, g),
         NEW cont, cont = LastBlock(h) + 1
  PROVE  /\ Joining(f, h, start, end, i, CondBr(SetInsert(g, end[i]), start[i + 1], cont))
         /\ Joining(f, h, start, end, i, CondBr(SetInsert(g, end[i]), cont, start[i + 1]))
<1>1. PICK r : r = SetInsert(g, end[i])
  OBVIOUS
<1>2. PICK t : t = start[i + 1]
  OBVIOUS
<1>3. Body(r) /\ r.cur = end[i] /\ r.cur \in Open(r)
  <2>1. Body(r) /\ r.cur = end[i]
    BY <1>1, JoinMayBranch
  <2>2. r.cur \in Open(r)
    BY <1>1, JoinMayBranch
  <2> QED
    BY <2>1, <2>2
<1>4. MayBranch(r, end[i], LastBlock(h) + 1)
  BY <1>1, JoinMayBranch
<1>5. MayBranch(r, end[i], start[i + 1]) /\ start[i + 1] # LastBlock(h) + 1
  BY <1>1, JoinMayBranch
<1>6. MayBranch(r, r.cur, cont) /\ MayBranch(r, r.cur, t) /\ t # cont
  BY <1>2, <1>3, <1>4, <1>5
<1>7. ASSUME NEW s, s = CondBr(r, t, cont) \/ s = CondBr(r, cont, t)
      PROVE  Joining(f, h, start, end, i, s)
  <2>1. Body(s) /\ Branched(r, s, {cont, t})
    <3>1. CASE s = CondBr(r, t, cont)
      <4>1. Body(s) /\ Branched(r, s, {t, cont})
        BY <1>3, <1>6, <3>1, CondBrKeeps
      <4>2. {t, cont} = {cont, t}
        OBVIOUS
      <4> QED
        BY <4>1, <4>2
    <3>2. CASE s = CondBr(r, cont, t)
      BY <1>3, <1>6, <3>2, CondBrKeeps
    <3> QED
      BY <1>7, <3>1, <3>2
  <2>2. PICK T : T = {LastBlock(h) + 1} \cup (IF i < Len(end) THEN {start[i + 1]} ELSE {})
    OBVIOUS
  <2>3. T = {cont, t}
    BY <1>2, <2>2
  <2>4. Body(s) /\ Branched(r, s, T)
    BY <2>1, <2>3
  <2> QED
    BY <1>1, <2>2, <2>4, JoinStep
<1> QED
  BY <1>1, <1>2, <1>7

JoinKnown(hyp, n, g) == Joining(hyp[1], hyp[2], hyp[3], hyp[4], n, g)

\* The branches of a chain as runs; env is the blocks and cont_BB.
AndBranch(env, g, i) == CondBr(SetInsert(g, env[1][i]), env[1][i + 1], env[2])

OrBranch(env, g, i) == CondBr(SetInsert(g, env[1].end[i]), env[2], env[1].start[i + 1])

AndJoins == INSTANCE IterateProofs WITH step <- AndBranch, known <- JoinKnown
OrJoins  == INSTANCE IterateProofs WITH step <- OrBranch, known <- JoinKnown

\* The numbers 1 .. n - 1 as a sequence.
LEMMA UpTo ==
  ASSUME NEW n \in Nat \ {0}, NEW seq, seq = [i \in 1 .. n - 1 |-> i]
  PROVE  /\ Len(seq) = n - 1 /\ Len(seq) \in Nat
         /\ \A i \in 1 .. Len(seq) : seq[i] = i /\ i \in 1 .. n /\ i < n
<1>1. seq \in [1 .. n - 1 -> Nat] /\ n - 1 \in Nat
  OBVIOUS
<1>2. Len(seq) = n - 1 /\ Len(seq) \in Nat
  BY <1>1, FunSeq
<1> QED
  BY <1>1, <1>2

\* A && chain whose operands are evaluated is lowered by joining them.
LEMMA JoinAndLowers ==
  ASSUME NEW f, Body(f), NEW h, NEW bb, Operands(f, h, bb, bb),
         NEW cont, cont = LastBlock(h) + 1
  PROVE  Lowered(f, JoinAnd(h, bb, cont))
<1>1. PICK seq : seq = [i \in 1 .. Len(bb) - 1 |-> i]
  OBVIOUS
<1>2. Len(bb) \in Nat \ {0}
  BY OperandFacts
<1>3. /\ Len(seq) = Len(bb) - 1 /\ Len(seq) \in Nat
      /\ \A i \in 1 .. Len(seq) : seq[i] = i /\ i \in 1 .. Len(bb) /\ i < Len(bb)
  BY <1>1, <1>2, UpTo
<1>4. PICK env : bb = env[1] /\ cont = env[2]
  <2>1. bb = <<bb, cont>>[1] /\ cont = <<bb, cont>>[2]
    OBVIOUS
  <2> QED
    BY <2>1
<1>5. PICK hyp : f = hyp[1] /\ h = hyp[2] /\ bb = hyp[3] /\ bb = hyp[4]
  <2>1. /\ f = <<f, h, bb, bb>>[1] /\ h = <<f, h, bb, bb>>[2]
        /\ bb = <<f, h, bb, bb>>[3] /\ bb = <<f, h, bb, bb>>[4]
    OBVIOUS
  <2> QED
    BY <2>1
<1>6. PICK g : g = AndJoins!Run(env, NewBlock(h), seq)
  OBVIOUS
<1>7. JoinAnd(h, bb, cont) = Join(g, bb, cont)
  <2>1. JoinAnd(h, env[1], env[2])
        = Join(AndJoins!Run(env, NewBlock(h), [i \in 1 .. Len(env[1]) - 1 |-> i]), env[1], env[2])
    BY DEF JoinAnd, RunThrough, AndJoins!Run, AndJoins!RunThrough, AndBranch
  <2> QED
    BY <1>1, <1>4, <1>6, <2>1
<1>8. JoinKnown(hyp, 0, NewBlock(h))
  BY <1>5, JoinStarts DEF JoinKnown
<1>9. ASSUME NEW i \in 1 .. Len(seq), NEW x, JoinKnown(hyp, i - 1, x)
      PROVE  JoinKnown(hyp, i, AndBranch(env, x, seq[i]))
  <2>1. Joining(f, h, bb, bb, i - 1, x) /\ i \in 1 .. Len(bb) /\ i < Len(bb)
    BY <1>3, <1>5, <1>9 DEF JoinKnown
  <2>2. Joining(f, h, bb, bb, i, CondBr(SetInsert(x, bb[i]), bb[i + 1], cont))
    BY <2>1, BranchStep
  <2> QED
    BY <1>3, <1>4, <1>5, <2>2 DEF JoinKnown, AndBranch
<1>10. JoinKnown(hyp, Len(seq), g)
  BY <1>3, <1>6, <1>8, <1>9, AndJoins!RunRule
<1>11. Joining(f, h, bb, bb, Len(bb) - 1, g)
  BY <1>3, <1>5, <1>10 DEF JoinKnown
<1> QED
  BY <1>7, <1>11, JoinEnds

\* A || chain whose operands are evaluated is lowered by joining them.
LEMMA JoinOrLowers ==
  ASSUME NEW f, Body(f), NEW all, Operands(f, all.body, all.start, all.end),
         NEW cont, cont = LastBlock(all.body) + 1
  PROVE  Lowered(f, JoinOr(all, cont))
<1>0. PICK h, start, end : h = all.body /\ start = all.start /\ end = all.end
  OBVIOUS
<1>1. PICK seq : seq = [i \in 1 .. Len(all.end) - 1 |-> i]
  OBVIOUS
<1>2. Len(end) \in Nat \ {0} /\ Operands(f, h, start, end)
  BY <1>0, OperandFacts
<1>3. /\ Len(seq) = Len(end) - 1 /\ Len(seq) \in Nat
      /\ \A i \in 1 .. Len(seq) : seq[i] = i /\ i \in 1 .. Len(end) /\ i < Len(end)
  BY <1>0, <1>1, <1>2, UpTo
<1>4. PICK env : all = env[1] /\ cont = env[2]
  <2>1. all = <<all, cont>>[1] /\ cont = <<all, cont>>[2]
    OBVIOUS
  <2> QED
    BY <2>1
<1>5. PICK hyp : f = hyp[1] /\ h = hyp[2] /\ start = hyp[3] /\ end = hyp[4]
  <2>1. /\ f = <<f, h, start, end>>[1] /\ h = <<f, h, start, end>>[2]
        /\ start = <<f, h, start, end>>[3] /\ end = <<f, h, start, end>>[4]
    OBVIOUS
  <2> QED
    BY <2>1
<1>6. PICK g : g = OrJoins!Run(env, NewBlock(all.body), seq)
  OBVIOUS
<1>7. JoinOr(all, cont) = Join(g, all.end, cont)
  <2>1. JoinOr(env[1], env[2])
        = Join(OrJoins!Run(env, NewBlock(env[1].body), [i \in 1 .. Len(env[1].end) - 1 |-> i]),
               env[1].end, env[2])
    BY DEF JoinOr, RunThrough, OrJoins!Run, OrJoins!RunThrough, OrBranch
  <2> QED
    BY <1>1, <1>4, <1>6, <2>1
<1>8. JoinKnown(hyp, 0, NewBlock(h))
  BY <1>2, <1>5, JoinStarts DEF JoinKnown
<1>9. ASSUME NEW i \in 1 .. Len(seq), NEW x, JoinKnown(hyp, i - 1, x)
      PROVE  JoinKnown(hyp, i, OrBranch(env, x, seq[i]))
  <2>1. Joining(f, h, start, end, i - 1, x) /\ i \in 1 .. Len(end) /\ i < Len(end)
    BY <1>3, <1>5, <1>9 DEF JoinKnown
  <2>2. Joining(f, h, start, end, i, CondBr(SetInsert(x, end[i]), cont, start[i + 1]))
    BY <1>0, <1>2, <2>1, BranchStep
  <2> QED
    BY <1>0, <1>3, <1>4, <1>5, <2>2 DEF JoinKnown, OrBranch
<1>10. JoinKnown(hyp, Len(seq), g)
  BY <1>0, <1>3, <1>6, <1>8, <1>9, OrJoins!RunRule
<1>11. Joining(f, h, start, end, Len(end) - 1, g)
  BY <1>3, <1>5, <1>10 DEF JoinKnown
<1> QED
  BY <1>0, <1>2, <1>7, <1>11, JoinEnds

\* A single operand needs no block.
LEMMA EvalLowers ==
  ASSUME NEW f, Body(f), f.cur \in Open(f), NEW s, NEW e
  PROVE  Lowered(f, Eval(f, s, e))
<1>1. PICK g : g = Eval(f, s, e)
  OBVIOUS
<1>2. Body(g) /\ SameGraph(f, g)
  BY <1>1, EvalKeeps
<1>3. /\ LastBlock(f) \in Nat /\ Blocks(f) = 1 .. LastBlock(f) /\ f.cur \in Blocks(f)
  BY BlocksAre DEF Body
<1>4. ToSet(f.succ[f.cur]) = {}
  <2>1. f.succ[f.cur] = << >>
    BY OpenEdges
  <2> QED
    BY <2>1 DEF ToSet
<1>5. Within(f, g)
  <2>1. \A b \in Blocks(g) : b > LastBlock(f) \/ b = f.cur => b = f.cur
    BY <1>2, <1>3 DEF SameGraph
  <2>2. \A b \in Blocks(g) : b > LastBlock(f) \/ b = f.cur =>
          ToSet(g.succ[b]) \subseteq LastBlock(f) + 1 .. LastBlock(g)
    BY <1>2, <1>4, <2>1 DEF SameGraph
  <2>3. LastBlock(f) <= LastBlock(g)
    BY <1>2, <1>3 DEF SameGraph
  <2> QED
    BY <1>2, <2>2, <2>3 DEF Within, SameGraph
<1>6. Open(g) = (Open(f) \ {f.cur}) \cup {g.cur} /\ g.cur = f.cur
  BY <1>2 DEF SameGraph
<1> QED
  BY <1>1, <1>2, <1>5, <1>6 DEF Lowered

\* The blocks a && chain names (bb_vec) are those its operands are in.
LEMMA ChainIsOperands ==
  ASSUME NEW f, Body(f), f.cur \in Open(f), NEW n \in Nat \ {0}, NEW h, Chained(f, n - 1, h),
         NEW bb, bb = [i \in 1 .. n |-> IF i = 1 THEN f.cur ELSE LastBlock(f) + i - 1]
  PROVE  Operands(f, h, bb, bb)
<1>0. PICK L : L = LastBlock(f)
  OBVIOUS
<1>1. L \in Nat /\ Blocks(f) = 1 .. L /\ f.cur \in 1 .. L
  BY <1>0, BlocksAre DEF Body
<1>2. /\ Body(h) /\ LastBlock(h) = L + (n - 1)
      /\ Open(h) = Open(f) \cup (L + 1 .. L + (n - 1))
      /\ \A b \in Blocks(f) : /\ h.succ[b] = f.succ[b] /\ h.pre[b] = f.pre[b]
                              /\ Plain(f, b) => Plain(h, b)
      /\ \A b \in L + 1 .. L + (n - 1) : Plain(h, b)
  BY <1>0 DEF Chained
<1>3. Blocks(h) = 1 .. L + (n - 1)
  BY <1>2, BlocksAre DEF Body
<1>4. bb \in [1 .. n -> Nat] /\ bb[1] = f.cur /\ \A k \in 2 .. n : bb[k] = L + k - 1
  BY <1>0, <1>1
<1>5. bb \in Seq(Nat) /\ Len(bb) = n
  BY <1>4, FunSeq
<1>6. \A b \in Open(h) : ToSet(h.succ[b]) = {}
  <2>1. \A b \in Open(h) : h.succ[b] = << >>
    BY <1>2, OpenEdges
  <2> QED
    BY <2>1 DEF ToSet
<1>7. Within(f, h)
  <2>1. \A b \in Blocks(h) : b > L \/ b = f.cur => b \in Open(h)
    BY <1>1, <1>2, <1>3
  <2>2. L <= LastBlock(h)
    BY <1>1, <1>2
  <2> QED
    BY <1>0, <1>2, <1>6, <2>1, <2>2 DEF Within
<1>8. ASSUME NEW k \in 2 .. n
      PROVE  /\ bb[k] > L /\ bb[k] <= bb[k] /\ Plain(h, bb[k])
             /\ \A j \in 1 .. k - 1 : bb[j] < bb[k]
             /\ \A b \in bb[k] .. LastBlock(h) : ToSet(h.succ[b]) \subseteq bb[k] .. LastBlock(h)
  <2>1. bb[k] = L + k - 1 /\ bb[k] \in L + 1 .. L + (n - 1) /\ k \in Nat /\ bb[k] \in Nat
    <3>1. L + k - 1 \in L + 1 .. L + (n - 1) /\ k \in Nat /\ L + k - 1 \in Nat
      BY <1>1
    <3> QED
      BY <1>4, <3>1
  <2>2. ASSUME NEW j \in 1 .. k - 1 PROVE bb[j] < bb[k]
    <3>1. CASE j = 1
      BY <1>1, <1>4, <2>1, <3>1
    <3>2. CASE j # 1
      <4>1. j \in 2 .. n /\ j < k
        BY <3>2
      <4>2. bb[j] = L + j - 1
        BY <1>4, <4>1
      <4> QED
        BY <1>1, <2>1, <4>1, <4>2
    <3> QED
      BY <3>1, <3>2
  <2>3. \A b \in bb[k] .. LastBlock(h) : b \in Open(h)
    BY <1>1, <1>2, <2>1
  <2>4. \A b \in bb[k] .. LastBlock(h) : ToSet(h.succ[b]) \subseteq bb[k] .. LastBlock(h)
    BY <1>6, <2>3
  <2>5. Plain(h, bb[k])
    BY <1>2, <2>1
  <2>6. bb[k] > L /\ bb[k] <= bb[k]
    BY <1>1, <2>1
  <2> QED
    BY <2>2, <2>4, <2>5, <2>6
<1>9. Open(h) = (Open(f) \ {f.cur}) \cup {bb[j] : j \in 1 .. n}
  <2>1. {bb[j] : j \in 1 .. n} = {f.cur} \cup (L + 1 .. L + (n - 1))
    <3>1. \A j \in 1 .. n : bb[j] \in {f.cur} \cup (L + 1 .. L + (n - 1))
      <4>1. \A j \in 1 .. n : j = 1 \/ (j \in 2 .. n /\ L + j - 1 \in L + 1 .. L + (n - 1))
        BY <1>1
      <4> QED
        BY <1>4, <4>1
    <3>2. \A b \in L + 1 .. L + (n - 1) : b - L + 1 \in 2 .. n /\ bb[b - L + 1] = b
      <4>1. \A b \in L + 1 .. L + (n - 1) : b - L + 1 \in 2 .. n /\ L + (b - L + 1) - 1 = b
        BY <1>1
      <4> QED
        BY <1>4, <4>1
    <3>3. \A b \in L + 1 .. L + (n - 1) : \E j \in 1 .. n : bb[j] = b
      <4>1. \A k \in 2 .. n : k \in 1 .. n
        OBVIOUS
      <4> QED
        BY <3>2, <4>1
    <3> QED
      BY <1>4, <3>1, <3>3
  <2> QED
    BY <1>2, <2>1
<1>10. Len(bb) > 0 /\ (bb[1] = f.cur \/ bb[1] > LastBlock(f))
  BY <1>4, <1>5
<1> QED
  BY <1>0, <1>2, <1>5, <1>7, <1>8, <1>9, <1>10 DEF Operands

\* Lowering a && chain, of any number of operands.
LEMMA LowerAndLowers ==
  ASSUME NEW f, Body(f), f.cur \in Open(f), NEW s, NEW e, NEW n \in Nat \ {0}
  PROVE  Lowered(f, LowerAnd(f, s, e, n))
<1>1. CASE n = 1
  BY <1>1, EvalLowers DEF LowerAnd
<1>2. CASE n # 1
  <2>1. PICK bb : bb = [i \in 1 .. n |-> IF i = 1 THEN f.cur ELSE LastBlock(f) + i - 1]
    OBVIOUS
  <2>2. PICK h : h = AndOperands(f, s, e, n)
    OBVIOUS
  <2>3. Chained(f, n - 1, h)
    BY <2>2, AndOperandsChained
  <2>4. Operands(f, h, bb, bb)
    BY <2>1, <2>3, ChainIsOperands
  <2>5. LastBlock(f) + n = LastBlock(h) + 1
    <3>1. LastBlock(f) \in Nat /\ LastBlock(h) = LastBlock(f) + (n - 1)
      BY <2>3, BlocksAre DEF Body, Chained
    <3> QED
      BY <3>1
  <2>6. Lowered(f, JoinAnd(h, bb, LastBlock(f) + n))
    BY <2>4, <2>5, JoinAndLowers
  <2>7. LowerAnd(f, s, e, n) = JoinAnd(h, bb, LastBlock(f) + n)
    BY <1>2, <2>1, <2>2 DEF LowerAnd
  <2> QED
    BY <2>6, <2>7
<1> QED
  BY <1>1, <1>2

-----------------------------------------------------------------------------
(***************************************************************************)
(* || chains: an operand is a && chain, which may span several blocks.     *)
(***************************************************************************)
\* one more operand of a || chain, in a block of its own
LEMMA NextOperand ==
  ASSUME NEW f, Body(f), NEW h, NEW start, NEW end, Operands(f, h, start, end),
         NEW g, g = StartBlock(h), NEW w, Lowered(g, w),
         NEW start2, start2 = Append(start, LastBlock(h) + 1),
         NEW end2, end2 = Append(end, w.cur)
  PROVE  Operands(f, w, start2, end2) /\ Len(end2) = Len(end) + 1
<1>0. PICK L, n, t : L = LastBlock(f) /\ n = Len(end) /\ t = LastBlock(h) + 1
  OBVIOUS
<1>1. /\ L \in Nat \ {0} /\ LastBlock(h) \in Nat /\ L <= LastBlock(h)
      /\ Blocks(f) = 1 .. L /\ Blocks(h) = 1 .. LastBlock(h)
      /\ n \in Nat \ {0}
      /\ \A j \in 1 .. n : end[j] \in 1 .. LastBlock(h) /\ start[j] \in Nat
      /\ \A k \in 2 .. n : start[k] \in L + 1 .. LastBlock(h)
  BY <1>0, OperandFacts
<1>2. /\ Body(h) /\ Within(f, h)
      /\ start \in Seq(Nat) /\ end \in Seq(Nat) /\ Len(start) = n /\ n > 0
      /\ end[1] = f.cur \/ end[1] > L
      /\ \A k \in 2 .. n :
           /\ start[k] > L /\ start[k] <= end[k]
           /\ Plain(h, start[k])
           /\ \A j \in 1 .. k - 1 : end[j] < start[k]
           /\ \A b \in start[k] .. LastBlock(h) : ToSet(h.succ[b]) \subseteq start[k] .. LastBlock(h)
      /\ Open(h) = (Open(f) \ {f.cur}) \cup {end[j] : j \in 1 .. n}
  BY <1>0 DEF Operands
<1>3. /\ Body(g)
      /\ g.cur = t /\ LastBlock(g) = t /\ Blocks(g) = Blocks(h) \cup {t} /\ t \notin Blocks(h)
      /\ \A b \in Blocks(h) : g.succ[b] = h.succ[b] /\ g.pre[b] = h.pre[b]
      /\ Open(g) = Open(h) \cup {t}
      /\ Plain(g, t)
      /\ \A b \in Blocks(h) : Plain(g, b) <=> Plain(h, b)
  BY <1>0, <1>2, StartBlockKeeps
<1>4. /\ Body(w) /\ Within(g, w) /\ Open(w) = (Open(g) \ {t}) \cup {w.cur}
      /\ w.cur = t \/ w.cur > t
  BY <1>3 DEF Lowered
<1>5. /\ LastBlock(w) \in Nat /\ t <= LastBlock(w) /\ Blocks(w) = 1 .. LastBlock(w)
      /\ w.cur \in 1 .. LastBlock(w) /\ w.cur >= t /\ t \in Nat /\ t > LastBlock(h)
  <2>1. LastBlock(w) \in Nat /\ Blocks(w) = 1 .. LastBlock(w) /\ w.cur \in 1 .. LastBlock(w)
    BY <1>4, BlocksAre DEF Body
  <2>2. t <= LastBlock(w)
    BY <1>3, <1>4 DEF Within
  <2> QED
    BY <1>0, <1>1, <1>4, <2>1, <2>2
<1>6. \A b \in Blocks(h) : /\ b \in Blocks(g) /\ b # t
                           /\ w.succ[b] = h.succ[b] /\ w.pre[b] = h.pre[b]
                           /\ Plain(h, b) => Plain(w, b)
  BY <1>3, <1>4 DEF Within
<1>7. \A b \in t .. LastBlock(w) : ToSet(w.succ[b]) \subseteq t + 1 .. LastBlock(w)
  <2>1. \A b \in t .. LastBlock(w) : b \in Blocks(w) /\ (b > t \/ b = t)
    BY <1>1, <1>5
  <2> QED
    BY <1>3, <1>4, <2>1 DEF Within
<1>8. Within(f, w)
  <2>1. L <= LastBlock(w) /\ \A b \in Blocks(f) : b \in Blocks(h)
    BY <1>1, <1>5
  <2>2. \A b \in Blocks(f) : /\ w.pre[b] = f.pre[b]
                             /\ Plain(f, b) => Plain(w, b)
                             /\ b # f.cur => w.succ[b] = f.succ[b]
    BY <1>2, <1>6, <2>1 DEF Within
  <2>3. ASSUME NEW b \in Blocks(w), b > L \/ b = f.cur
        PROVE  ToSet(w.succ[b]) \subseteq L + 1 .. LastBlock(w)
    <3>1. CASE b \in t .. LastBlock(w)
      <4>1. ToSet(w.succ[b]) \subseteq t + 1 .. LastBlock(w)
        BY <1>7, <3>1
      <4>2. t + 1 .. LastBlock(w) \subseteq L + 1 .. LastBlock(w)
        BY <1>1, <1>5
      <4> QED
        BY <4>1, <4>2
    <3>2. CASE b \in Blocks(h)
      <4>1. ToSet(h.succ[b]) \subseteq L + 1 .. LastBlock(h)
        BY <1>0, <1>2, <2>3, <3>2 DEF Within
      <4>2. L + 1 .. LastBlock(h) \subseteq L + 1 .. LastBlock(w)
        BY <1>1, <1>5
      <4> QED
        BY <1>6, <3>2, <4>1, <4>2
    <3> QED
      BY <1>0, <1>1, <1>5, <3>1, <3>2
  <2> QED
    BY <1>0, <2>1, <2>2, <2>3 DEF Within
<1>9. /\ start2 \in Seq(Nat) /\ end2 \in Seq(Nat) /\ Len(start2) = n + 1 /\ Len(end2) = n + 1
      /\ start2[n + 1] = t /\ end2[n + 1] = w.cur
      /\ \A j \in 1 .. n : start2[j] = start[j] /\ end2[j] = end[j]
  <2>1. t \in Nat /\ w.cur \in Nat
    BY <1>5
  <2> QED
    BY <1>0, <1>2, <2>1
<1>10. \A j \in 1 .. n + 1 : j \in 1 .. n \/ j = n + 1
  BY <1>1
<1>11. ASSUME NEW k \in 2 .. n + 1
       PROVE  /\ start2[k] > L /\ start2[k] <= end2[k]
              /\ Plain(w, start2[k])
              /\ \A j \in 1 .. k - 1 : end2[j] < start2[k]
              /\ \A b \in start2[k] .. LastBlock(w) :
                   ToSet(w.succ[b]) \subseteq start2[k] .. LastBlock(w)
  <2>1. CASE k = n + 1
    <3>1. start2[k] = t /\ end2[k] = w.cur /\ t > L /\ t <= w.cur
      BY <1>1, <1>5, <1>9, <2>1
    <3>2. Plain(w, t)
      BY <1>3, <1>4 DEF Within
    <3>3. \A j \in 1 .. k - 1 : end2[j] < t
      <4>1. \A j \in 1 .. k - 1 : j \in 1 .. n
        BY <1>1, <2>1
      <4> QED
        BY <1>1, <1>5, <1>9, <4>1
    <3>4. \A b \in t .. LastBlock(w) : ToSet(w.succ[b]) \subseteq t .. LastBlock(w)
      <4>1. t + 1 .. LastBlock(w) \subseteq t .. LastBlock(w)
        BY <1>5
      <4> QED
        BY <1>7, <4>1
    <3> QED
      BY <3>1, <3>2, <3>3, <3>4
  <2>2. CASE k # n + 1
    <3>1. k \in 2 .. n /\ k \in 1 .. n /\ \A j \in 1 .. k - 1 : j \in 1 .. n
      BY <1>1, <2>2
    <3>2. PICK u : u = start[k]
      OBVIOUS
    <3>3. /\ start2[k] = u /\ end2[k] = end[k]
          /\ u > L /\ u <= end[k] /\ Plain(h, u) /\ u \in L + 1 .. LastBlock(h)
          /\ \A j \in 1 .. k - 1 : end[j] < u
          /\ \A b \in u .. LastBlock(h) : ToSet(h.succ[b]) \subseteq u .. LastBlock(h)
      BY <1>1, <1>2, <1>9, <3>1, <3>2
    <3>4. Plain(w, u) /\ \A j \in 1 .. k - 1 : end2[j] < u
      <4>1. u \in Blocks(h)
        BY <1>1, <3>3
      <4> QED
        BY <1>6, <1>9, <3>1, <3>3, <4>1
    <3>5. ASSUME NEW b \in u .. LastBlock(w)
          PROVE  ToSet(w.succ[b]) \subseteq u .. LastBlock(w)
      <4>0. u \in Nat /\ u < t /\ u >= 1
        BY <1>1, <1>5, <3>3
      <4>1. CASE b \in t .. LastBlock(w)
        <5>1. t + 1 .. LastBlock(w) \subseteq u .. LastBlock(w)
          BY <1>5, <4>0
        <5> QED
          BY <1>7, <4>1, <5>1
      <4>2. CASE b \in u .. LastBlock(h)
        <5>1. u .. LastBlock(h) \subseteq u .. LastBlock(w) /\ b \in Blocks(h)
          BY <1>1, <1>5, <4>0, <4>2
        <5> QED
          BY <1>6, <3>3, <4>2, <5>1
      <4> QED
        <5>1. b \in t .. LastBlock(w) \/ b \in u .. LastBlock(h)
          BY <1>0, <1>1, <1>5, <4>0
        <5> QED
          BY <4>1, <4>2, <5>1
    <3> QED
      BY <3>3, <3>4, <3>5
  <2> QED
    BY <2>1, <2>2
<1>12. Open(w) = (Open(f) \ {f.cur}) \cup {end2[j] : j \in 1 .. n + 1}
  <2>1. {end2[j] : j \in 1 .. n + 1} = {end[j] : j \in 1 .. n} \cup {w.cur}
    <3>1. 1 .. n + 1 = (1 .. n) \cup {n + 1}
      BY <1>1
    <3>2. \A j \in 1 .. n : end2[j] = end[j]
      BY <1>9
    <3>3. end2[n + 1] = w.cur
      BY <1>9
    <3> QED
      BY <3>1, <3>2, <3>3, Zenon
  <2>2. t \notin Open(h)
    BY <1>3 DEF Open
  <2>3. Open(w) = Open(h) \cup {w.cur}
    BY <1>3, <1>4, <2>2
  <2>4. PICK E : E = {end[j] : j \in 1 .. n}
    OBVIOUS
  <2>5. Open(w) = (Open(f) \ {f.cur}) \cup (E \cup {w.cur})
    BY <1>2, <2>3, <2>4
  <2> QED
    BY <2>1, <2>4, <2>5
<1>13. end2[1] = f.cur \/ end2[1] > L
  BY <1>1, <1>2, <1>9
<1>14. n + 1 > 0
  BY <1>1
<1> QED
  BY <1>0, <1>4, <1>8, <1>9, <1>11, <1>12, <1>13, <1>14 DEF Operands

\* The first operand of a || chain starts where the chain starts.
LEMMA FirstOperand ==
  ASSUME NEW f, Body(f), NEW w, Lowered(f, w)
  PROVE  Operands(f, w, <<f.cur>>, <<w.cur>>)
<1>1. f.cur \in Nat /\ w.cur \in Nat
  BY BlocksAre DEF Body, Lowered
<1>2. PICK a, b : a = <<f.cur>> /\ b = <<w.cur>>
  OBVIOUS
<1>3. a \in Seq(Nat) /\ b \in Seq(Nat) /\ Len(a) = 1 /\ Len(b) = 1 /\ b[1] = w.cur
  BY <1>1, <1>2
<1>4. {b[j] : j \in 1 .. Len(b)} = {w.cur} /\ 2 .. Len(b) = {}
  BY <1>3
<1>5. /\ Body(w) /\ Within(f, w)
      /\ Open(w) = (Open(f) \ {f.cur}) \cup {w.cur}
      /\ w.cur = f.cur \/ w.cur > LastBlock(f)
  BY DEF Lowered
<1> QED
  BY <1>2, <1>3, <1>4, <1>5 DEF Operands

\* The operands of a || chain as a run.
OrStep(env, acc, i) ==
  Evaluated(acc, IF i = 1 THEN env[1].cur ELSE LastBlock(acc.body) + 1,
            LowerAnd(IF i = 1 THEN env[1] ELSE StartBlock(acc.body), env[2], env[3], env[4][i]))

OrKnown(f, n, acc) ==
  /\ acc = [body |-> acc.body, start |-> acc.start, end |-> acc.end]
  /\ n = 0 => acc.body = f /\ acc.start = << >> /\ acc.end = << >>
  /\ n > 0 => Operands(f, acc.body, acc.start, acc.end) /\ Len(acc.end) = n

Ors == INSTANCE IterateProofs WITH step <- OrStep, known <- OrKnown

\* One more operand of a || chain, whatever its number of && operands.
LEMMA OrStepKnown ==
  ASSUME NEW f, Body(f), f.cur \in Open(f), NEW s, NEW e, NEW shape, NEW i \in Nat \ {0},
         shape[i] \in Nat \ {0}, NEW acc, OrKnown(f, i - 1, acc),
         NEW env, f = env[1], s = env[2], e = env[3], shape = env[4]
  PROVE  OrKnown(f, i, OrStep(env, acc, i))
<1>1. CASE i = 1
  <2>1. acc.start = << >> /\ acc.end = << >>
    BY <1>1 DEF OrKnown
  <2>2. PICK w : w = LowerAnd(f, s, e, shape[1])
    OBVIOUS
  <2>3. Lowered(f, w)
    BY <1>1, <2>2, LowerAndLowers
  <2>4. OrStep(env, acc, i) = Evaluated(acc, f.cur, w)
    BY <1>1, <2>2 DEF OrStep
  <2>5. Append(<< >>, f.cur) = <<f.cur>> /\ Append(<< >>, w.cur) = <<w.cur>> /\ Len(<<w.cur>>) = 1
    OBVIOUS
  <2>6. Evaluated(acc, f.cur, w) = [body |-> w, start |-> <<f.cur>>, end |-> <<w.cur>>]
    BY <2>1, <2>5 DEF Evaluated
  <2>7. Operands(f, w, <<f.cur>>, <<w.cur>>)
    BY <2>3, FirstOperand
  <2> QED
    BY <1>1, <2>4, <2>5, <2>6, <2>7 DEF OrKnown
<1>2. CASE i # 1
  <2>1. PICK h, start, end : h = acc.body /\ start = acc.start /\ end = acc.end
    OBVIOUS
  <2>2. Operands(f, h, start, end) /\ Len(end) = i - 1 /\ i - 1 \in Nat /\ i - 1 > 0
    BY <1>2, <2>1 DEF OrKnown
  <2>3. PICK g : g = StartBlock(h)
    OBVIOUS
  <2>4. PICK w : w = LowerAnd(g, s, e, shape[i])
    OBVIOUS
  <2>5. Body(g) /\ g.cur \in Open(g)
    <3>1. Body(h)
      BY <2>2 DEF Operands
    <3> QED
      BY <2>3, <3>1, StartBlockKeeps
  <2>6. Lowered(g, w)
    BY <2>4, <2>5, LowerAndLowers
  <2>7. PICK start2, end2 : start2 = Append(start, LastBlock(h) + 1) /\ end2 = Append(end, w.cur)
    OBVIOUS
  <2>8. Operands(f, w, start2, end2) /\ Len(end2) = Len(end) + 1
    <3>1. Operands(f, w, start2, end2)
      BY <2>2, <2>3, <2>6, <2>7, NextOperand
    <3>2. end \in Seq(Nat)
      BY <2>2 DEF Operands
    <3>3. Len(Append(end, w.cur)) = Len(end) + 1
      BY <3>2
    <3> QED
      BY <2>7, <3>1, <3>3
  <2>9. OrStep(env, acc, i) = [body |-> w, start |-> start2, end |-> end2]
    BY <1>2, <2>1, <2>3, <2>4, <2>7 DEF OrStep, Evaluated
  <2>10. Len(end2) = i /\ i > 0 /\ i # 0
    BY <2>2, <2>8
  <2> QED
    BY <2>8, <2>9, <2>10 DEF OrKnown
<1> QED
  BY <1>1, <1>2

\* All operands of a || chain have been evaluated.
LEMMA OrOperandsKnown ==
  ASSUME NEW f, Body(f), f.cur \in Open(f), NEW s, NEW e, NEW shape \in Seq(Nat \ {0}),
         shape # << >>, NEW all, all = OrOperands(f, s, e, shape)
  PROVE  Operands(f, all.body, all.start, all.end)
<1>1. PICK seq, n : seq = [i \in DOMAIN shape |-> i] /\ n = Len(shape)
  OBVIOUS
<1>2. /\ Len(seq) = n /\ n \in Nat /\ n > 0
      /\ \A i \in 1 .. n : seq[i] = i /\ i \in Nat \ {0} /\ shape[i] \in Nat \ {0}
  <2>1. DOMAIN shape = 1 .. n /\ n \in Nat /\ n > 0 /\ \A i \in 1 .. n : shape[i] \in Nat \ {0}
    BY <1>1
  <2>2. seq \in [1 .. n -> Nat]
    BY <1>1, <2>1
  <2>3. Len(seq) = n
    BY <2>1, <2>2, FunSeq
  <2> QED
    BY <1>1, <2>1, <2>3
<1>3. PICK env : f = env[1] /\ s = env[2] /\ e = env[3] /\ shape = env[4]
  <2>1. /\ f = <<f, s, e, shape>>[1] /\ s = <<f, s, e, shape>>[2]
        /\ e = <<f, s, e, shape>>[3] /\ shape = <<f, s, e, shape>>[4]
    OBVIOUS
  <2> QED
    BY <2>1
<1>4. PICK first : first = [body |-> f, start |-> << >>, end |-> << >>]
  OBVIOUS
<1>5. all = Ors!Run(env, first, seq)
  <2>1. OrOperands(env[1], env[2], env[3], env[4])
        = Ors!Run(env, [body |-> env[1], start |-> << >>, end |-> << >>],
                  [i \in DOMAIN env[4] |-> i])
    BY DEF OrOperands, RunThrough, Ors!Run, Ors!RunThrough, OrStep
  <2> QED
    BY <1>1, <1>3, <1>4, <2>1
<1>6. OrKnown(f, 0, first)
  BY <1>4 DEF OrKnown
<1>7. ASSUME NEW i \in 1 .. Len(seq), NEW acc, OrKnown(f, i - 1, acc)
      PROVE  OrKnown(f, i, OrStep(env, acc, seq[i]))
  <2>1. i \in Nat \ {0} /\ shape[i] \in Nat \ {0} /\ seq[i] = i
    BY <1>2
  <2>2. OrKnown(f, i, OrStep(env, acc, i))
    BY <1>3, <1>7, <2>1, OrStepKnown
  <2> QED
    BY <2>1, <2>2
<1>8. OrKnown(f, Len(seq), all)
  BY <1>2, <1>5, <1>6, <1>7, Ors!RunRule
<1> QED
  BY <1>2, <1>8 DEF OrKnown

\* Lowering a condition of any shape.
LEMMA LowerOrLowers ==
  ASSUME NEW f, Body(f), f.cur \in Open(f), NEW s, NEW e, NEW shape \in Seq(Nat \ {0}),
         shape # << >>
  PROVE  Lowered(f, LowerOr(f, s, e, shape))
<1>1. CASE Len(shape) = 1
  <2>1. shape[1] \in Nat \ {0}
    BY <1>1
  <2> QED
    BY <1>1, <2>1, LowerAndLowers DEF LowerOr
<1>2. CASE Len(shape) # 1
  <2>1. PICK all : all = OrOperands(f, s, e, shape)
    OBVIOUS
  <2>2. Operands(f, all.body, all.start, all.end)
    BY <2>1, OrOperandsKnown
  <2>3. LowerOr(f, s, e, shape) = JoinOr(all, LastBlock(all.body) + 1)
    BY <1>2, <2>1 DEF LowerOr
  <2> QED
    BY <2>2, <2>3, JoinOrLowers
<1> QED
  BY <1>1, <1>2

-----------------------------------------------------------------------------
(***************************************************************************)
(* Pending visits.  Each continues in blocks of its own (Targets) that are *)
(* open, hold no phi and are not the insert block; a loop also branches    *)
(* back to its head, which has a predecessor.  Every open block is the     *)
(* insert block or the target of one of them.                              *)
(***************************************************************************)
\* the records of frames
Frame ==
  [kind : {"func", "block"}]
    \cup [kind : {"then"}, cont : Nat, else : Nat]
    \cup [kind : {"else"}, cont : Nat]
    \cup [kind : {"loop"}, head : Nat, cont : Nat]

\* the blocks a pending visit() still has to continue in
Targets(fr) ==
  CASE fr.kind = "then" -> {fr.cont} \cup (IF fr.else = 0 THEN {} ELSE {fr.else})
    [] fr.kind \in {"else", "loop"} -> {fr.cont}
    [] OTHER -> {}

FrameOK(f, fr) ==
  /\ \A t \in Targets(fr) : t \in Open(f) /\ t # f.cur /\ t # Entry /\ Plain(f, t)
  /\ fr.kind = "then" => fr.cont # fr.else
  /\ fr.kind = "loop" => /\ fr.head \in Blocks(f) \ Open(f) /\ fr.head # Entry
                         /\ Plain(f, fr.head) /\ f.pre[fr.head] # << >>

\* the blocks the pending visits continue in
Waiting(fs) == UNION {Targets(fs[i]) : i \in 1 .. Len(fs)}

FramesOK(f, fs) ==
  /\ fs \in Seq(Frame)
  /\ \A i \in 1 .. Len(fs) : FrameOK(f, fs[i]) /\ (fs[i].kind = "func" <=> i = 1)
  /\ \A i, j \in 1 .. Len(fs) : i # j => Targets(fs[i]) \cap Targets(fs[j]) = {}

Framed(f, fs) ==
  /\ FramesOK(f, fs)
  /\ IF fs = << >> THEN Open(f) = {} ELSE Open(f) \subseteq {f.cur} \cup Waiting(fs)

\* what lies ahead of f lies ahead of g, but for the blocks of D
Advances(f, g, D) ==
  /\ \A t \in Open(f) \ ({f.cur} \cup D) : t \in Open(g) /\ t # g.cur /\ (Plain(f, t) => Plain(g, t))
  /\ \A b \in Blocks(f) \ Open(f) : /\ b \in Blocks(g) \ Open(g)
                                    /\ Plain(f, b) => Plain(g, b)
                                    /\ f.pre[b] # << >> => g.pre[b] # << >>

\* A pending visit that continues outside D is not disturbed.
LEMMA FrameAdvances ==
  ASSUME NEW f, NEW g, NEW D, Advances(f, g, D), NEW fr, FrameOK(f, fr), Targets(fr) \cap D = {}
  PROVE  FrameOK(g, fr)
<1>1. ASSUME NEW t \in Targets(fr)
      PROVE  t \in Open(g) /\ t # g.cur /\ t # Entry /\ Plain(g, t)
  <2>1. t \in Open(f) \ ({f.cur} \cup D) /\ t # Entry /\ Plain(f, t)
    BY DEF FrameOK
  <2> QED
    BY <2>1 DEF Advances
<1>2. fr.kind = "then" => fr.cont # fr.else
  BY DEF FrameOK
<1>3. fr.kind = "loop" => /\ fr.head \in Blocks(g) \ Open(g) /\ fr.head # Entry
                          /\ Plain(g, fr.head) /\ g.pre[fr.head] # << >>
  BY DEF FrameOK, Advances
<1> QED
  BY <1>1, <1>2, <1>3 DEF FrameOK

\* Nor are all of them, when the insert block alone was worked on.
LEMMA FramedStays ==
  ASSUME NEW f, NEW g, NEW fs, fs # << >>, Framed(f, fs), Advances(f, g, {}),
         Open(g) \subseteq (Open(f) \ {f.cur}) \cup {g.cur}
  PROVE  Framed(g, fs)
<1>1. \A i \in 1 .. Len(fs) : FrameOK(g, fs[i])
  BY FrameAdvances DEF Framed, FramesOK
<1>2. Open(g) \subseteq {g.cur} \cup Waiting(fs)
  BY DEF Framed
<1> QED
  BY <1>1, <1>2 DEF Framed, FramesOK

\* A visit begins that will continue in blocks nobody else waits for.
LEMMA FramedPush ==
  ASSUME NEW g, NEW fs, fs # << >>, FramesOK(g, fs),
         NEW fr \in Frame, FrameOK(g, fr), fr.kind # "func", Targets(fr) \cap Waiting(fs) = {},
         Open(g) \subseteq {g.cur} \cup Waiting(fs) \cup Targets(fr)
  PROVE  Framed(g, Append(fs, fr))
<1>1. PICK gs, n : gs = Append(fs, fr) /\ n = Len(fs)
  OBVIOUS
<1>2. fs \in Seq(Frame) /\ n \in Nat /\ n # 0
  BY <1>1 DEF FramesOK
<1>3. /\ gs \in Seq(Frame) /\ Len(gs) = n + 1 /\ gs[n + 1] = fr /\ gs # << >>
      /\ \A i \in 1 .. n : gs[i] = fs[i]
  BY <1>1, <1>2
<1>4. \A i \in 1 .. n + 1 : i \in 1 .. n \/ i = n + 1
  BY <1>2
<1>5. \A i \in 1 .. n : Targets(fs[i]) \cap Targets(fr) = {}
  BY <1>1 DEF Waiting
<1>6. \A i \in 1 .. n + 1 : FrameOK(g, gs[i]) /\ (gs[i].kind = "func" <=> i = 1)
  BY <1>1, <1>2, <1>3, <1>4 DEF FramesOK
<1>7. \A i, j \in 1 .. n + 1 : i # j => Targets(gs[i]) \cap Targets(gs[j]) = {}
  <2>1. \A i, j \in 1 .. n : i # j => Targets(gs[i]) \cap Targets(gs[j]) = {}
    BY <1>1, <1>3 DEF FramesOK
  <2>2. \A i \in 1 .. n : Targets(gs[i]) \cap Targets(gs[n + 1]) = {}
    BY <1>3, <1>5
  <2> QED
    BY <1>4, <2>1, <2>2
<1>8. Waiting(gs) = Waiting(fs) \cup Targets(fr)
  <2>1. Waiting(fs) \subseteq Waiting(gs)
    BY <1>1, <1>2, <1>3 DEF Waiting
  <2>2. Targets(fr) \subseteq Waiting(gs)
    BY <1>2, <1>3 DEF Waiting
  <2>3. Waiting(gs) \subseteq Waiting(fs) \cup Targets(fr)
    BY <1>1, <1>3, <1>4 DEF Waiting
  <2> QED
    BY <2>1, <2>2, <2>3
<1> QED
  BY <1>1, <1>3, <1>6, <1>7, <1>8 DEF Framed, FramesOK

\* The innermost visit ends; the blocks it continued in are its own.
LEMMA FramedPop ==
  ASSUME NEW f, NEW g, NEW fs, fs # << >>, Framed(f, fs), Last(fs).kind # "func",
         NEW D, D = Targets(Last(fs)), Advances(f, g, D)
  PROVE  /\ FramesOK(g, Front(fs)) /\ Front(fs) # << >>
         /\ D \cap Waiting(Front(fs)) = {} /\ Open(f) \subseteq {f.cur} \cup Waiting(Front(fs)) \cup D
<1>1. PICK rest, n : rest = Front(fs) /\ n = Len(fs)
  OBVIOUS
<1>2. fs \in Seq(Frame) /\ n \in Nat /\ n # 0 /\ Last(fs) = fs[n]
  BY <1>1 DEF Framed, FramesOK, Last
<1>3. /\ rest \in Seq(Frame) /\ Len(rest) = n - 1
      /\ \A i \in 1 .. n - 1 : rest[i] = fs[i]
  BY <1>1, <1>2 DEF Front
<1>4. n # 1
  BY <1>1, <1>2 DEF Framed, FramesOK
<1>5. \A i \in 1 .. n - 1 : i \in 1 .. n /\ i # n
  BY <1>2
<1>d. \A i, j \in 1 .. n : i # j => Targets(fs[i]) \cap Targets(fs[j]) = {}
  BY <1>1 DEF Framed, FramesOK
<1>6. \A i \in 1 .. n - 1 : Targets(rest[i]) \cap D = {}
  <2>1. n \in 1 .. n /\ D = Targets(fs[n])
    BY <1>2
  <2>2. \A i \in 1 .. n - 1 : Targets(fs[i]) \cap D = {}
    BY <1>d, <1>5, <2>1
  <2> QED
    BY <1>3, <2>2
<1>7. \A i \in 1 .. n - 1 : FrameOK(g, rest[i]) /\ (rest[i].kind = "func" <=> i = 1)
  <2> TAKE i \in 1 .. n - 1
  <2>1. \A j \in 1 .. n : FrameOK(f, fs[j]) /\ (fs[j].kind = "func" <=> j = 1)
    BY <1>1 DEF Framed, FramesOK
  <2>2. PICK fr : fr = rest[i]
    OBVIOUS
  <2>3. fr = fs[i] /\ i \in 1 .. n /\ Targets(fr) \cap D = {}
    BY <1>3, <1>5, <1>6, <2>2
  <2>4. FrameOK(f, fr) /\ (fr.kind = "func" <=> i = 1)
    BY <2>1, <2>3
  <2>5. FrameOK(g, fr)
    BY <2>3, <2>4, FrameAdvances
  <2> QED
    BY <2>2, <2>4, <2>5
<1>8. \A i, j \in 1 .. n - 1 : i # j => Targets(rest[i]) \cap Targets(rest[j]) = {}
  <2>1. \A i, j \in 1 .. n - 1 : i # j => Targets(fs[i]) \cap Targets(fs[j]) = {}
    BY <1>d, <1>5
  <2> QED
    BY <1>3, <2>1
<1>9. FramesOK(g, rest) /\ rest # << >>
  <2>1. Len(rest) = n - 1 /\ n - 1 # 0 /\ rest # << >>
    BY <1>2, <1>3, <1>4
  <2> QED
    BY <1>3, <1>7, <1>8, <2>1 DEF FramesOK
<1>10. D \cap Waiting(rest) = {}
  BY <1>3, <1>6 DEF Waiting
<1>11. Waiting(fs) \subseteq Waiting(rest) \cup D
  <2>1. \A i \in 1 .. n : i \in 1 .. n - 1 \/ i = n
    BY <1>2
  <2> QED
    BY <1>1, <1>2, <1>3, <2>1 DEF Waiting
<1> QED
  BY <1>1, <1>9, <1>10, <1>11 DEF Framed

\* Straight-line code disturbs no pending visit.
LEMMA SameAdvances ==
  ASSUME NEW f, NEW g, SameGraph(f, g)
  PROVE  Advances(f, g, {}) /\ Open(g) = Open(f) /\ g.cur = f.cur
<1>1. \A t \in Open(f) : t \in Blocks(f)
  BY DEF Open
<1> QED
  BY <1>1 DEF SameGraph, Advances

\* Disturbing none twice disturbs none.
LEMMA AdvancesOn ==
  ASSUME NEW f, NEW g, NEW h, Advances(f, g, {}), Advances(g, h, {})
  PROVE  Advances(f, h, {})
BY DEF Advances

\* A condition or an expression disturbs no pending visit.
LEMMA LoweredAdvances ==
  ASSUME NEW f, Body(f), f.cur \in Open(f), NEW g, Lowered(f, g)
  PROVE  /\ Body(g) /\ g.cur \in Open(g) /\ Advances(f, g, {})
         /\ Open(g) = (Open(f) \ {f.cur}) \cup {g.cur}
<1>1. /\ Body(g) /\ Within(f, g)
      /\ Open(g) = (Open(f) \ {f.cur}) \cup {g.cur}
      /\ g.cur = f.cur \/ g.cur > LastBlock(f)
  BY DEF Lowered
<1>2. /\ LastBlock(f) \in Nat /\ Blocks(f) = 1 .. LastBlock(f)
      /\ LastBlock(g) \in Nat /\ Blocks(g) = 1 .. LastBlock(g) /\ LastBlock(f) <= LastBlock(g)
  BY <1>1, BlocksAre DEF Body, Within
<1>3. \A b \in Blocks(f) : /\ b \in Blocks(g) /\ (b # f.cur => b # g.cur)
                           /\ g.pre[b] = f.pre[b] /\ (Plain(f, b) => Plain(g, b))
  <2>1. \A b \in Blocks(f) : b \in Blocks(g) /\ ~(b > LastBlock(f))
    BY <1>2
  <2> QED
    BY <1>1, <2>1 DEF Within
<1>4. \A t \in Open(f) \ ({f.cur} \cup {}) :
        t \in Open(g) /\ t # g.cur /\ (Plain(f, t) => Plain(g, t))
  BY <1>1, <1>3 DEF Open
<1>5. \A b \in Blocks(f) \ Open(f) : /\ b \in Blocks(g) \ Open(g)
                                     /\ Plain(f, b) => Plain(g, b)
                                     /\ f.pre[b] # << >> => g.pre[b] # << >>
  BY <1>1, <1>3
<1> QED
  BY <1>1, <1>4, <1>5 DEF Advances

\* A branch from the insert block disturbs no pending visit.
LEMMA BrAdvances ==
  ASSUME NEW f, Body(f), f.cur \in Open(f), NEW t, MayBranch(f, f.cur, t), NEW g, g = Br(f, t)
  PROVE  /\ Body(g) /\ Advances(f, g, {}) /\ g.cur = f.cur /\ Open(g) = Open(f) \ {f.cur}
         /\ g.pre[t] # << >> /\ Blocks(g) = Blocks(f)
         /\ \A b \in Blocks(f) : Plain(g, b) <=> Plain(f, b)
<1>1. Body(g) /\ Branched(f, g, {t})
  BY BrKeeps
<1>2. \A b \in Blocks(f) : f.pre[b] # << >> => g.pre[b] # << >>
  BY <1>1 DEF Branched
<1> QED
  BY <1>1, <1>2 DEF Branched, Advances, Open

\* the blocks pending visits continue in, and the heads of loops, may be branched to
LEMMA TargetsMayBranch ==
  ASSUME NEW f, Body(f), f.cur \in Open(f), NEW fr, FrameOK(f, fr),
         NEW t, t \in Targets(fr) \/ (fr.kind = "loop" /\ t = fr.head)
  PROVE  MayBranch(f, f.cur, t)
<1>1. f.succ[f.cur] = << >> /\ ToSet(f.succ[f.cur]) = {}
  <2>1. f.succ[f.cur] = << >>
    BY OpenEdges
  <2> QED
    BY <2>1 DEF ToSet
<1>2. CASE t \in Targets(fr)
  <2>1. t \in Open(f) /\ t # f.cur /\ t # Entry /\ Plain(f, t)
    BY <1>2 DEF FrameOK
  <2>2. t \in Blocks(f) /\ f.succ[t] = << >>
    BY <2>1, OpenEdges
  <2>3. ToSet(f.succ[t]) = {}
    BY <2>2 DEF ToSet
  <2>4. Sep(f, t, f.cur)
    <3>1. {t} \in SUBSET Blocks(f) /\ f.cur \notin {t} /\ \A z \in {t} : ToSet(f.succ[z]) \subseteq {t}
      BY <2>1, <2>2, <2>3
    <3> QED
      BY <3>1 DEF Sep
  <2> QED
    BY <1>1, <2>1, <2>2, <2>4 DEF MayBranch
<1>3. CASE fr.kind = "loop" /\ t = fr.head
  BY <1>1, <1>3 DEF FrameOK, MayBranch, Sep
<1> QED
  BY <1>2, <1>3

-----------------------------------------------------------------------------
\* h is g with new blocks
Extended(g, h) ==
  /\ Body(h) /\ h.cur = g.cur /\ LastBlock(g) <= LastBlock(h)
  /\ \A b \in Blocks(g) : /\ h.succ[b] = g.succ[b] /\ h.pre[b] = g.pre[b]
                          /\ Plain(h, b) <=> Plain(g, b)
  /\ \A b \in LastBlock(g) + 1 .. LastBlock(h) : Plain(h, b)
  /\ Open(h) = Open(g) \cup (LastBlock(g) + 1 .. LastBlock(h))

\* No new block.
LEMMA ExtendedSelf ==
  ASSUME NEW g, Body(g)
  PROVE  Extended(g, g)
<1>1. LastBlock(g) \in Nat
  BY BlocksAre DEF Body
<1>2. LastBlock(g) + 1 .. LastBlock(g) = {} /\ LastBlock(g) <= LastBlock(g)
  BY <1>1
<1> QED
  BY <1>2 DEF Extended

\* One more new block.
LEMMA ExtendedMore ==
  ASSUME NEW g, Body(g), NEW h, Extended(g, h)
  PROVE  Extended(g, NewBlock(h)) /\ LastBlock(NewBlock(h)) = LastBlock(h) + 1
<1>1. PICK w, L, n : w = NewBlock(h) /\ L = LastBlock(g) /\ n = LastBlock(h) + 1
  OBVIOUS
<1>2. /\ Body(h) /\ h.cur = g.cur /\ L <= LastBlock(h)
      /\ \A b \in Blocks(g) : /\ h.succ[b] = g.succ[b] /\ h.pre[b] = g.pre[b]
                              /\ Plain(h, b) <=> Plain(g, b)
      /\ \A b \in L + 1 .. LastBlock(h) : Plain(h, b)
      /\ Open(h) = Open(g) \cup (L + 1 .. LastBlock(h))
  BY <1>1 DEF Extended
<1>3. /\ Body(w)
      /\ w.cur = h.cur /\ LastBlock(w) = n
      /\ \A b \in Blocks(h) : w.succ[b] = h.succ[b] /\ w.pre[b] = h.pre[b]
      /\ Open(w) = Open(h) \cup {n}
      /\ Plain(w, n)
      /\ \A b \in Blocks(h) : Plain(w, b) <=> Plain(h, b)
  BY <1>1, <1>2, NewBlockKeeps
<1>4. /\ L \in Nat /\ LastBlock(h) \in Nat /\ Blocks(g) = 1 .. L /\ Blocks(h) = 1 .. LastBlock(h)
  BY <1>1, <1>2, BlocksAre DEF Body
<1>5. L + 1 .. n = (L + 1 .. LastBlock(h)) \cup {n} /\ Blocks(g) \subseteq Blocks(h)
      /\ L + 1 .. LastBlock(h) \subseteq Blocks(h) /\ L <= n
  BY <1>1, <1>2, <1>4
<1>6. \A b \in Blocks(g) : /\ w.succ[b] = g.succ[b] /\ w.pre[b] = g.pre[b]
                           /\ Plain(w, b) <=> Plain(g, b)
  BY <1>2, <1>3, <1>5
<1>7. \A b \in L + 1 .. n : Plain(w, b)
  BY <1>2, <1>3, <1>5
<1>8. Open(w) = Open(g) \cup (L + 1 .. n)
  BY <1>2, <1>3, <1>5
<1> QED
  BY <1>1, <1>2, <1>3, <1>5, <1>6, <1>7, <1>8 DEF Extended

\* the condition of an if or a while has been lowered, and branches to new blocks
Forked(f, g, h, new, t, e, w) ==
  /\ Body(f) /\ f.cur \in Open(f) /\ Lowered(f, g) /\ Extended(g, h)
  /\ new = LastBlock(g) + 1 .. LastBlock(h) /\ t \in new /\ e \in new /\ t # e
  /\ w = SetInsert(CondBr(h, t, e), t)

\* The branch on a condition opens its blocks and disturbs no pending visit.
LEMMA ForkKeeps ==
  ASSUME NEW f, NEW g, NEW h, NEW new, NEW t, NEW e, NEW w, Forked(f, g, h, new, t, e, w)
  PROVE  /\ Body(w) /\ w.cur = t /\ Advances(f, w, {})
         /\ Open(w) = (Open(f) \ {f.cur}) \cup new
         /\ \A b \in new : Plain(w, b) /\ b \notin Blocks(f) /\ b # Entry /\ b \in Nat \ {0}
         /\ f.cur \in Blocks(w) \ Open(w) /\ w.pre[f.cur] = f.pre[f.cur]
         /\ Plain(f, f.cur) => Plain(w, f.cur)
<1>0. /\ Body(f) /\ f.cur \in Open(f) /\ Lowered(f, g) /\ Extended(g, h)
      /\ new = LastBlock(g) + 1 .. LastBlock(h) /\ t \in new /\ e \in new /\ t # e
      /\ w = SetInsert(CondBr(h, t, e), t)
  BY DEF Forked
<1>1. PICK s : s = CondBr(h, t, e)
  OBVIOUS
<1>2. /\ Body(g) /\ Within(f, g) /\ g.cur \in Open(g)
      /\ Open(g) = (Open(f) \ {f.cur}) \cup {g.cur}
      /\ g.cur = f.cur \/ g.cur > LastBlock(f)
  BY <1>0 DEF Lowered
<1>3. /\ Body(h) /\ h.cur = g.cur /\ LastBlock(g) <= LastBlock(h)
      /\ \A b \in Blocks(g) : /\ h.succ[b] = g.succ[b] /\ h.pre[b] = g.pre[b]
                              /\ Plain(h, b) <=> Plain(g, b)
      /\ \A b \in new : Plain(h, b)
      /\ Open(h) = Open(g) \cup new
  BY <1>0 DEF Extended
<1>4. /\ LastBlock(f) \in Nat \ {0} /\ LastBlock(g) \in Nat /\ LastBlock(h) \in Nat
      /\ Blocks(f) = 1 .. LastBlock(f) /\ Blocks(g) = 1 .. LastBlock(g)
      /\ Blocks(h) = 1 .. LastBlock(h) /\ LastBlock(f) <= LastBlock(g)
      /\ f.cur \in Blocks(f) /\ g.cur \in Blocks(g)
  <2>1. f.cur \in Blocks(f) /\ LastBlock(f) \in Nat /\ Blocks(f) = 1 .. LastBlock(f)
    BY <1>0, BlocksAre DEF Body
  <2>2. LastBlock(f) # 0
    BY <2>1
  <2> QED
    BY <1>0, <1>2, <1>3, <2>1, <2>2, BlocksAre DEF Body, Within
<1>5. \A b \in new : b \in Blocks(h) /\ b \notin Blocks(g) /\ b \notin Blocks(f) /\ b # Entry
                     /\ b \in Nat \ {0} /\ b # h.cur
  BY <1>0, <1>3, <1>4 DEF Entry
<1>6. h.cur \in Open(h) /\ ToSet(h.succ[h.cur]) = {}
  <2>1. h.cur \in Open(h)
    BY <1>0, <1>2, <1>3
  <2>2. h.succ[h.cur] = << >>
    BY <1>0, <1>3, <2>1, OpenEdges
  <2> QED
    BY <2>1, <2>2 DEF ToSet
<1>7. ASSUME NEW b \in new PROVE MayBranch(h, h.cur, b)
  <2>1. b \in Open(h)
    BY <1>0, <1>3
  <2>2. h.succ[b] = << >>
    BY <1>0, <1>3, <2>1, OpenEdges
  <2>3. ToSet(h.succ[b]) = {}
    BY <2>2 DEF ToSet
  <2>4. Sep(h, b, h.cur)
    <3>1. {b} \in SUBSET Blocks(h) /\ h.cur \notin {b} /\ \A z \in {b} : ToSet(h.succ[z]) \subseteq {b}
      BY <1>0, <1>5, <2>3
    <3> QED
      BY <3>1 DEF Sep
  <2> QED
    BY <1>0, <1>3, <1>5, <1>6, <2>4 DEF MayBranch
<1>8. Body(s) /\ Branched(h, s, {t, e})
  BY <1>0, <1>1, <1>3, <1>6, <1>7, CondBrKeeps
<1>9. t \in Blocks(s)
  BY <1>0, <1>5, <1>8 DEF Branched
<1>10. /\ Body(w) /\ w.cur = t /\ w.succ = s.succ /\ w.pre = s.pre
       /\ Blocks(w) = Blocks(s) /\ Open(w) = Open(s)
       /\ \A c \in Blocks(s) : Plain(w, c) <=> Plain(s, c)
  BY <1>0, <1>1, <1>8, <1>9, SetInsertKeeps
<1>11. /\ Blocks(w) = Blocks(h) /\ Open(w) = Open(h) \ {h.cur}
       /\ \A c \in Blocks(h) : Plain(w, c) <=> Plain(h, c)
       /\ \A c \in Blocks(h) : c \notin {t, e} => w.pre[c] = h.pre[c]
  BY <1>0, <1>8, <1>10 DEF Branched
<1>12. Open(w) = (Open(f) \ {f.cur}) \cup new
  <2>1. h.cur \notin new /\ h.cur \notin Open(f) \ {f.cur}
    <3>1. h.cur = f.cur \/ h.cur \notin Blocks(f)
      BY <1>0, <1>2, <1>3, <1>4
    <3> QED
      BY <1>0, <1>5, <3>1 DEF Open
  <2> QED
    BY <1>0, <1>2, <1>3, <1>11, <2>1
<1>13. \A b \in Blocks(f) : /\ b \in Blocks(w) /\ b \notin new /\ w.pre[b] = f.pre[b]
                            /\ Plain(f, b) => Plain(w, b)
  <2>1. \A b \in Blocks(f) : b \in Blocks(g) /\ b \in Blocks(h) /\ b \notin new
    BY <1>0, <1>4, <1>5
  <2> QED
    BY <1>0, <1>2, <1>3, <1>11, <2>1 DEF Within
<1>14. \A b \in new : Plain(w, b)
  BY <1>0, <1>3, <1>5, <1>11
<1>15. Advances(f, w, {})
  <2>1. \A b \in Open(f) : b \in Blocks(f)
    BY DEF Open
  <2> QED
    BY <1>0, <1>10, <1>12, <1>13, <2>1 DEF Advances
<1> QED
  BY <1>0, <1>4, <1>5, <1>10, <1>12, <1>13, <1>14, <1>15

-----------------------------------------------------------------------------
(***************************************************************************)
(* How many pending statements of some kinds there are.                    *)
(***************************************************************************)
\* The number of pending statements.
LEMMA PendingNat ==
  ASSUME NEW fs, NEW n \in Nat, NEW K
  PROVE  /\ Pending(fs, n, K) \in Nat /\ IsFiniteSet({i \in 1 .. n : fs[i].kind \in K})
         /\ Pending(fs, 0, K) = 0
<1>1. IsFiniteSet(1 .. n)
  BY FS_Interval
<1>2. IsFiniteSet({i \in 1 .. n : fs[i].kind \in K})
  BY <1>1, FS_Subset
<1>3. {i \in 1 .. 0 : fs[i].kind \in K} = {}
  OBVIOUS
<1> QED
  BY <1>2, <1>3, FS_CardinalityType, FS_EmptySet DEF Pending

\* It grows by one with a statement of the kind.
LEMMA PendingStep ==
  ASSUME NEW fs, NEW n \in Nat, NEW K, NEW m, m = n + 1
  PROVE  /\ fs[m].kind \in K => Pending(fs, m, K) = Pending(fs, n, K) + 1
         /\ fs[m].kind \notin K => Pending(fs, m, K) = Pending(fs, n, K)
<1>1. PICK S, T : S = {i \in 1 .. n : fs[i].kind \in K} /\ T = {i \in 1 .. n + 1 : fs[i].kind \in K}
  OBVIOUS
<1>2. IsFiniteSet(S) /\ Cardinality(S) \in Nat /\ Pending(fs, n, K) = Cardinality(S)
      /\ Pending(fs, n + 1, K) = Cardinality(T)
  <2>1. IsFiniteSet(S)
    BY <1>1, PendingNat
  <2>2. Cardinality(S) \in Nat
    BY <2>1, FS_CardinalityType
  <2>3. Pending(fs, n, K) = Cardinality(S) /\ Pending(fs, n + 1, K) = Cardinality(T)
    BY <1>1 DEF Pending
  <2> QED
    BY <2>1, <2>2, <2>3
<1>3. n + 1 \notin S /\ T = IF fs[n + 1].kind \in K THEN S \cup {n + 1} ELSE S
  BY <1>1
<1>4. Cardinality(S \cup {n + 1}) = Cardinality(S) + 1
  BY <1>2, <1>3, FS_AddElement
<1>5. CASE fs[n + 1].kind \in K
  BY <1>2, <1>3, <1>4, <1>5
<1>6. CASE fs[n + 1].kind \notin K
  BY <1>2, <1>3, <1>6
<1> QED
  BY <1>2, <1>5, <1>6

\* It depends on the first statements only.
LEMMA PendingSame ==
  ASSUME NEW fs, NEW gs, NEW m \in Nat, \A i \in 1 .. m : gs[i] = fs[i], NEW K
  PROVE  Pending(gs, m, K) = Pending(fs, m, K)
<1>1. {i \in 1 .. m : gs[i].kind \in K} = {i \in 1 .. m : fs[i].kind \in K}
  OBVIOUS
<1> QED
  BY <1>1 DEF Pending

\* It never shrinks.
LEMMA PendingMono ==
  ASSUME NEW fs, NEW n \in Nat, NEW m \in 0 .. n, NEW K
  PROVE  Pending(fs, m, K) <= Pending(fs, n, K)
<1>1. {i \in 1 .. m : fs[i].kind \in K} \subseteq {i \in 1 .. n : fs[i].kind \in K}
  OBVIOUS
<1>2. IsFiniteSet({i \in 1 .. n : fs[i].kind \in K})
  BY PendingNat
<1> QED
  BY <1>1, <1>2, FS_Subset DEF Pending

\* the innermost pending statement of a kind
LEMMA PendingFound ==
  ASSUME NEW fs, NEW n \in Nat, NEW K, Pending(fs, n, K) # 0
  PROVE  \E i \in 1 .. n : fs[i].kind \in K /\ Pending(fs, i, K) = Pending(fs, n, K)
<1> DEFINE T == {m \in 0 .. n : Pending(fs, m, K) = Pending(fs, n, K)}
<1>1. T \in SUBSET Nat /\ n \in T
  OBVIOUS
<1>2. PICK i \in T : \A m \in T : i <= m
  <2> HIDE DEF T
  <2> QED
    BY <1>1, Ands!LeastNat
<1>3. i # 0
  BY PendingNat
<1>4. i - 1 \in Nat /\ i - 1 \in 0 .. n /\ i - 1 \notin T /\ i = (i - 1) + 1
  BY <1>2, <1>3
<1>5. fs[i].kind \notin K => Pending(fs, i, K) = Pending(fs, i - 1, K)
  <2>1. PICK j : j = i - 1
    OBVIOUS
  <2>2. j \in Nat /\ i = j + 1
    BY <1>4, <2>1
  <2> QED
    BY <2>1, <2>2, PendingStep
<1>6. fs[i].kind \in K
  <2>1. Pending(fs, i - 1, K) \in Nat
    BY <1>4, PendingNat
  <2> QED
    BY <1>2, <1>4, <1>5, <2>1
<1> QED
  BY <1>2, <1>3, <1>6

-----------------------------------------------------------------------------
Loops(fs, i) == Pending(fs, i, {"loop"})

\* the loop stacks hold the blocks of the pending loops
LoopStacks(br, co, fs) ==
  /\ br \in Seq(Nat) /\ co \in Seq(Nat)
  /\ Len(br) = Loops(fs, Len(fs)) /\ Len(co) = Loops(fs, Len(fs))
  /\ \A i \in 1 .. Len(fs) :
       fs[i].kind = "loop" => br[Loops(fs, i)] = fs[i].cont /\ co[Loops(fs, i)] = fs[i].head

\* the scopes open while the visits are pending
Depth(fs) == 3 + Pending(fs, Len(fs), {"block"}) + 2 * Pending(fs, Len(fs), {"then", "else", "loop"})

\* the scopes one visit opens
ScopeAdded(fr) ==
  CASE fr.kind = "block" -> 1 [] fr.kind \in {"then", "else", "loop"} -> 2 [] OTHER -> 0

\* What the loops, and the depth of the scopes, become when a visit begins.
LEMMA CountPush ==
  ASSUME NEW fs \in Seq(Frame), NEW fr \in Frame, NEW gs, gs = Append(fs, fr)
  PROVE  /\ \A i \in 0 .. Len(fs) : Loops(gs, i) = Loops(fs, i)
         /\ Loops(gs, Len(gs)) = Loops(fs, Len(fs)) + IF fr.kind = "loop" THEN 1 ELSE 0
         /\ Depth(gs) = Depth(fs) + ScopeAdded(fr) /\ Depth(fs) \in Nat
<1>1. /\ Len(fs) \in Nat /\ Len(gs) = Len(fs) + 1 /\ gs[Len(fs) + 1] = fr
      /\ \A i \in 1 .. Len(fs) : gs[i] = fs[i]
  OBVIOUS
<1>2. \A K : /\ \A i \in 0 .. Len(fs) : Pending(gs, i, K) = Pending(fs, i, K)
             /\ Pending(gs, Len(gs), K) = Pending(gs, Len(fs), K) + IF fr.kind \in K THEN 1 ELSE 0
             /\ Pending(fs, Len(fs), K) \in Nat
  <2> TAKE K
  <2>1. \A i \in 0 .. Len(fs) : Pending(gs, i, K) = Pending(fs, i, K)
    <3> TAKE m \in 0 .. Len(fs)
    <3>1. m \in Nat /\ \A i \in 1 .. m : gs[i] = fs[i]
      BY <1>1
    <3>2. {i \in 1 .. m : gs[i].kind \in K} = {i \in 1 .. m : fs[i].kind \in K}
      BY <3>1
    <3> QED
      BY <3>2 DEF Pending
  <2>2. Pending(gs, Len(fs) + 1, K) = Pending(gs, Len(fs), K) + IF fr.kind \in K THEN 1 ELSE 0
    <3>1. PICK n, m : n = Len(fs) /\ m = n + 1
      OBVIOUS
    <3>2. n \in Nat /\ m = n + 1 /\ gs[m] = fr
      BY <1>1, <3>1
    <3>3. CASE fr.kind \in K
      <4>1. Pending(gs, m, K) = Pending(gs, n, K) + 1
        BY <3>2, <3>3, PendingStep
      <4> QED
        BY <3>1, <3>3, <4>1
    <3>4. CASE fr.kind \notin K
      <4>1. Pending(gs, m, K) = Pending(gs, n, K)
        BY <3>2, <3>4, PendingStep
      <4>2. Pending(gs, n, K) \in Nat
        BY <3>2, PendingNat
      <4> QED
        BY <3>1, <3>4, <4>1, <4>2
    <3> QED
      BY <3>3, <3>4
  <2>3. Pending(fs, Len(fs), K) \in Nat
    BY <1>1, PendingNat
  <2> QED
    BY <1>1, <2>1, <2>2, <2>3
<1>3. \A K : Pending(gs, Len(gs), K) = Pending(fs, Len(fs), K) + IF fr.kind \in K THEN 1 ELSE 0
  BY <1>1, <1>2
<1>4. Depth(gs) = Depth(fs) + ScopeAdded(fr) /\ Depth(fs) \in Nat
  <2>1. PICK a, b : a = Pending(fs, Len(fs), {"block"}) /\ b = Pending(fs, Len(fs), {"then", "else", "loop"})
    OBVIOUS
  <2>2. a \in Nat /\ b \in Nat
    BY <1>2, <2>1
  <2>3. Depth(fs) = 3 + a + 2 * b
    BY <2>1 DEF Depth
  <2>4. CASE fr.kind = "block"
    <3>1. Pending(gs, Len(gs), {"block"}) = a + 1 /\ Pending(gs, Len(gs), {"then", "else", "loop"}) = b + 0
      BY <1>3, <2>1, <2>4
    <3>2. ScopeAdded(fr) = 1
      BY <2>4 DEF ScopeAdded
    <3>3. Depth(gs) = 3 + (a + 1) + 2 * (b + 0)
      BY <3>1 DEF Depth
    <3> QED
      BY <2>2, <2>3, <3>2, <3>3
  <2>5. CASE fr.kind \in {"then", "else", "loop"}
    <3>1. Pending(gs, Len(gs), {"block"}) = a + 0 /\ Pending(gs, Len(gs), {"then", "else", "loop"}) = b + 1
      BY <1>3, <2>1, <2>5
    <3>2. ScopeAdded(fr) = 2
      BY <2>5 DEF ScopeAdded
    <3>3. Depth(gs) = 3 + (a + 0) + 2 * (b + 1)
      BY <3>1 DEF Depth
    <3> QED
      BY <2>2, <2>3, <3>2, <3>3
  <2>6. CASE fr.kind \notin {"block", "then", "else", "loop"}
    <3>1. Pending(gs, Len(gs), {"block"}) = a + 0 /\ Pending(gs, Len(gs), {"then", "else", "loop"}) = b + 0
      BY <1>3, <2>1, <2>6
    <3>2. ScopeAdded(fr) = 0
      BY <2>6 DEF ScopeAdded
    <3>3. Depth(gs) = 3 + (a + 0) + 2 * (b + 0)
      BY <3>1 DEF Depth
    <3> QED
      BY <2>2, <2>3, <3>2, <3>3
  <2> QED
    BY <2>4, <2>5, <2>6
<1> QED
  BY <1>1, <1>2, <1>3, <1>4 DEF Loops

\* What Front returns.
LEMMA FrontFacts ==
  ASSUME NEW S, NEW s \in Seq(S), s # << >>
  PROVE  /\ Front(s) \in Seq(S) /\ Len(Front(s)) = Len(s) - 1 /\ Len(s) \in Nat \ {0}
         /\ \A i \in 1 .. Len(s) - 1 : Front(s)[i] = s[i]
<1>1. PICK r, n : r = SubSeq(s, 1, n - 1) /\ n = Len(s)
  OBVIOUS
<1>2. n \in Nat /\ n # 0
  BY <1>1
<1>3. r \in Seq(S) /\ Len(r) = n - 1 /\ \A i \in 1 .. n - 1 : r[i] = s[i]
  BY <1>1, <1>2
<1> QED
  BY <1>1, <1>2, <1>3 DEF Front

\* The innermost visit, and the others.
LEMMA CountPop ==
  ASSUME NEW fs \in Seq(Frame), fs # << >>
  PROVE  /\ Front(fs) \in Seq(Frame) /\ Len(Front(fs)) = Len(fs) - 1 /\ Last(fs) \in Frame
         /\ Last(fs) = fs[Len(fs)] /\ \A i \in 1 .. Len(fs) - 1 : Front(fs)[i] = fs[i]
         /\ fs = Append(Front(fs), Last(fs))
<1>1. Len(fs) \in Nat \ {0} /\ Last(fs) = fs[Len(fs)] /\ Last(fs) \in Frame
  BY DEF Last
<1>2. /\ Front(fs) \in Seq(Frame) /\ Len(Front(fs)) = Len(fs) - 1
      /\ \A i \in 1 .. Len(fs) - 1 : Front(fs)[i] = fs[i]
  BY FrontFacts
<1>3. PICK r, x, n : r = Front(fs) /\ x = Last(fs) /\ n = Len(fs)
  OBVIOUS
<1>4. /\ Append(r, x) \in Seq(Frame) /\ Len(Append(r, x)) = n
      /\ \A i \in 1 .. n : Append(r, x)[i] = fs[i]
  BY <1>1, <1>2, <1>3
<1>5. fs = Append(r, x)
  BY <1>3, <1>4, SeqsEqual
<1> QED
  BY <1>1, <1>2, <1>3, <1>5

\* A pending loop has a place on the loop stacks.
LEMMA LoopsBounds ==
  ASSUME NEW fs, NEW n \in Nat
  PROVE  /\ Loops(fs, n) \in Nat
         /\ \A i \in 1 .. n : fs[i].kind = "loop" => Loops(fs, i) \in 1 .. Loops(fs, n)
<1>1. Loops(fs, n) \in Nat
  BY PendingNat DEF Loops
<1>2. ASSUME NEW i \in 1 .. n, fs[i].kind = "loop" PROVE Loops(fs, i) \in 1 .. Loops(fs, n)
  <2>1. i - 1 \in Nat /\ (i - 1) + 1 = i /\ i \in 0 .. n /\ i \in Nat
    OBVIOUS
  <2>2. Pending(fs, i, {"loop"}) = Pending(fs, i - 1, {"loop"}) + 1
    <3>1. PICK j, K : j = i - 1 /\ K = {"loop"}
      OBVIOUS
    <3>2. j \in Nat /\ i = j + 1 /\ fs[i].kind \in K
      BY <1>2, <2>1, <3>1
    <3>3. Pending(fs, i, K) = Pending(fs, j, K) + 1
      BY <3>2, PendingStep
    <3> QED
      BY <3>1, <3>3
  <2>3. Pending(fs, i - 1, {"loop"}) \in Nat
    BY <2>1, PendingNat
  <2>4. Loops(fs, i) >= 1 /\ Loops(fs, i) \in Nat
    BY <1>2, <2>1, <2>2, <2>3 DEF Loops
  <2>5. Loops(fs, i) <= Loops(fs, n)
    BY <2>1, PendingMono DEF Loops
  <2> QED
    BY <1>1, <2>4, <2>5
<1> QED
  BY <1>1, <1>2

\* A loop begins: its blocks are pushed.
LEMMA LoopPush ==
  ASSUME NEW fs \in Seq(Frame), NEW br, NEW co, LoopStacks(br, co, fs),
         NEW fr \in Frame, fr.kind = "loop", fr.cont \in Nat, fr.head \in Nat,
         NEW gs, gs = Append(fs, fr)
  PROVE  LoopStacks(Append(br, fr.cont), Append(co, fr.head), gs)
<1>1. PICK n, k : n = Len(fs) /\ k = Loops(fs, n)
  OBVIOUS
<1>2. n \in Nat /\ Len(gs) = n + 1 /\ gs[n + 1] = fr /\ \A i \in 1 .. n : gs[i] = fs[i]
  BY <1>1
<1>3. /\ k \in Nat /\ Loops(gs, n + 1) = k + 1
      /\ \A i \in 1 .. n : Loops(gs, i) = Loops(fs, i)
      /\ \A i \in 1 .. n : fs[i].kind = "loop" => Loops(fs, i) \in 1 .. k
  <2>1. k \in Nat /\ \A i \in 1 .. n : fs[i].kind = "loop" => Loops(fs, i) \in 1 .. k
    BY <1>1, <1>2, LoopsBounds
  <2>2. \A i \in 0 .. n : Loops(gs, i) = Loops(fs, i)
    BY <1>1, CountPush
  <2>3. Loops(gs, Len(gs)) = Loops(fs, Len(fs)) + IF fr.kind = "loop" THEN 1 ELSE 0
    BY CountPush
  <2> QED
    BY <1>1, <1>2, <2>1, <2>2, <2>3
<1>4. PICK b, c : b = Append(br, fr.cont) /\ c = Append(co, fr.head)
  OBVIOUS
<1>5. /\ b \in Seq(Nat) /\ c \in Seq(Nat) /\ Len(b) = k + 1 /\ Len(c) = k + 1
      /\ b[k + 1] = fr.cont /\ c[k + 1] = fr.head
      /\ \A j \in 1 .. k : b[j] = br[j] /\ c[j] = co[j]
  <2>1. br \in Seq(Nat) /\ co \in Seq(Nat) /\ Len(br) = k /\ Len(co) = k
    BY <1>1 DEF LoopStacks
  <2> QED
    BY <1>4, <2>1
<1>6. ASSUME NEW i \in 1 .. n + 1, gs[i].kind = "loop"
      PROVE  b[Loops(gs, i)] = gs[i].cont /\ c[Loops(gs, i)] = gs[i].head
  <2>1. CASE i = n + 1
    BY <1>2, <1>3, <1>5, <2>1
  <2>2. CASE i \in 1 .. n
    <3>1. br[Loops(fs, i)] = fs[i].cont /\ co[Loops(fs, i)] = fs[i].head
      BY <1>1, <1>2, <1>6, <2>2 DEF LoopStacks
    <3> QED
      BY <1>2, <1>3, <1>5, <1>6, <2>2, <3>1
  <2> QED
    BY <1>2, <2>1, <2>2
<1> QED
  BY <1>2, <1>3, <1>4, <1>5, <1>6 DEF LoopStacks

\* Another statement begins: the loop stacks stay.
LEMMA OtherPush ==
  ASSUME NEW fs \in Seq(Frame), NEW br, NEW co, LoopStacks(br, co, fs),
         NEW fr \in Frame, fr.kind # "loop", NEW gs, gs = Append(fs, fr)
  PROVE  LoopStacks(br, co, gs)
<1>1. PICK n : n = Len(fs)
  OBVIOUS
<1>2. n \in Nat /\ Len(gs) = n + 1 /\ gs[n + 1] = fr /\ \A i \in 1 .. n : gs[i] = fs[i]
  BY <1>1
<1>3. \A i \in 0 .. n : Loops(gs, i) = Loops(fs, i)
  BY <1>1, CountPush
<1>4. Loops(gs, Len(gs)) = Loops(fs, Len(fs)) + IF fr.kind = "loop" THEN 1 ELSE 0
  BY CountPush
<1>5. Loops(fs, n) \in Nat
  BY <1>2, LoopsBounds
<1>6. Loops(gs, Len(gs)) = Loops(fs, Len(fs))
  BY <1>1, <1>4, <1>5
<1>7. \A i \in 1 .. n + 1 : gs[i].kind = "loop" => i \in 1 .. n
  BY <1>2
<1> QED
  BY <1>1, <1>2, <1>3, <1>6, <1>7 DEF LoopStacks

\* The innermost visit ends: the loop stacks are popped if it was a loop.
LEMMA LoopPop ==
  ASSUME NEW fs \in Seq(Frame), fs # << >>, NEW br, NEW co, LoopStacks(br, co, fs)
  PROVE  IF Last(fs).kind = "loop"
         THEN LoopStacks(Front(br), Front(co), Front(fs))
         ELSE LoopStacks(br, co, Front(fs))
<1>1. PICK rest, fr, n : rest = Front(fs) /\ fr = Last(fs) /\ n = Len(rest)
  OBVIOUS
<1>2. /\ rest \in Seq(Frame) /\ fr \in Frame /\ fs = Append(rest, fr)
      /\ Len(fs) = n + 1 /\ n \in Nat /\ \A i \in 1 .. n : rest[i] = fs[i]
  <2>1. /\ rest \in Seq(Frame) /\ fr \in Frame /\ fs = Append(rest, fr)
        /\ Len(rest) = Len(fs) - 1 /\ \A i \in 1 .. Len(fs) - 1 : rest[i] = fs[i]
    BY <1>1, CountPop
  <2> QED
    BY <1>1, <2>1
<1>3. \A i \in 0 .. n : Loops(fs, i) = Loops(rest, i)
  <2>1. \A i \in 0 .. Len(rest) : Loops(fs, i) = Loops(rest, i)
    BY <1>2, CountPush
  <2> QED
    BY <1>1, <2>1
<1>4. Loops(fs, Len(fs)) = Loops(rest, Len(rest)) + IF fr.kind = "loop" THEN 1 ELSE 0
  BY <1>2, CountPush
<1>5. PICK k : k = Loops(rest, n)
  OBVIOUS
<1>6. k \in Nat /\ \A i \in 1 .. n : rest[i].kind = "loop" => Loops(rest, i) \in 1 .. k
  BY <1>2, <1>5, LoopsBounds
<1>7. /\ br \in Seq(Nat) /\ co \in Seq(Nat)
      /\ Len(br) = Loops(fs, n + 1) /\ Len(co) = Loops(fs, n + 1)
      /\ \A i \in 1 .. n + 1 :
           fs[i].kind = "loop" => br[Loops(fs, i)] = fs[i].cont /\ co[Loops(fs, i)] = fs[i].head
  BY <1>2 DEF LoopStacks
<1>8. \A i \in 1 .. n : i \in 1 .. n + 1 /\ i \in 0 .. n
  BY <1>2
<1>9. \A i \in 1 .. n :
        rest[i].kind = "loop" =>
          br[Loops(rest, i)] = rest[i].cont /\ co[Loops(rest, i)] = rest[i].head
  BY <1>2, <1>3, <1>7, <1>8
<1>10. CASE fr.kind = "loop"
  <2>1. Len(br) = k + 1 /\ Len(co) = k + 1
    BY <1>1, <1>2, <1>4, <1>5, <1>7, <1>10
  <2>2. /\ Front(br) \in Seq(Nat) /\ Len(Front(br)) = k
        /\ \A j \in 1 .. k : Front(br)[j] = br[j]
    <3>1. br # << >> /\ Len(br) - 1 = k
      BY <1>6, <1>7, <2>1
    <3> QED
      BY <1>7, <3>1, FrontFacts
  <2>3. /\ Front(co) \in Seq(Nat) /\ Len(Front(co)) = k
        /\ \A j \in 1 .. k : Front(co)[j] = co[j]
    <3>1. co # << >> /\ Len(co) - 1 = k
      BY <1>6, <1>7, <2>1
    <3> QED
      BY <1>7, <3>1, FrontFacts
  <2>4. \A i \in 1 .. n :
          rest[i].kind = "loop" =>
            Front(br)[Loops(rest, i)] = rest[i].cont /\ Front(co)[Loops(rest, i)] = rest[i].head
    BY <1>6, <1>9, <2>2, <2>3
  <2>5. LoopStacks(Front(br), Front(co), rest)
    BY <1>1, <1>5, <2>2, <2>3, <2>4 DEF LoopStacks
  <2> QED
    BY <1>1, <1>10, <2>5
<1>11. CASE fr.kind # "loop"
  <2>1. Len(br) = k /\ Len(co) = k
    <3>1. Loops(fs, n + 1) = k + 0
      BY <1>1, <1>2, <1>4, <1>5, <1>11
    <3> QED
      BY <1>6, <1>7, <3>1
  <2>2. LoopStacks(br, co, rest)
    BY <1>1, <1>5, <1>7, <1>9, <2>1 DEF LoopStacks
  <2> QED
    BY <1>1, <1>11, <2>2
<1> QED
  BY <1>10, <1>11

\* break and continue branch to blocks of the innermost pending loop
LEMMA LoopTop ==
  ASSUME NEW fs \in Seq(Frame), NEW br, NEW co, LoopStacks(br, co, fs), br # << >> \/ co # << >>
  PROVE  \E i \in 1 .. Len(fs) :
           fs[i].kind = "loop" /\ Last(br) = fs[i].cont /\ Last(co) = fs[i].head
<1>1. PICK n, k : n = Len(fs) /\ k = Loops(fs, n)
  OBVIOUS
<1>2. /\ n \in Nat /\ br \in Seq(Nat) /\ co \in Seq(Nat) /\ Len(br) = k /\ Len(co) = k /\ k # 0
  <2>1. br \in Seq(Nat) /\ co \in Seq(Nat) /\ Len(br) = k /\ Len(co) = k
    BY <1>1 DEF LoopStacks
  <2> QED
    BY <1>1, <2>1
<1>3. PICK i \in 1 .. n : fs[i].kind \in {"loop"} /\ Pending(fs, i, {"loop"}) = Pending(fs, n, {"loop"})
  BY <1>1, <1>2, PendingFound DEF Loops
<1>4. Loops(fs, i) = k /\ fs[i].kind = "loop"
  BY <1>1, <1>3 DEF Loops
<1>5. br[k] = fs[i].cont /\ co[k] = fs[i].head
  BY <1>1, <1>4 DEF LoopStacks
<1> QED
  BY <1>1, <1>2, <1>4, <1>5 DEF Last

-----------------------------------------------------------------------------
\* n scopes are open
Scopes(sc, n) == (\E S : sc \in Seq(S)) /\ Len(sc) = n

\* A scope more, a scope less.
LEMMA EnterExit ==
  ASSUME NEW sc, NEW n \in Nat, Scopes(sc, n)
  PROVE  Scopes(Enter(sc), n + 1) /\ (n > 0 => Scopes(Exit(sc), n - 1))
<1>1. PICK S : sc \in Seq(S)
  BY DEF Scopes
<1>2. /\ Append(sc, NoBindings) \in Seq(S \cup {NoBindings}) /\ Len(Append(sc, NoBindings)) = n + 1
  <2>1. sc \in Seq(S \cup {NoBindings}) /\ Len(sc) = n
    BY <1>1 DEF Scopes
  <2> QED
    BY <2>1
<1>3. ASSUME n > 0 PROVE Front(sc) \in Seq(S) /\ Len(Front(sc)) = n - 1
  <2>1. sc # << >> /\ Len(sc) = n
    BY <1>1, <1>3 DEF Scopes
  <2> QED
    BY <1>1, <2>1, FrontFacts
<1> QED
  BY <1>2, <1>3 DEF Scopes, Enter, Exit

\* A new name opens no scope.
LEMMA PushKeeps ==
  ASSUME NEW sc, NEW n \in Nat \ {0}, Scopes(sc, n), NEW m, NEW a
  PROVE  Scopes(Push(sc, m, a), n)
<1>1. PICK S : sc \in Seq(S) /\ Len(sc) = n
  BY DEF Scopes
<1>2. PICK new : new = [x \in DOMAIN sc[Len(sc)] \cup {m} |->
                          IF x \in DOMAIN sc[Len(sc)] THEN sc[Len(sc)][x] ELSE a]
  OBVIOUS
<1>3. Push(sc, m, a) = [sc EXCEPT ![n] = new]
  BY <1>1, <1>2 DEF Push
<1>4. sc \in [1 .. n -> S \cup {new}]
  BY <1>1
<1>5. [sc EXCEPT ![n] = new] \in [1 .. n -> S \cup {new}]
  BY <1>4
<1>6. [sc EXCEPT ![n] = new] \in Seq(S \cup {new}) /\ Len([sc EXCEPT ![n] = new]) = n
  BY <1>5, FunSeq
<1> QED
  BY <1>3, <1>6 DEF Scopes

-----------------------------------------------------------------------------
(***************************************************************************)
(* The inductive invariant, and the actions that keep it.                  *)
(***************************************************************************)
IInv ==
  /\ Body(ir)
  /\ Framed(ir, frames)
  /\ LoopStacks(breakBB, continueBB, frames)
  /\ Scopes(scope, IF frames = << >> THEN 1 ELSE Depth(frames))

\* What holds when a statement is visited.
LEMMA Visiting ==
  ASSUME IInv, NEW n, VisitCounting(n)
  PROVE  /\ frames # << >> /\ ir.cur \in Open(ir) /\ Body(ir) /\ Framed(ir, frames)
         /\ frames \in Seq(Frame) /\ LoopStacks(breakBB, continueBB, frames)
         /\ Scopes(scope, Depth(frames)) /\ Depth(frames) \in Nat /\ Depth(frames) > 2
<1>1. frames # << >> /\ ir.cur \in Open(ir)
  BY BlocksAre DEF IInv, Body, VisitCounting, Open
<1>2. frames \in Seq(Frame)
  BY DEF IInv, Framed, FramesOK
<1>3. Depth(frames) \in Nat /\ Depth(frames) > 2
  <2>1. Len(frames) \in Nat
    BY <1>2
  <2>2. \A K : Pending(frames, Len(frames), K) \in Nat
    BY <2>1, PendingNat
  <2> QED
    BY <2>2 DEF Depth
<1> QED
  BY <1>1, <1>2, <1>3 DEF IInv

\* a statement that contains no statement
LEMMA SimpleKeeps ==
  ASSUME IInv, NEW n, VisitCounting(n),
         Body(ir'), Advances(ir, ir', {}), Open(ir') \subseteq (Open(ir) \ {ir.cur}) \cup {ir'.cur},
         UNCHANGED <<breakBB, continueBB, frames>>, Scopes(scope', Depth(frames))
  PROVE  IInv'
<1>1. Framed(ir', frames)
  BY Visiting, FramedStays
<1> QED
  BY <1>1, Visiting DEF IInv

\* A declaration.
LEMMA DeclKeeps ==
  ASSUME IInv, NEW m, NEW e, Decl(m, e)
  PROVE  IInv'
<1>0. VisitCounting(1)
  BY DEF Decl, VisitNext
<1>1. PICK g : g = Eval(ir, scope, e)
  OBVIOUS
<1>2. ir' = EmitStore(g, allocas + 1, ValueOf(g, e)) /\ scope' = Push(scope, m, allocas + 1)
      /\ UNCHANGED <<breakBB, continueBB, frames>>
  BY <1>1 DEF Decl
<1>3. Body(g) /\ SameGraph(ir, g) /\ g.cur \in Open(g)
  <2>1. Body(g) /\ SameGraph(ir, g)
    BY <1>0, <1>1, Visiting, EvalKeeps
  <2> QED
    BY <1>0, <2>1, Visiting DEF SameGraph
<1>4. Body(ir') /\ SameGraph(g, ir')
  <2>1. Available(g, ValueOf(g, e))
    BY <1>0, <1>1, Visiting, ValueAvailable
  <2> QED
    BY <1>2, <1>3, <2>1, StoreKeeps
<1>5. Body(ir') /\ SameGraph(ir, ir')
  BY <1>3, <1>4 DEF SameGraph
<1>6. Scopes(scope', Depth(frames))
  BY <1>0, <1>2, Visiting, PushKeeps
<1>7. Advances(ir, ir', {}) /\ Open(ir') = Open(ir) /\ ir'.cur = ir.cur
  BY <1>5, SameAdvances
<1> QED
  BY <1>0, <1>2, <1>5, <1>6, <1>7, SimpleKeeps

\* An assignment.
LEMMA AssignKeeps ==
  ASSUME IInv, NEW m, NEW e, Assign(m, e)
  PROVE  IInv'
<1>0. VisitCounting(1)
  BY DEF Assign, VisitNext
<1>1. PICK g : g = Eval(ir, scope, e)
  OBVIOUS
<1>2. PICK h : h = EmitLoad(g, Find(scope, m))
  OBVIOUS
<1>3. ir' = EmitStore(h, Find(scope, m), IF e = NoName THEN Const(h.ids + 1) ELSE Loaded(g.ids))
      /\ UNCHANGED <<breakBB, continueBB, frames, scope>>
  BY <1>1, <1>2 DEF Assign
<1>4. Body(g) /\ SameGraph(ir, g) /\ g.cur \in Open(g)
  <2>1. Body(g) /\ SameGraph(ir, g)
    BY <1>0, <1>1, Visiting, EvalKeeps
  <2> QED
    BY <1>0, <2>1, Visiting DEF SameGraph
<1>5. Body(h) /\ SameGraph(g, h) /\ h.cur \in Open(h)
  <2>1. Body(h) /\ SameGraph(g, h)
    BY <1>2, <1>4, LoadKeeps
  <2> QED
    BY <1>4, <2>1 DEF SameGraph
<1>6. Body(ir') /\ SameGraph(h, ir')
  <2>1. e # NoName => Available(h, Loaded(g.ids))
    <3>1. e # NoName => Available(g, Loaded(g.ids))
      BY <1>0, <1>1, Visiting, ValueAvailable
    <3>2. \A v : Available(g, v) => Available(h, v)
      BY <1>2, <1>4, LoadKeeps
    <3> QED
      BY <3>1, <3>2
  <2>2. Available(h, IF e = NoName THEN Const(h.ids + 1) ELSE Loaded(g.ids))
    BY <2>1, ConstAvailable
  <2> QED
    BY <1>3, <1>5, <2>2, StoreKeeps
<1>7. SameGraph(ir, ir')
  BY <1>4, <1>5, <1>6 DEF SameGraph
<1>8. Scopes(scope', Depth(frames))
  BY <1>0, <1>3, Visiting
<1>9. Advances(ir, ir', {}) /\ Open(ir') = Open(ir) /\ ir'.cur = ir.cur
  BY <1>7, SameAdvances
<1> QED
  BY <1>0, <1>3, <1>6, <1>8, <1>9, SimpleKeeps

\* ret closes the insert block and adds no edge.
LEMMA RetKeeps ==
  ASSUME NEW f, Body(f), f.cur \in Open(f), NEW g, g = Emit(f, Ret)
  PROVE  Body(g) /\ Advances(f, g, {}) /\ Open(g) = Open(f) \ {f.cur} /\ g.cur = f.cur
<1>1. ~IsPhi(Ret) /\ Ret.op = "ret" /\ Ret.op \notin {"load", "store"}
  BY DEF IsPhi, Ret
<1>2. /\ Body(g) /\ g.pre = f.pre /\ g.cur = f.cur /\ Blocks(g) = Blocks(f)
      /\ Open(g) = Open(f) \ {f.cur}
      /\ \A b \in Blocks(f) : Plain(g, b) <=> Plain(f, b)
  BY <1>1, EmitKeeps
<1> QED
  BY <1>2 DEF Advances, Open

\* A return statement.
LEMMA ReturnKeeps ==
  ASSUME IInv, NEW e, Return(e)
  PROVE  IInv'
<1>0. VisitCounting(1)
  BY DEF Return, VisitNext
<1>1. PICK g : g = Eval(ir, scope, e)
  OBVIOUS
<1>2. ir' = Emit(g, Ret) /\ UNCHANGED <<breakBB, continueBB, frames, scope>>
  BY <1>1 DEF Return
<1>3. Body(g) /\ SameGraph(ir, g) /\ g.cur \in Open(g)
  <2>1. Body(g) /\ SameGraph(ir, g)
    BY <1>0, <1>1, Visiting, EvalKeeps
  <2> QED
    BY <1>0, <2>1, Visiting DEF SameGraph
<1>4. Body(ir') /\ Advances(g, ir', {}) /\ Open(ir') = Open(g) \ {g.cur} /\ ir'.cur = g.cur
  BY <1>2, <1>3, RetKeeps
<1>5. Advances(ir, g, {}) /\ Open(g) = Open(ir) /\ g.cur = ir.cur
  BY <1>3, SameAdvances
<1>6. Advances(ir, ir', {})
  BY <1>4, <1>5, AdvancesOn
<1>7. Scopes(scope', Depth(frames))
  BY <1>0, <1>2, Visiting
<1> QED
  BY <1>0, <1>2, <1>4, <1>5, <1>6, <1>7, SimpleKeeps

\* break and continue, whatever lies between them and their loop.
LEMMA LoopExitKeeps ==
  ASSUME IInv, Break \/ Continue
  PROVE  IInv'
<1>0. VisitCounting(1) /\ (breakBB # << >> \/ continueBB # << >>)
  BY DEF Break, Continue, VisitNext
<1>1. PICK i \in 1 .. Len(frames) :
        frames[i].kind = "loop" /\ Last(breakBB) = frames[i].cont /\ Last(continueBB) = frames[i].head
  BY <1>0, Visiting, LoopTop
<1>2. FrameOK(ir, frames[i]) /\ frames[i].cont \in Targets(frames[i])
  BY <1>0, <1>1, Visiting DEF Framed, FramesOK, Targets
<1>3. PICK t : /\ ir' = Br(ir, t)
               /\ t \in Targets(frames[i]) \/ (frames[i].kind = "loop" /\ t = frames[i].head)
  BY <1>1, <1>2 DEF Break, Continue
<1>4. UNCHANGED <<breakBB, continueBB, frames, scope>>
  BY DEF Break, Continue
<1>5. MayBranch(ir, ir.cur, t)
  BY <1>0, <1>2, <1>3, Visiting, TargetsMayBranch
<1>6. Body(ir') /\ Advances(ir, ir', {}) /\ ir'.cur = ir.cur /\ Open(ir') = Open(ir) \ {ir.cur}
  BY <1>0, <1>3, <1>5, Visiting, BrAdvances
<1>7. Scopes(scope', Depth(frames))
  BY <1>0, <1>4, Visiting
<1> QED
  BY <1>0, <1>4, <1>6, <1>7, SimpleKeeps

\* a statement whose visit continues after the statements of its body
LEMMA OpensKeeps ==
  ASSUME IInv, NEW n, VisitCounting(n),
         Body(ir'), Advances(ir, ir', {}),
         NEW fr \in Frame, fr.kind # "func", FrameOK(ir', fr),
         Targets(fr) \cap Open(ir) = {},
         Open(ir') \subseteq (Open(ir) \ {ir.cur}) \cup {ir'.cur} \cup Targets(fr),
         frames' = Append(frames, fr), Scopes(scope', Depth(frames) + ScopeAdded(fr)),
         LoopStacks(breakBB', continueBB', frames')
  PROVE  IInv'
<1>1. /\ frames \in Seq(Frame) /\ frames # << >> /\ FramesOK(ir, frames)
      /\ Open(ir) \subseteq {ir.cur} \cup Waiting(frames)
  BY Visiting DEF Framed
<1>2. FramesOK(ir', frames)
  <2>1. \A i \in 1 .. Len(frames) : FrameOK(ir', frames[i])
    <3> TAKE i \in 1 .. Len(frames)
    <3>1. FrameOK(ir, frames[i]) /\ Targets(frames[i]) \cap {} = {}
      BY <1>1 DEF FramesOK
    <3> QED
      BY <3>1, FrameAdvances
  <2> QED
    BY <1>1, <2>1 DEF FramesOK
<1>3. Targets(fr) \cap Waiting(frames) = {}
  <2>1. Waiting(frames) \subseteq Open(ir)
    BY <1>1 DEF FramesOK, FrameOK, Waiting
  <2> QED
    BY <2>1
<1>4. Framed(ir', Append(frames, fr))
  BY <1>1, <1>2, <1>3, FramedPush
<1>5. frames' # << >>
  <2>1. Len(frames') = Len(frames) + 1 /\ Len(frames) \in Nat
    BY <1>1
  <2> QED
    BY <2>1
<1>6. Depth(frames') = Depth(frames) + ScopeAdded(fr)
  BY <1>1, CountPush
<1> QED
  BY <1>4, <1>5, <1>6 DEF IInv

\* A block used as a statement.
LEMMA BlockKeeps ==
  ASSUME IInv, Block
  PROVE  IInv'
<1>0. VisitCounting(1)
  BY DEF Block, VisitNext
<1>1. /\ scope' = Enter(scope) /\ frames' = Append(frames, [kind |-> "block"])
      /\ UNCHANGED <<ir, breakBB, continueBB>>
  BY DEF Block
<1>2. PICK fr : fr = [kind |-> "block"]
  OBVIOUS
<1>3. fr \in Frame /\ fr.kind = "block" /\ Targets(fr) = {} /\ ScopeAdded(fr) = 1
  BY <1>2 DEF Frame, Targets, ScopeAdded
<1>4. Advances(ir, ir', {}) /\ FrameOK(ir', fr)
  BY <1>1, <1>3 DEF Advances, FrameOK, Open
<1>5. Scopes(scope', Depth(frames) + ScopeAdded(fr))
  BY <1>0, <1>1, <1>3, Visiting, EnterExit
<1>6. LoopStacks(breakBB', continueBB', frames')
  BY <1>0, <1>1, <1>2, <1>3, Visiting, OtherPush
<1>7. Body(ir')
  BY <1>0, <1>1, Visiting
<1> QED
  BY <1>0, <1>1, <1>2, <1>3, <1>4, <1>5, <1>6, <1>7, OpensKeeps

\* A condition has at least one operand.
LEMMA CondShape ==
  ASSUME NEW c \in Conds
  PROVE  c \in Seq(Nat \ {0}) /\ c # << >>
BY CondsAssumption

\* if and while open two scopes.
LEMMA TwoScopes ==
  ASSUME NEW sc, NEW n \in Nat, Scopes(sc, n)
  PROVE  Scopes(Enter(Enter(sc)), n + 2)
<1>1. Scopes(Enter(sc), n + 1) /\ n + 1 \in Nat
  BY EnterExit
<1>2. Scopes(Enter(Enter(sc)), (n + 1) + 1)
  BY <1>1, EnterExit
<1> QED
  BY <1>2

\* trueBB and the blocks after it exist when the condition branches
LEMMA NewBlocks ==
  ASSUME NEW g, Body(g)
  PROVE  /\ Extended(g, NewBlock(NewBlock(g)))
         /\ LastBlock(NewBlock(NewBlock(g))) = LastBlock(g) + 2
         /\ Extended(g, NewBlock(NewBlock(NewBlock(g))))
         /\ LastBlock(NewBlock(NewBlock(NewBlock(g)))) = LastBlock(g) + 3
         /\ LastBlock(g) \in Nat
<1>1. LastBlock(g) \in Nat
  BY BlocksAre DEF Body
<1>2. Extended(g, NewBlock(g)) /\ LastBlock(NewBlock(g)) = LastBlock(g) + 1
  BY ExtendedSelf, ExtendedMore
<1>3. /\ Extended(g, NewBlock(NewBlock(g)))
      /\ LastBlock(NewBlock(NewBlock(g))) = (LastBlock(g) + 1) + 1
  BY <1>2, ExtendedMore
<1>4. /\ Extended(g, NewBlock(NewBlock(NewBlock(g))))
      /\ LastBlock(NewBlock(NewBlock(NewBlock(g)))) = ((LastBlock(g) + 1) + 1) + 1
  BY <1>3, ExtendedMore
<1> QED
  BY <1>1, <1>3, <1>4

\* An if, up to its first arm.
LEMMA IfKeeps ==
  ASSUME IInv, NEW c \in Conds, NEW e, NEW hasElse \in BOOLEAN, If(c, e, hasElse)
  PROVE  IInv'
<1>0. PICK n : VisitCounting(n)
  BY DEF If, VisitCond
<1>1. PICK g, trueBB, contBB :
        /\ g = LowerOr(ir, scope, e, c) /\ trueBB = LastBlock(g) + 1
        /\ contBB = IF hasElse THEN trueBB + 2 ELSE trueBB + 1
        /\ LET h == IF hasElse THEN NewBlock(NewBlock(NewBlock(g))) ELSE NewBlock(NewBlock(g))
           IN  /\ ir' = SetInsert(CondBr(h, trueBB, IF hasElse THEN trueBB + 1 ELSE contBB), trueBB)
               /\ frames' = Append(frames, [kind |-> "then", cont |-> contBB,
                                            else |-> IF hasElse THEN trueBB + 1 ELSE 0])
        /\ scope' = Enter(Enter(scope)) /\ UNCHANGED <<breakBB, continueBB>>
  BY DEF If
<1>2. PICK h, other, elseBB, fr :
        /\ h = IF hasElse THEN NewBlock(NewBlock(NewBlock(g))) ELSE NewBlock(NewBlock(g))
        /\ other = (IF hasElse THEN trueBB + 1 ELSE contBB)
        /\ elseBB = (IF hasElse THEN trueBB + 1 ELSE 0)
        /\ fr = [kind |-> "then", cont |-> contBB, else |-> elseBB]
  OBVIOUS
<1>3. ir' = SetInsert(CondBr(h, trueBB, other), trueBB) /\ frames' = Append(frames, fr)
  BY <1>1, <1>2
<1>4. Lowered(ir, g)
  BY <1>0, <1>1, CondShape, Visiting, LowerOrLowers
<1>5. /\ Extended(g, h) /\ LastBlock(g) \in Nat
      /\ LastBlock(h) = LastBlock(g) + (IF hasElse THEN 3 ELSE 2)
  BY <1>2, <1>4, NewBlocks DEF Lowered
<1>6. PICK new : new = LastBlock(g) + 1 .. LastBlock(h)
  OBVIOUS
<1>7. /\ trueBB \in new /\ other \in new /\ trueBB # other
      /\ contBB \in Nat /\ elseBB \in Nat /\ contBB # elseBB
      /\ contBB \in new \ {trueBB} /\ (elseBB # 0 => elseBB \in new \ {trueBB})
      /\ new \subseteq {trueBB, contBB} \cup (IF elseBB = 0 THEN {} ELSE {elseBB})
  <2>1. CASE hasElse
    <3>1. trueBB = LastBlock(g) + 1 /\ contBB = LastBlock(g) + 3 /\ elseBB = LastBlock(g) + 2
          /\ other = LastBlock(g) + 2 /\ LastBlock(h) = LastBlock(g) + 3
      BY <1>1, <1>2, <1>5, <2>1
    <3> QED
      BY <1>5, <1>6, <3>1
  <2>2. CASE ~hasElse
    <3>1. trueBB = LastBlock(g) + 1 /\ contBB = LastBlock(g) + 2 /\ elseBB = 0
          /\ other = LastBlock(g) + 2 /\ LastBlock(h) = LastBlock(g) + 2
      BY <1>1, <1>2, <1>5, <2>2
    <3> QED
      BY <1>5, <1>6, <3>1
  <2> QED
    BY <2>1, <2>2
<1>v. Body(ir) /\ ir.cur \in Open(ir)
  BY <1>0, Visiting
<1>n. new = LastBlock(g) + 1 .. LastBlock(h) /\ Extended(g, h)
  BY <1>5, <1>6
<1>f. Forked(ir, g, h, new, trueBB, other, ir')
  BY <1>3, <1>4, <1>7, <1>n, <1>v DEF Forked
<1>8. /\ Body(ir') /\ ir'.cur = trueBB /\ Advances(ir, ir', {})
      /\ Open(ir') = (Open(ir) \ {ir.cur}) \cup new
      /\ \A b \in new : Plain(ir', b) /\ b \notin Blocks(ir) /\ b # Entry /\ b \in Nat \ {0}
  <2>1. Body(ir') /\ ir'.cur = trueBB /\ Advances(ir, ir', {})
    BY <1>f, ForkKeeps
  <2>2. Open(ir') = (Open(ir) \ {ir.cur}) \cup new
    BY <1>f, ForkKeeps
  <2>3. \A b \in new : Plain(ir', b) /\ b \notin Blocks(ir) /\ b # Entry /\ b \in Nat \ {0}
    BY <1>f, ForkKeeps
  <2> QED
    BY <2>1, <2>2, <2>3
<1>9. /\ fr \in Frame /\ fr.kind = "then" /\ fr.cont = contBB /\ fr.else = elseBB
      /\ Targets(fr) = {contBB} \cup (IF elseBB = 0 THEN {} ELSE {elseBB})
      /\ ScopeAdded(fr) = 2
  BY <1>2, <1>7 DEF Frame, Targets, ScopeAdded
<1>10. Targets(fr) \subseteq new \ {trueBB} /\ new \subseteq {trueBB} \cup Targets(fr)
  BY <1>7, <1>9
<1>11. FrameOK(ir', fr)
  BY <1>7, <1>8, <1>9, <1>10 DEF FrameOK
<1>12. Targets(fr) \cap Open(ir) = {}
  BY <1>8, <1>10 DEF Open
<1>13. Open(ir') \subseteq (Open(ir) \ {ir.cur}) \cup {ir'.cur} \cup Targets(fr)
  BY <1>8, <1>10
<1>14. Scopes(scope', Depth(frames) + ScopeAdded(fr))
  BY <1>0, <1>1, <1>9, Visiting, TwoScopes
<1>15. LoopStacks(breakBB', continueBB', frames')
  BY <1>0, <1>1, <1>3, <1>9, Visiting, OtherPush
<1> QED
  BY <1>0, <1>3, <1>8, <1>9, <1>11, <1>12, <1>13, <1>14, <1>15, OpensKeeps

\* A while, up to its body.
LEMMA WhileKeeps ==
  ASSUME IInv, NEW c \in Conds, NEW e, While(c, e)
  PROVE  IInv'
<1>0. PICK n : VisitCounting(n)
  BY DEF While, VisitCond
<1>1. PICK exprBB, g, trueBB, contBB :
        /\ exprBB = LastBlock(ir) + 1
        /\ g = LowerOr(SetInsert(Br(NewBlock(ir), exprBB), exprBB), scope, e, c)
        /\ trueBB = LastBlock(g) + 1 /\ contBB = LastBlock(g) + 2
        /\ ir' = SetInsert(CondBr(NewBlock(NewBlock(g)), trueBB, contBB), trueBB)
        /\ breakBB' = Append(breakBB, contBB)
        /\ continueBB' = Append(continueBB, exprBB)
        /\ frames' = Append(frames, [kind |-> "loop", head |-> exprBB, cont |-> contBB])
        /\ scope' = Enter(Enter(scope))
  BY DEF While
<1>2. PICK f1, f2, f, h, fr :
        /\ f1 = NewBlock(ir) /\ f2 = Br(f1, exprBB) /\ f = SetInsert(f2, exprBB)
        /\ h = NewBlock(NewBlock(g)) /\ fr = [kind |-> "loop", head |-> exprBB, cont |-> contBB]
  OBVIOUS
<1>3. Body(ir) /\ ir.cur \in Open(ir) /\ LastBlock(ir) \in Nat /\ Blocks(ir) = 1 .. LastBlock(ir)
      /\ ir.cur \in Blocks(ir)
  BY <1>0, Visiting, BlocksAre DEF Body
<1>4. /\ Body(f1) /\ f1.cur = ir.cur /\ Blocks(f1) = Blocks(ir) \cup {exprBB} /\ exprBB \notin Blocks(ir)
      /\ f1.succ[exprBB] = << >>
      /\ \A b \in Blocks(ir) : f1.succ[b] = ir.succ[b] /\ f1.pre[b] = ir.pre[b]
      /\ Open(f1) = Open(ir) \cup {exprBB}
      /\ Plain(f1, exprBB)
      /\ \A b \in Blocks(ir) : Plain(f1, b) <=> Plain(ir, b)
  BY <1>1, <1>2, <1>3, NewBlockKeeps
<1>5. MayBranch(f1, f1.cur, exprBB)
  <2>1. f1.cur \in Open(f1) /\ exprBB # f1.cur /\ exprBB # Entry
    BY <1>1, <1>3, <1>4 DEF Entry
  <2>2. f1.succ[f1.cur] = << >>
    BY <1>4, <2>1, OpenEdges
  <2>3. ToSet(f1.succ[f1.cur]) = {} /\ ToSet(f1.succ[exprBB]) = {}
    BY <1>4, <2>2 DEF ToSet
  <2>4. Sep(f1, exprBB, f1.cur)
    <3>1. {exprBB} \in SUBSET Blocks(f1) /\ f1.cur \notin {exprBB}
          /\ \A z \in {exprBB} : ToSet(f1.succ[z]) \subseteq {exprBB}
      BY <1>4, <2>1, <2>3
    <3> QED
      BY <3>1 DEF Sep
  <2> QED
    BY <1>4, <2>1, <2>3, <2>4 DEF MayBranch
<1>6. /\ Body(f2) /\ Advances(f1, f2, {}) /\ f2.cur = f1.cur /\ Open(f2) = Open(f1) \ {f1.cur}
      /\ f2.pre[exprBB] # << >> /\ Blocks(f2) = Blocks(f1)
      /\ \A b \in Blocks(f1) : Plain(f2, b) <=> Plain(f1, b)
  BY <1>2, <1>3, <1>4, <1>5, BrAdvances
<1>7. /\ Body(f) /\ f.cur = exprBB /\ f.pre = f2.pre
      /\ Blocks(f) = Blocks(f2) /\ Open(f) = Open(f2)
      /\ \A b \in Blocks(f2) : Plain(f, b) <=> Plain(f2, b)
  BY <1>2, <1>4, <1>6, SetInsertKeeps
<1>8. f.cur \in Open(f) /\ Plain(f, exprBB) /\ f.pre[exprBB] # << >>
  BY <1>3, <1>4, <1>6, <1>7
<1>9. Advances(ir, f, {}) /\ Open(f) = (Open(ir) \ {ir.cur}) \cup {exprBB}
  <2>1. Open(f) = (Open(ir) \ {ir.cur}) \cup {exprBB}
    BY <1>3, <1>4, <1>6, <1>7
  <2>2. \A b \in Blocks(ir) : /\ b \in Blocks(f) /\ b # exprBB
                              /\ Plain(ir, b) => Plain(f, b)
    BY <1>4, <1>6, <1>7
  <2>3. \A b \in Blocks(ir) \ Open(ir) : ir.pre[b] # << >> => f.pre[b] # << >>
    <3>1. \A b \in Blocks(ir) \ Open(ir) : b \in Blocks(f1) \ Open(f1)
      BY <1>4
    <3> QED
      BY <1>4, <1>6, <1>7, <3>1 DEF Advances
  <2>4. \A t \in Open(ir) : t \in Blocks(ir)
    BY DEF Open
  <2> QED
    BY <1>7, <2>1, <2>2, <2>3, <2>4 DEF Advances
<1>10. Lowered(f, g)
  BY <1>1, <1>2, <1>7, <1>8, CondShape, LowerOrLowers
<1>11. Extended(g, h) /\ LastBlock(g) \in Nat /\ LastBlock(h) = LastBlock(g) + 2
  BY <1>2, <1>10, NewBlocks DEF Lowered
<1>12. PICK new : new = LastBlock(g) + 1 .. LastBlock(h)
  OBVIOUS
<1>13. new = {trueBB, contBB} /\ trueBB # contBB /\ contBB \in Nat /\ exprBB \in Nat
  BY <1>1, <1>3, <1>11, <1>12
<1>14. ir' = SetInsert(CondBr(h, trueBB, contBB), trueBB)
  BY <1>1, <1>2
<1>n. Extended(g, h) /\ trueBB \in new /\ contBB \in new /\ new = LastBlock(g) + 1 .. LastBlock(h)
  BY <1>11, <1>12, <1>13
<1>f. Forked(f, g, h, new, trueBB, contBB, ir')
  BY <1>7, <1>8, <1>10, <1>13, <1>14, <1>n DEF Forked
<1>15. /\ Body(ir') /\ ir'.cur = trueBB /\ Advances(f, ir', {})
       /\ Open(ir') = (Open(f) \ {f.cur}) \cup new
       /\ \A b \in new : Plain(ir', b) /\ b \notin Blocks(f) /\ b # Entry /\ b \in Nat \ {0}
       /\ f.cur \in Blocks(ir') \ Open(ir') /\ ir'.pre[f.cur] = f.pre[f.cur]
       /\ Plain(f, f.cur) => Plain(ir', f.cur)
  <2>1. Body(ir') /\ ir'.cur = trueBB /\ Advances(f, ir', {})
    BY <1>f, ForkKeeps
  <2>2. Open(ir') = (Open(f) \ {f.cur}) \cup new
    BY <1>f, ForkKeeps
  <2>3. \A b \in new : Plain(ir', b) /\ b \notin Blocks(f) /\ b # Entry /\ b \in Nat \ {0}
    BY <1>f, ForkKeeps
  <2>4. f.cur \in Blocks(ir') \ Open(ir') /\ ir'.pre[f.cur] = f.pre[f.cur]
    BY <1>f, ForkKeeps
  <2>5. Plain(f, f.cur) => Plain(ir', f.cur)
    BY <1>f, ForkKeeps
  <2> QED
    BY <2>1, <2>2, <2>3, <2>4, <2>5
<1>16. Advances(ir, ir', {})
  BY <1>9, <1>15, AdvancesOn
<1>17. /\ fr \in Frame /\ fr.kind = "loop" /\ fr.cont = contBB /\ fr.head = exprBB
       /\ Targets(fr) = {contBB} /\ ScopeAdded(fr) = 2
  BY <1>2, <1>13 DEF Frame, Targets, ScopeAdded
<1>18. FrameOK(ir', fr)
  <2>1. contBB \in Open(ir') /\ contBB # ir'.cur /\ contBB # Entry /\ Plain(ir', contBB)
    BY <1>13, <1>15
  <2>2. /\ exprBB \in Blocks(ir') \ Open(ir') /\ exprBB # Entry
        /\ Plain(ir', exprBB) /\ ir'.pre[exprBB] # << >>
    BY <1>1, <1>3, <1>4, <1>7, <1>8, <1>15 DEF Entry
  <2> QED
    BY <1>17, <2>1, <2>2 DEF FrameOK
<1>19. Targets(fr) \cap Open(ir) = {}
  BY <1>4, <1>6, <1>7, <1>13, <1>15, <1>17 DEF Open
<1>20. Open(ir') \subseteq (Open(ir) \ {ir.cur}) \cup {ir'.cur} \cup Targets(fr)
  BY <1>7, <1>9, <1>13, <1>15, <1>17
<1>21. Scopes(scope', Depth(frames) + ScopeAdded(fr))
  BY <1>0, <1>1, <1>17, Visiting, TwoScopes
<1>22. frames' = Append(frames, fr)
  BY <1>1, <1>2
<1>23. LoopStacks(breakBB', continueBB', frames')
  BY <1>0, <1>1, <1>13, <1>17, <1>22, Visiting, LoopPush
<1> QED
  BY <1>0, <1>15, <1>16, <1>17, <1>18, <1>19, <1>20, <1>21, <1>22, <1>23, OpensKeeps

\* the branch that closes an arm or a body, where it is not closed already
LEMMA ClosingBranch ==
  ASSUME NEW f, Body(f), NEW fr, FrameOK(f, fr),
         NEW t, t \in Targets(fr) \/ (fr.kind = "loop" /\ t = fr.head),
         NEW g, g = BrUnlessTerminated(f, t)
  PROVE  /\ Body(g) /\ Advances(f, g, {}) /\ g.cur = f.cur
         /\ Open(g) = Open(f) \ {f.cur} /\ Blocks(g) = Blocks(f)
         /\ \A b \in Blocks(f) : Plain(g, b) <=> Plain(f, b)
<1>1. CASE Terminated(f, f.cur)
  <2>1. g = f
    BY <1>1 DEF BrUnlessTerminated
  <2>2. f.cur \notin Open(f) /\ \A b \in Open(f) : b \in Blocks(f)
    BY <1>1 DEF Open
  <2> QED
    BY <2>1, <2>2 DEF Advances
<1>2. CASE ~Terminated(f, f.cur)
  <2>1. g = Br(f, t)
    BY <1>2 DEF BrUnlessTerminated
  <2>2. f.cur \in Open(f)
    BY <1>2, BlocksAre DEF Open, Body
  <2>3. MayBranch(f, f.cur, t)
    BY <2>2, TargetsMayBranch
  <2> QED
    BY <2>1, <2>2, <2>3, BrAdvances
<1> QED
  BY <1>1, <1>2

\* the visit goes on in a block it kept for that
LEMMA ContinueIn ==
  ASSUME NEW f, NEW g, Body(g), Advances(f, g, {}), NEW t \in Open(g),
         NEW w, w = SetInsert(g, t)
  PROVE  Body(w) /\ w.cur = t /\ Open(w) = Open(g) /\ Advances(f, w, {t})
<1>1. t \in Blocks(g)
  BY DEF Open
<1>2. /\ Body(w) /\ w.cur = t /\ w.pre = g.pre /\ Blocks(w) = Blocks(g) /\ Open(w) = Open(g)
      /\ \A c \in Blocks(g) : Plain(w, c) <=> Plain(g, c)
  BY <1>1, SetInsertKeeps
<1>3. \A b \in Open(g) : b \in Blocks(g)
  BY DEF Open
<1>4. \A b \in Open(f) \ ({f.cur} \cup {t}) :
        b \in Open(w) /\ b # w.cur /\ (Plain(f, b) => Plain(w, b))
  BY <1>2, <1>3 DEF Advances
<1>5. \A b \in Blocks(f) \ Open(f) : /\ b \in Blocks(w) \ Open(w)
                                     /\ Plain(f, b) => Plain(w, b)
                                     /\ f.pre[b] # << >> => w.pre[b] # << >>
  BY <1>2 DEF Advances
<1> QED
  BY <1>2, <1>4, <1>5 DEF Advances

\* the innermost pending visit
LEMMA Innermost ==
  ASSUME IInv, frames # << >>
  PROVE  /\ frames \in Seq(Frame) /\ Last(frames) \in Frame /\ Body(ir)
         /\ FrameOK(ir, Last(frames)) /\ Framed(ir, frames)
         /\ Front(frames) \in Seq(Frame) /\ Len(Front(frames)) = Len(frames) - 1
         /\ LoopStacks(breakBB, continueBB, frames) /\ Scopes(scope, Depth(frames))
         /\ Depth(frames) = Depth(Front(frames)) + ScopeAdded(Last(frames))
         /\ Depth(Front(frames)) \in Nat /\ Depth(Front(frames)) > 2
<1>1. frames \in Seq(Frame) /\ FramesOK(ir, frames)
  BY DEF IInv, Framed, FramesOK
<1>2. PICK rest, fr : rest = Front(frames) /\ fr = Last(frames)
  OBVIOUS
<1>3. /\ rest \in Seq(Frame) /\ fr \in Frame /\ frames = Append(rest, fr)
      /\ Len(rest) = Len(frames) - 1 /\ fr = frames[Len(frames)]
  BY <1>1, <1>2, CountPop
<1>4. Depth(frames) = Depth(rest) + ScopeAdded(fr) /\ Depth(rest) \in Nat
  BY <1>3, CountPush
<1>5. Depth(rest) > 2
  <2>1. Len(rest) \in Nat
    BY <1>3
  <2>2. \A K : Pending(rest, Len(rest), K) \in Nat
    BY <2>1, PendingNat
  <2> QED
    BY <2>2 DEF Depth
<1>6. FrameOK(ir, fr)
  <2>1. Len(frames) \in 1 .. Len(frames)
    <3>1. Len(frames) \in Nat /\ Len(frames) # 0
      BY <1>1
    <3> QED
      BY <3>1
  <2> QED
    BY <1>1, <1>3, <2>1 DEF FramesOK
<1> QED
  BY <1>1, <1>2, <1>3, <1>4, <1>5, <1>6 DEF IInv

\* Two scopes are left.
LEMMA TwoExits ==
  ASSUME NEW sc, NEW n \in Nat, NEW m \in Nat, Scopes(sc, n), n = m + 2
  PROVE  Scopes(Exit(Exit(sc)), m)
<1>1. n > 0 /\ n - 1 \in Nat /\ n - 1 > 0 /\ (n - 1) - 1 = m
  OBVIOUS
<1>2. Scopes(Exit(sc), n - 1)
  BY <1>1, EnterExit
<1>3. Scopes(Exit(Exit(sc)), (n - 1) - 1)
  BY <1>1, <1>2, EnterExit
<1> QED
  BY <1>1, <1>3

\* A block ends.
LEMMA EndBlockKeeps ==
  ASSUME IInv, EndBlock
  PROVE  IInv'
<1>1. /\ frames # << >> /\ Last(frames).kind = "block"
      /\ scope' = Exit(scope) /\ frames' = Front(frames)
      /\ UNCHANGED <<ir, breakBB, continueBB>>
  BY DEF EndBlock, Returning
<1>2. Targets(Last(frames)) = {} /\ ScopeAdded(Last(frames)) = 1
  BY <1>1 DEF Targets, ScopeAdded
<1>3. Advances(ir, ir, {})
  <2>1. \A b \in Open(ir) : b \in Blocks(ir)
    BY DEF Open
  <2> QED
    BY <2>1 DEF Advances
<1>4. /\ FramesOK(ir, Front(frames)) /\ Front(frames) # << >>
      /\ Open(ir) \subseteq {ir.cur} \cup Waiting(Front(frames)) \cup {}
  <2>1. Last(frames).kind # "func" /\ {} = Targets(Last(frames)) /\ Framed(ir, frames)
    BY <1>1, <1>2, Innermost
  <2>2. FramesOK(ir, Front(frames)) /\ Front(frames) # << >>
    BY <1>1, <1>3, <2>1, FramedPop
  <2>3. Open(ir) \subseteq {ir.cur} \cup Waiting(Front(frames)) \cup {}
    BY <1>1, <1>3, <2>1, FramedPop
  <2> QED
    BY <2>2, <2>3
<1>5. Framed(ir, Front(frames))
  BY <1>4 DEF Framed
<1>6. LoopStacks(breakBB, continueBB, Front(frames))
  BY <1>1, Innermost, LoopPop
<1>7. Scopes(Exit(scope), Depth(Front(frames)))
  <2>1. Depth(frames) \in Nat /\ Depth(frames) > 0 /\ Depth(frames) - 1 = Depth(Front(frames))
    BY <1>1, <1>2, Innermost
  <2>2. Scopes(scope, Depth(frames))
    BY <1>1, Innermost
  <2> QED
    BY <2>1, <2>2, EnterExit
<1>8. Body(ir)
  BY DEF IInv
<1> QED
  BY <1>1, <1>4, <1>5, <1>6, <1>7, <1>8 DEF IInv

\* a visit whose last block is its cont ends
LEMMA ClosesKeeps ==
  ASSUME IInv, frames # << >>, Last(frames).kind \in {"then", "else", "loop"},
         Targets(Last(frames)) = {Last(frames).cont},
         NEW t, t = Last(frames).cont \/ (Last(frames).kind = "loop" /\ t = Last(frames).head),
         ir' = SetInsert(BrUnlessTerminated(ir, t), Last(frames).cont),
         scope' = Exit(Exit(scope)), frames' = Front(frames),
         LoopStacks(breakBB', continueBB', Front(frames))
  PROVE  IInv'
<1>1. PICK fr, rest, g, c : /\ fr = Last(frames) /\ rest = Front(frames) /\ c = fr.cont
                            /\ g = BrUnlessTerminated(ir, t)
  OBVIOUS
<1>2. Body(ir) /\ FrameOK(ir, fr) /\ Framed(ir, frames)
  BY <1>1, Innermost
<1>3. t \in Targets(fr) \/ (fr.kind = "loop" /\ t = fr.head)
  BY <1>1
<1>4. Body(g) /\ Advances(ir, g, {}) /\ g.cur = ir.cur /\ Open(g) = Open(ir) \ {ir.cur}
  BY <1>1, <1>2, <1>3, ClosingBranch
<1>5. c \in Open(g)
  BY <1>1, <1>2, <1>4 DEF FrameOK
<1>s. PICK w : w = SetInsert(g, c) /\ w = ir'
  BY <1>1
<1>6. Body(ir') /\ ir'.cur = c /\ Open(ir') = Open(g) /\ Advances(ir, ir', {c})
  <2>1. Body(w) /\ w.cur = c /\ Open(w) = Open(g) /\ Advances(ir, w, {c})
    BY <1>4, <1>5, <1>s, ContinueIn
  <2> QED
    BY <1>s, <2>1
<1>7. /\ FramesOK(ir', rest) /\ rest # << >>
      /\ Open(ir) \subseteq {ir.cur} \cup Waiting(rest) \cup {c}
  <2>1. PICK D : D = {c} /\ D = Targets(Last(frames))
    BY <1>1
  <2>2. /\ frames # << >> /\ Framed(ir, frames) /\ Last(frames).kind # "func"
        /\ Advances(ir, w, D)
    BY <1>2, <1>6, <1>s, <2>1
  <2>3. FramesOK(w, Front(frames)) /\ Front(frames) # << >>
    BY <2>1, <2>2, FramedPop
  <2>4. Open(ir) \subseteq {ir.cur} \cup Waiting(Front(frames)) \cup D
    BY <2>1, <2>2, FramedPop
  <2> QED
    BY <1>1, <1>s, <2>1, <2>3, <2>4
<1>8. Framed(ir', rest)
  BY <1>4, <1>6, <1>7 DEF Framed
<1>9. Scopes(scope', Depth(rest))
  <2>1. /\ Scopes(scope, Depth(frames)) /\ Depth(frames) = Depth(rest) + ScopeAdded(fr)
        /\ Depth(rest) \in Nat
    BY <1>1, Innermost
  <2>2. ScopeAdded(fr) = 2
    BY <1>1 DEF ScopeAdded
  <2>3. Depth(frames) \in Nat /\ Depth(frames) = Depth(rest) + 2
    BY <2>1, <2>2
  <2> QED
    BY <2>1, <2>3, TwoExits
<1> QED
  BY <1>1, <1>6, <1>7, <1>8, <1>9 DEF IInv

\* The else arm ends.
LEMMA EndElseKeeps ==
  ASSUME IInv, EndElse
  PROVE  IInv'
<1>1. /\ frames # << >> /\ Last(frames).kind = "else"
      /\ ir' = SetInsert(BrUnlessTerminated(ir, Last(frames).cont), Last(frames).cont)
      /\ scope' = Exit(Exit(scope)) /\ frames' = Front(frames)
      /\ UNCHANGED <<breakBB, continueBB>>
  BY DEF EndElse, Returning
<1>2. Targets(Last(frames)) = {Last(frames).cont}
  BY <1>1 DEF Targets
<1>3. LoopStacks(breakBB', continueBB', Front(frames))
  <2>1. LoopStacks(breakBB, continueBB, Front(frames))
    BY <1>1, Innermost, LoopPop
  <2> QED
    BY <1>1, <2>1
<1> QED
  BY <1>1, <1>2, <1>3, ClosesKeeps

\* The body of a loop ends.
LEMMA EndLoopKeeps ==
  ASSUME IInv, EndLoop
  PROVE  IInv'
<1>1. /\ frames # << >> /\ Last(frames).kind = "loop"
      /\ ir' = SetInsert(BrUnlessTerminated(ir, Last(frames).head), Last(frames).cont)
      /\ scope' = Exit(Exit(scope)) /\ frames' = Front(frames)
      /\ breakBB' = Front(breakBB) /\ continueBB' = Front(continueBB)
  BY DEF EndLoop, Returning
<1>2. Targets(Last(frames)) = {Last(frames).cont}
  BY <1>1 DEF Targets
<1>3. LoopStacks(breakBB', continueBB', Front(frames))
  <2>1. LoopStacks(Front(breakBB), Front(continueBB), Front(frames))
    BY <1>1, Innermost, LoopPop
  <2> QED
    BY <1>1, <2>1
<1> QED
  BY <1>1, <1>2, <1>3, ClosesKeeps

\* The first arm ends: the second one begins, or the if ends.
LEMMA EndThenKeeps ==
  ASSUME IInv, EndThen
  PROVE  IInv'
<1>1. PICK fr, g : /\ fr = Last(frames) /\ g = BrUnlessTerminated(ir, fr.cont)
  OBVIOUS
<1>2. /\ frames # << >> /\ fr.kind = "then"
      /\ IF fr.else = 0
         THEN /\ ir' = SetInsert(g, fr.cont)
              /\ scope' = Exit(Exit(scope))
              /\ frames' = Front(frames)
         ELSE /\ ir' = SetInsert(g, fr.else)
              /\ scope' = Enter(Enter(Exit(Exit(scope))))
              /\ frames' = Append(Front(frames), [kind |-> "else", cont |-> fr.cont])
      /\ UNCHANGED <<breakBB, continueBB>>
  BY <1>1 DEF EndThen, Returning
<1>3. Targets(fr) = {fr.cont} \cup (IF fr.else = 0 THEN {} ELSE {fr.else})
  BY <1>2 DEF Targets
<1>4. LoopStacks(breakBB, continueBB, Front(frames))
  <2>1. Last(frames).kind # "loop" /\ frames \in Seq(Frame) /\ LoopStacks(breakBB, continueBB, frames)
    BY <1>1, <1>2, Innermost
  <2> QED
    BY <1>2, <2>1, LoopPop
<1>5. CASE fr.else = 0
  <2>1. Targets(Last(frames)) = {Last(frames).cont}
    BY <1>1, <1>3, <1>5
  <2>2. ir' = SetInsert(BrUnlessTerminated(ir, Last(frames).cont), Last(frames).cont)
    BY <1>1, <1>2, <1>5
  <2>3. LoopStacks(breakBB', continueBB', Front(frames))
    BY <1>2, <1>4
  <2> QED
    BY <1>1, <1>2, <1>5, <2>1, <2>2, <2>3, ClosesKeeps
<1>6. CASE fr.else # 0
  <2>1. PICK w, e, c, new, rest, D :
          /\ w = SetInsert(g, e) /\ w = ir' /\ e = fr.else /\ c = fr.cont
          /\ new = [kind |-> "else", cont |-> c] /\ rest = Front(frames) /\ D = Targets(fr)
    BY <1>2, <1>6
  <2>2. frames' = Append(rest, new) /\ scope' = Enter(Enter(Exit(Exit(scope))))
    BY <1>2, <1>6, <2>1
  <2>3. Body(ir) /\ FrameOK(ir, fr) /\ Framed(ir, frames) /\ fr \in Frame
    BY <1>1, <1>2, Innermost
  <2>4. Body(g) /\ Advances(ir, g, {}) /\ g.cur = ir.cur /\ Open(g) = Open(ir) \ {ir.cur}
    BY <1>1, <1>3, <2>3, ClosingBranch
  <2>5. D = {c, e} /\ c # e
    <3>1. D = {c, e}
      BY <1>3, <1>6, <2>1
    <3> QED
      BY <1>2, <2>1, <2>3, <3>1 DEF FrameOK
  <2>6. /\ c \in Open(ir) /\ c # ir.cur /\ c # Entry /\ Plain(ir, c)
        /\ e \in Open(ir) /\ e # ir.cur
    BY <2>1, <2>3, <2>5 DEF FrameOK
  <2>7. Body(w) /\ w.cur = e /\ Open(w) = Open(g) /\ Advances(ir, w, {e})
    <3>1. e \in Open(g) /\ w = SetInsert(g, e)
      BY <2>1, <2>4, <2>6
    <3> QED
      BY <2>4, <3>1, ContinueIn
  <2>8. Advances(ir, w, D)
    BY <2>5, <2>7 DEF Advances
  <2>9. /\ FramesOK(w, rest) /\ rest # << >>
        /\ D \cap Waiting(rest) = {} /\ Open(ir) \subseteq {ir.cur} \cup Waiting(rest) \cup D
    <3>1. frames # << >> /\ Last(frames).kind # "func" /\ D = Targets(Last(frames))
      BY <1>1, <1>2, <2>1
    <3>2. FramesOK(w, Front(frames)) /\ Front(frames) # << >>
      BY <2>3, <2>8, <3>1, FramedPop
    <3>3. D \cap Waiting(Front(frames)) = {}
      BY <2>3, <2>8, <3>1, FramedPop
    <3>4. Open(ir) \subseteq {ir.cur} \cup Waiting(Front(frames)) \cup D
      BY <2>3, <2>8, <3>1, FramedPop
    <3> QED
      BY <2>1, <3>2, <3>3, <3>4
  <2>10. /\ new \in Frame /\ new.kind = "else" /\ Targets(new) = {c} /\ ScopeAdded(new) = 2
    <3>1. fr.cont \in Nat
      BY <1>2, <2>3 DEF Frame
    <3> QED
      BY <2>1, <3>1 DEF Frame, Targets, ScopeAdded
  <2>11. FrameOK(w, new)
    <3>1. c \in Open(w) /\ c # w.cur /\ c # Entry /\ Plain(w, c)
      BY <2>5, <2>6, <2>7 DEF Advances
    <3> QED
      BY <2>10, <3>1 DEF FrameOK
  <2>12. Framed(w, Append(rest, new))
    <3>1. Targets(new) \cap Waiting(rest) = {}
      BY <2>5, <2>9, <2>10
    <3>2. Open(w) \subseteq {w.cur} \cup Waiting(rest) \cup Targets(new)
      BY <2>4, <2>5, <2>7, <2>9, <2>10
    <3>3. new.kind # "func"
      BY <2>10
    <3> QED
      BY <2>9, <2>10, <2>11, <3>1, <3>2, <3>3, FramedPush
  <2>13. rest \in Seq(Frame) /\ Depth(rest) \in Nat /\ Scopes(scope, Depth(rest) + 2)
    <3>1. /\ rest \in Seq(Frame) /\ Depth(rest) \in Nat /\ Scopes(scope, Depth(frames))
          /\ Depth(frames) = Depth(rest) + ScopeAdded(fr)
      BY <1>1, <1>2, <2>1, Innermost
    <3>2. ScopeAdded(fr) = 2
      BY <1>2 DEF ScopeAdded
    <3> QED
      BY <3>1, <3>2
  <2>14. Scopes(scope', Depth(rest) + 2)
    <3>1. Scopes(Exit(Exit(scope)), Depth(rest))
      <4>1. PICK n \in Nat : n = Depth(rest) + 2
        BY <2>13
      <4> QED
        BY <2>13, <4>1, TwoExits
    <3> QED
      BY <2>2, <2>13, <3>1, TwoScopes
  <2>15. Depth(frames') = Depth(rest) + 2
    <3>1. Depth(Append(rest, new)) = Depth(rest) + ScopeAdded(new)
      BY <2>10, <2>13, CountPush
    <3> QED
      BY <2>2, <2>10, <3>1
  <2>16. frames' # << >>
    <3>1. Len(frames') = Len(rest) + 1 /\ Len(rest) \in Nat
      BY <2>2, <2>13
    <3> QED
      BY <3>1
  <2>17. LoopStacks(breakBB', continueBB', frames')
    <3>1. LoopStacks(breakBB, continueBB, rest) /\ new.kind # "loop"
      BY <1>4, <2>1, <2>10
    <3>2. LoopStacks(breakBB, continueBB, Append(rest, new))
      BY <2>10, <2>13, <3>1, OtherPush
    <3> QED
      BY <1>2, <2>2, <3>2
  <2> QED
    BY <2>1, <2>2, <2>7, <2>12, <2>14, <2>15, <2>16, <2>17 DEF IInv
<1> QED
  BY <1>5, <1>6

\* The body of the function ends: the implicit return closes the only open block.
LEMMA EndFuncKeeps ==
  ASSUME IInv, EndFunc
  PROVE  IInv'
<1>1. /\ frames # << >> /\ Last(frames).kind = "func" /\ frames' = << >>
      /\ ir' = IF Terminated(ir, ir.cur) THEN ir ELSE Emit(ir, Ret)
      /\ scope' = Exit(Exit(scope)) /\ UNCHANGED <<breakBB, continueBB>>
  BY DEF EndFunc, Returning
<1>2. /\ frames \in Seq(Frame) /\ Body(ir) /\ Framed(ir, frames) /\ Last(frames) = frames[Len(frames)]
      /\ LoopStacks(breakBB, continueBB, frames) /\ Scopes(scope, Depth(frames))
      /\ Depth(frames) = Depth(Front(frames)) + ScopeAdded(Last(frames))
      /\ Front(frames) \in Seq(Frame) /\ Len(Front(frames)) = Len(frames) - 1
  BY <1>1, Innermost, CountPop
<1>3. Len(frames) = 1
  <2>1. Len(frames) \in Nat /\ Len(frames) # 0 /\ Len(frames) \in 1 .. Len(frames)
    BY <1>1, <1>2
  <2> QED
    BY <1>1, <1>2, <2>1 DEF Framed, FramesOK
<1>4. Front(frames) = << >>
  BY <1>2, <1>3
<1>5. Open(ir) \subseteq {ir.cur}
  <2>1. Waiting(frames) = {}
    <3>1. Targets(frames[1]) = {}
      BY <1>1, <1>2, <1>3 DEF Targets
    <3> QED
      BY <1>3, <3>1 DEF Waiting
  <2> QED
    BY <1>1, <1>2, <2>1 DEF Framed
<1>6. Body(ir') /\ Open(ir') = {}
  <2>1. CASE Terminated(ir, ir.cur)
    BY <1>1, <1>2, <1>5, <2>1 DEF Open
  <2>2. CASE ~Terminated(ir, ir.cur)
    <3>1. ir.cur \in Open(ir)
      BY <1>2, <2>2, BlocksAre DEF Body, Open
    <3> QED
      BY <1>1, <1>2, <1>5, <2>2, <3>1, RetKeeps
  <2> QED
    BY <2>1, <2>2
<1>7. Framed(ir', << >>)
  <2>1. << >> \in Seq(Frame) /\ \A i \in 1 .. Len(<< >>) : FALSE
    OBVIOUS
  <2> QED
    BY <1>6, <2>1 DEF Framed, FramesOK
<1>8. LoopStacks(breakBB, continueBB, << >>)
  <2>1. LoopStacks(breakBB, continueBB, Front(frames))
    BY <1>1, <1>2, LoopPop
  <2> QED
    BY <1>4, <2>1
<1>9. Depth(frames) = 3
  <2>1. Depth(<< >>) = 3
    <3>1. \A K : Pending(<< >>, 0, K) = 0
      BY PendingNat
    <3>2. Len(<< >>) = 0
      OBVIOUS
    <3> QED
      BY <3>1, <3>2 DEF Depth
  <2>2. ScopeAdded(Last(frames)) = 0
    BY <1>1 DEF ScopeAdded
  <2> QED
    BY <1>2, <1>4, <2>1, <2>2
<1>10. Scopes(scope', 1)
  <2>1. Scopes(scope, 3) /\ 3 = 1 + 2
    BY <1>2, <1>9
  <2>2. Scopes(Exit(Exit(scope)), 1)
    BY <2>1, TwoExits
  <2> QED
    BY <1>1, <2>2
<1> QED
  BY <1>1, <1>6, <1>7, <1>8, <1>10 DEF IInv

\* Every step keeps the invariant.
LEMMA NextKeeps ==
  ASSUME IInv, [Next]_vars
  PROVE  IInv'
<1>1. CASE UNCHANGED vars
  BY <1>1 DEF vars, IInv
<1>2. CASE Terminating
  BY <1>2 DEF vars, IInv, Terminating
<1>3. CASE Visit
  BY <1>3, DeclKeeps, AssignKeeps, ReturnKeeps, LoopExitKeeps, BlockKeeps, IfKeeps, WhileKeeps,
     EndBlockKeeps, EndThenKeeps, EndElseKeeps, EndLoopKeeps, EndFuncKeeps DEF Visit
<1> QED
  BY <1>1, <1>2, <1>3 DEF Next

-----------------------------------------------------------------------------
(***************************************************************************)
(* The initial state: the entry block with the stores of the parameters.   *)
(***************************************************************************)
\* The entry block alone is a body.
LEMMA EntryIs ==
  ASSUME NEW f, f = SetInsert(NewBlock(EmptyBody), Entry)
  PROVE  /\ Body(f) /\ f.cur \in Open(f) /\ Open(f) = {f.cur}
<1>1. PICK e : e = << >>
  OBVIOUS
<1>2. Append(<< >>, e) = <<e>>
  OBVIOUS
<1>3. /\ f.succ = <<e>> /\ f.pre = <<e>> /\ f.code = <<e>>
      /\ f.cur = 1 /\ f.ids = 0 /\ f.aborted = FALSE
      /\ f = [succ |-> <<e>>, pre |-> <<e>>, code |-> <<e>>, cur |-> 1, ids |-> 0, aborted |-> FALSE]
  BY <1>1, <1>2 DEF SetInsert, NewBlock, EmptyBody, Entry
<1>4. /\ <<e>> \in Seq(Seq(Nat)) /\ Len(<<e>>) = 1 /\ <<e>>[1] = e /\ DOMAIN <<e>> = {1}
      /\ DOMAIN e = {} /\ Len(e) = 0
  BY <1>1
<1>5. f \in Bodies(Nat)
  BY <1>3, <1>4 DEF Bodies
<1>6. Blocks(f) = {1} /\ LastBlock(f) = 1
  BY <1>3, <1>4 DEF Blocks, LastBlock
<1>7. Shape(f)
  BY <1>3, <1>4, <1>5, <1>6 DEF Shape
<1>8. f.succ[1] = e /\ f.pre[1] = e /\ f.code[1] = e
  BY <1>3, <1>4
<1>9. ToSet(e) = {} /\ IsInjective(e)
  BY <1>4 DEF ToSet, IsInjective
<1>10. Edges(f)
  BY <1>1, <1>6, <1>8, <1>9 DEF Edges, Entry
<1>11. Phis(f)
  BY <1>4, <1>6, <1>8 DEF Phis
<1>12. Rooted(f)
  BY <1>1, <1>6, <1>8 DEF Rooted
<1>13. Open(f) = {f.cur}
  BY <1>1, <1>3, <1>6, <1>8 DEF Open, Terminated
<1>14. LoadsOnce(f)
  BY <1>4, <1>6, <1>8 DEF LoadsOnce
<1> QED
  BY <1>7, <1>10, <1>11, <1>12, <1>13, <1>14 DEF Body

\* The stores and the bindings of the parameters as runs.
StoreStep(env, f, i) == EmitStore(f, i, Const(f.ids + 1))

EntryKnown(entry, n, f) == Body(f) /\ SameGraph(entry, f)

BindStep(params, s, i) == Push(s, params[i], i)

BindKnown(hyp, n, s) == Scopes(s, 2)

Stores == INSTANCE IterateProofs WITH step <- StoreStep, known <- EntryKnown
Binds  == INSTANCE IterateProofs WITH step <- BindStep, known <- BindKnown

\* The parameters are finitely many.
LEMMA ParamsSeq ==
  ASSUME NEW params, params = SetToSeq(Params), NEW all, all = [i \in DOMAIN params |-> i]
  PROVE  Len(all) \in Nat /\ \A i \in 1 .. Len(all) : all[i] = i
<1>1. IsFiniteSet(Params)
  BY NamesAssumption
<1>2. PICK n : n = Cardinality(Params)
  OBVIOUS
<1>3. n \in Nat /\ ExistsBijection(1 .. n, Params)
  BY <1>1, <1>2, FS_CardinalityType
<1>4. \E f \in [1 .. n -> Params] : IsInjective(f)
  BY <1>3 DEF ExistsBijection, Bijection, Injection, IsInjective
<1>5. params \in [1 .. n -> Params]
  BY <1>2, <1>4 DEF SetToSeq
<1>6. all \in [1 .. n -> Nat]
  BY <1>5
<1>7. Len(all) = n /\ n \in Nat
  BY <1>3, <1>6, FunSeq
<1>8. \A i \in 1 .. n : all[i] = i
  BY <1>5
<1> QED
  BY <1>7, <1>8

\* The parameters are stored into the entry block, and bound.
LEMMA InitHolds ==
  ASSUME Init
  PROVE  IInv
<1>1. PICK params, entry, all :
        /\ params = SetToSeq(Params) /\ entry = SetInsert(NewBlock(EmptyBody), Entry)
        /\ all = [i \in DOMAIN params |-> i]
  OBVIOUS
<1>2. ir = Stores!Run(params, entry, all)
  BY <1>1 DEF Init, RunThrough, Stores!Run, Stores!RunThrough, StoreStep
<1>3. PICK bound : /\ bound = Binds!Run(params, <<NoBindings, NoBindings>>, all)
                   /\ scope = Enter(bound)
  <2>1. scope = Enter(Binds!Run(SetToSeq(Params), <<NoBindings, NoBindings>>,
                                [i \in DOMAIN SetToSeq(Params) |-> i]))
    BY DEF Init, RunThrough, Binds!Run, Binds!RunThrough, BindStep
  <2> QED
    BY <1>1, <2>1
<1>4. Len(all) \in Nat
  BY <1>1, ParamsSeq
<1>5. Body(entry) /\ entry.cur \in Open(entry) /\ Open(entry) = {entry.cur}
  BY <1>1, EntryIs
<1>6. EntryKnown(entry, Len(all), ir)
  <2>1. EntryKnown(entry, 0, entry)
    BY <1>5 DEF EntryKnown, SameGraph
  <2>2. ASSUME NEW n \in 1 .. Len(all), NEW f, EntryKnown(entry, n - 1, f)
        PROVE  EntryKnown(entry, n, StoreStep(params, f, all[n]))
    <3>1. Body(f) /\ SameGraph(entry, f) /\ f.cur \in Open(f)
      BY <1>5, <2>2 DEF EntryKnown, SameGraph
    <3>2. PICK g : g = StoreStep(params, f, all[n])
      OBVIOUS
    <3>3. Body(g) /\ SameGraph(f, g)
      BY <3>1, <3>2, StoreKeeps, ConstAvailable DEF StoreStep
    <3> QED
      BY <3>1, <3>2, <3>3 DEF EntryKnown, SameGraph
  <2> QED
    BY <1>2, <1>4, <2>1, <2>2, Stores!RunRule
<1>7. Scopes(bound, 2)
  <2>1. BindKnown(0, 0, <<NoBindings, NoBindings>>)
    <3>1. <<NoBindings, NoBindings>> \in Seq({NoBindings}) /\ Len(<<NoBindings, NoBindings>>) = 2
      OBVIOUS
    <3> QED
      BY <3>1 DEF BindKnown, Scopes
  <2>2. ASSUME NEW n \in 1 .. Len(all), NEW s, BindKnown(0, n - 1, s)
        PROVE  BindKnown(0, n, BindStep(params, s, all[n]))
    BY <2>2, PushKeeps DEF BindKnown, BindStep
  <2>3. BindKnown(0, Len(all), bound)
    BY <1>3, <1>4, <2>1, <2>2, Binds!RunRule
  <2> QED
    BY <2>3 DEF BindKnown
<1>8. Body(ir) /\ Open(ir) = {ir.cur}
  BY <1>5, <1>6 DEF EntryKnown, SameGraph
<1>9. PICK fr : fr = [kind |-> "func"]
  OBVIOUS
<1>10. /\ frames = <<fr>> /\ frames = Append(<< >>, fr) /\ fr.kind = "func" /\ fr \in Frame
       /\ breakBB = << >> /\ continueBB = << >>
  <2>1. frames = <<fr>> /\ breakBB = << >> /\ continueBB = << >>
    BY <1>9 DEF Init
  <2>2. <<fr>> = Append(<< >>, fr) /\ fr.kind = "func"
    BY <1>9
  <2>3. fr \in Frame
    BY <1>9 DEF Frame
  <2> QED
    BY <2>1, <2>2, <2>3
<1>11. Framed(ir, frames)
  <2>1. /\ frames \in Seq(Frame) /\ Len(frames) = 1 /\ frames[1] = fr /\ 1 .. Len(frames) = {1}
        /\ frames # << >>
    BY <1>10
  <2>2. Targets(fr) = {}
    BY <1>10 DEF Targets
  <2>3. FrameOK(ir, fr)
    BY <1>10, <2>2 DEF FrameOK
  <2> QED
    BY <1>8, <1>10, <2>1, <2>2, <2>3 DEF Framed, FramesOK
<1>12. Depth(frames) = 3 /\ Loops(frames, Len(frames)) = 0
  <2>1. << >> \in Seq(Frame) /\ Len(<< >>) = 0
    OBVIOUS
  <2>2. \A K : Pending(<< >>, 0, K) = 0
    BY PendingNat
  <2>3. Depth(<< >>) = 3 /\ Loops(<< >>, 0) = 0
    BY <2>1, <2>2 DEF Depth, Loops
  <2>4. ScopeAdded(fr) = 0
    BY <1>10 DEF ScopeAdded
  <2>5. Depth(frames) = Depth(<< >>) + ScopeAdded(fr)
    BY <1>10, <2>1, CountPush
  <2>6. Loops(frames, Len(frames)) = Loops(<< >>, Len(<< >>)) + IF fr.kind = "loop" THEN 1 ELSE 0
    BY <1>10, <2>1, CountPush
  <2> QED
    BY <1>10, <2>1, <2>3, <2>4, <2>5, <2>6
<1>13. LoopStacks(breakBB, continueBB, frames)
  <2>1. Len(frames) = 1 /\ frames[1].kind # "loop" /\ 1 .. Len(frames) = {1}
    BY <1>10
  <2>2. << >> \in Seq(Nat) /\ Len(<< >>) = 0
    OBVIOUS
  <2> QED
    BY <1>10, <1>12, <2>1, <2>2 DEF LoopStacks
<1>14. Scopes(scope, 3) /\ frames # << >>
  <2>1. Scopes(Enter(bound), 2 + 1)
    BY <1>7, EnterExit
  <2> QED
    BY <1>3, <1>10, <2>1
<1> QED
  BY <1>8, <1>11, <1>12, <1>13, <1>14 DEF IInv

\* The inductive invariant holds in every state of every walk over a function.
THEOREM IInvHolds == Spec => []IInv
<1>1. Init => IInv
  BY InitHolds
<1>2. IInv /\ [Next]_vars => IInv'
  BY NextKeeps
<1> QED
  BY <1>1, <1>2, PTL DEF Spec

\* No visit() ever reaches the assertion of BasicBlock::add_instruction: the
\* insert block is open whenever SysYBuilder emits an instruction.
THEOREM NoInsertAfterTerminatorHolds == Spec => []NoInsertAfterTerminator
<1>1. IInv => NoInsertAfterTerminator
  BY DEF IInv, Body, Shape, Bodies, NoInsertAfterTerminator
<1> QED
  BY <1>1, IInvHolds, PTL

\* The pre and succ lists BasicBlock keeps are two views of one set of edges, for
\* every nesting of statements and every shape of condition.
THEOREM EdgesMirrorHolds == Spec => []EdgesMirror
<1>1. ASSUME IInv PROVE EdgesMirror
  <2>1. Edges(ir)
    BY <1>1 DEF IInv, Body
  <2>2. \A s, x : Contains(s, x) <=> x \in ToSet(s)
    BY DEF Contains, ToSet
  <2> QED
    BY <2>1, <2>2 DEF Edges, EdgesMirror
<1> QED
  BY <1>1, IInvHolds, PTL

\* However a body is left, break_BB, continue_BB and the scopes are those of the
\* statements still being visited.
THEOREM StacksFollowFramesHolds == Spec => []StacksFollowFrames
<1>1. ASSUME IInv PROVE StacksFollowFrames
  <2>1. LoopStacks(breakBB, continueBB, frames)
    BY <1>1 DEF IInv
  <2>2. Len(scope) = IF frames = << >> THEN 1 ELSE Depth(frames)
    BY <1>1 DEF IInv, Scopes
  <2> QED
    BY <2>1, <2>2 DEF StacksFollowFrames, LoopStacks, Loops, Depth, Done
<1> QED
  BY <1>1, IInvHolds, PTL

\* A phi of a condition names exactly the predecessors of its block, for conditions
\* of any number of || operands, each of any number of && operands.
THEOREM CondPhisMatchPredsHolds == Spec => []CondPhisMatchPreds
<1>1. ASSUME IInv PROVE CondPhisMatchPreds
  BY <1>1 DEF IInv, Body, Phis, IsPhi, CondPhisMatchPreds
<1> QED
  BY <1>1, IInvHolds, PTL

\* In a finished function every block ends in a br or a ret, also after return,
\* break and continue in the middle of a list, and is below a root.
THEOREM AllBlocksEndHolds == Spec => []AllBlocksEnd
<1>1. ASSUME IInv, Done PROVE \A b \in Blocks(ir) : Terminated(ir, b)
  BY <1>1 DEF IInv, Framed, Done, Open
<1>2. ASSUME IInv
      PROVE  ReachFrom(ir, {b \in Blocks(ir) : ir.pre[b] = << >>}, {}) = Blocks(ir)
  <2>1. Body(ir)
    BY <1>2 DEF IInv
  <2>2. PICK B, roots : B = Blocks(ir) /\ roots = {b \in B : ir.pre[b] = << >>}
    OBVIOUS
  <2>3. IsFiniteSet(B) /\ ir.succ \in [B -> Seq(Nat)]
    <3>1. B = 1 .. LastBlock(ir) /\ LastBlock(ir) \in Nat /\ ir.succ \in [B -> Seq(Nat)]
      BY <2>1, <2>2, BlocksAre DEF Body
    <3>2. IsFiniteSet(1 .. LastBlock(ir))
      BY <3>1, FS_Interval
    <3> QED
      BY <3>1, <3>2
  <2>4. \A b \in B : ToSet(ir.succ[b]) \subseteq B
    BY <2>1, <2>2 DEF Body, Edges
  <2>5. ir.succ \in [B -> Seq(B)]
    <3>1. \A s \in Seq(Nat) : ToSet(s) \subseteq B => s \in Seq(B)
      BY DEF ToSet
    <3> QED
      BY <2>3, <2>4, <3>1
  <2>6. roots \in SUBSET B /\ roots \ {} = roots
    BY <2>2
  <2>7. ReachFrom(ir, roots, {}) = Ands!Hull(B, Grow(ir, {}), roots)
    <3>1. Ands!StrictSubsets(B) = StrictSubsetOrdering(B)
      BY DEF Ands!StrictSubsets, StrictSubsetOrdering
    <3>2. Ands!IsWellFoundedOn(Ands!StrictSubsets(B), SUBSET B)
      <4>1. IsWellFoundedOn(Ands!StrictSubsets(B), SUBSET B)
        BY <2>3, <3>1, FS_StrictSubsetOrderingWellFounded, FS_FiniteSubsetsOfFinite
      <4> QED
        BY <4>1 DEF IsWellFoundedOn, Ands!IsWellFoundedOn
    <3>3. Ands!Growing(B, Grow(ir, {}))
      BY <2>2, <2>4 DEF Grow, Ands!Growing
    <3>4. Ands!Limit(Grow(ir, {})) = Limit(Grow(ir, {}))
      BY DEF Ands!Limit, Limit
    <3> QED
      BY <2>6, <3>2, <3>3, <3>4, Ands!LimitIsHull DEF ReachFrom
  <2>8. \A Z \in SUBSET B : roots \subseteq Z /\ Grow(ir, {})[Z] = Z => Z = B
    <3> TAKE Z \in SUBSET B
    <3> HAVE roots \subseteq Z /\ Grow(ir, {})[Z] = Z
    <3>1. \A b \in Z : ToSet(ir.succ[b]) \subseteq Z
      BY <2>2 DEF Grow
    <3> QED
      BY <2>1, <2>2, <3>1 DEF Body, Rooted
  <2>9. Ands!Hull(B, Grow(ir, {}), roots) = B
    BY <2>2, <2>8 DEF Ands!Hull
  <2> QED
    BY <2>2, <2>7, <2>9
<1>3. IInv => AllBlocksEnd
  BY <1>1, <1>2 DEF AllBlocksEnd
<1> QED
  BY <1>3, IInvHolds, PTL

-----------------------------------------------------------------------------
(***************************************************************************)
(* Every load comes after a store.  Mem2Reg asserts it when it renames:    *)
(* whatever path leads to a load, its variable was stored on the way.      *)
(*                                                                         *)
(* What a statement does to the body first, apart from its stores: Grown   *)
(* says that the builder went on from the insert block of f into new       *)
(* blocks, and read no variables but those of V.                           *)
(***************************************************************************)
\* a body as a record, also one that refused an instruction
Listed(f) ==
  \E S : /\ f \in [succ : Seq(Seq(Nat)), pre : Seq(Seq(Nat)), code : Seq(Seq(S)),
                   cur : Nat, ids : Nat, aborted : BOOLEAN]
         /\ Len(f.succ) = LastBlock(f) /\ Len(f.pre) = LastBlock(f)

\* the blocks of g that f had not, and the block it was at
Ahead(f, b) == b = f.cur \/ b > LastBlock(f)

Grown(f, g, V) ==
  /\ Listed(g) /\ LastBlock(f) <= LastBlock(g)
  /\ g.cur \in Blocks(g) /\ Ahead(f, g.cur)
  /\ \A b \in Blocks(f) :
       /\ g.pre[b] = f.pre[b]
       /\ \A k \in DOMAIN f.code[b] : k \in DOMAIN g.code[b] /\ g.code[b][k] = f.code[b][k]
  /\ \A b \in Blocks(g) \ Blocks(f) : \A p \in ToSet(g.pre[b]) : Ahead(f, p)
  /\ \A b \in Blocks(g) : \A k \in DOMAIN g.code[b] :
       g.code[b][k].op = "load" =>
         \/ b \in Blocks(f) /\ k \in DOMAIN f.code[b]
         \/ Ahead(f, b) /\ g.code[b][k].var \in V

\* The lists of a body, and its blocks, are those of its record.
LEMMA ListedFacts ==
  ASSUME NEW f, Listed(f)
  PROVE  /\ LastBlock(f) \in Nat /\ Blocks(f) = 1 .. LastBlock(f) /\ DOMAIN f.code = Blocks(f)
         /\ DOMAIN f.pre = Blocks(f) /\ DOMAIN f.succ = Blocks(f)
         /\ \A b \in Blocks(f) : /\ \E S : f.code[b] \in Seq(S)
                                 /\ DOMAIN f.code[b] = 1 .. Len(f.code[b]) /\ Len(f.code[b]) \in Nat
                                 /\ f.pre[b] \in Seq(Nat)
<1>1. PICK S : /\ f \in [succ : Seq(Seq(Nat)), pre : Seq(Seq(Nat)), code : Seq(Seq(S)),
                         cur : Nat, ids : Nat, aborted : BOOLEAN]
               /\ Len(f.succ) = LastBlock(f) /\ Len(f.pre) = LastBlock(f)
  BY DEF Listed
<1>2. f.code \in Seq(Seq(S)) /\ f.pre \in Seq(Seq(Nat)) /\ f.succ \in Seq(Seq(Nat))
  BY <1>1
<1>3. /\ LastBlock(f) \in Nat /\ DOMAIN f.code = 1 .. LastBlock(f)
      /\ DOMAIN f.pre = 1 .. LastBlock(f) /\ DOMAIN f.succ = 1 .. LastBlock(f)
  BY <1>1, <1>2 DEF LastBlock
<1>4. \A b \in 1 .. LastBlock(f) : f.code[b] \in Seq(S) /\ f.pre[b] \in Seq(Nat)
  BY <1>2, <1>3
<1>5. \A s \in Seq(S) : DOMAIN s = 1 .. Len(s) /\ Len(s) \in Nat
  OBVIOUS
<1> QED
  BY <1>3, <1>4, <1>5 DEF Blocks

\* A body on which nothing was refused, and a body it has grown from.
LEMMA BodyListed ==
  ASSUME NEW f, Body(f)
  PROVE  Listed(f)
<1>1. PICK S : f \in Bodies(S) /\ Len(f.succ) = LastBlock(f) /\ Len(f.pre) = LastBlock(f)
  BY DEF Body, Shape
<1>2. f \in [succ : Seq(Seq(Nat)), pre : Seq(Seq(Nat)), code : Seq(Seq(S)),
             cur : Nat, ids : Nat, aborted : BOOLEAN]
  BY <1>1 DEF Bodies
<1> QED
  BY <1>1, <1>2 DEF Listed

LEMMA GrownSelf ==
  ASSUME NEW f, Body(f), NEW V
  PROVE  Grown(f, f, V)
<1>1. f.cur \in Blocks(f) /\ LastBlock(f) \in Nat
  BY BlocksAre DEF Body
<1> QED
  BY <1>1, BodyListed DEF Grown, Ahead

-----------------------------------------------------------------------------
\* What the calls of the builder do to the lists.
LEMMA EmitLists ==
  ASSUME NEW f, Listed(f), f.cur \in Blocks(f), NEW instr, NEW g, g = Emit(f, instr)
  PROVE  /\ Listed(g) /\ g.pre = f.pre /\ g.cur = f.cur
         /\ g.code = f.code \/ g.code = [f.code EXCEPT ![f.cur] = Append(@, instr)]
<1>1. PICK S : /\ f \in [succ : Seq(Seq(Nat)), pre : Seq(Seq(Nat)), code : Seq(Seq(S)),
                         cur : Nat, ids : Nat, aborted : BOOLEAN]
               /\ Len(f.succ) = LastBlock(f) /\ Len(f.pre) = LastBlock(f)
  BY DEF Listed
<1>2. CASE Terminated(f, f.cur)
  <2>1. g = [f EXCEPT !.aborted = TRUE]
    BY <1>2 DEF Emit
  <2>2. /\ g \in [succ : Seq(Seq(Nat)), pre : Seq(Seq(Nat)), code : Seq(Seq(S)),
                  cur : Nat, ids : Nat, aborted : BOOLEAN]
        /\ g.succ = f.succ /\ g.pre = f.pre /\ g.code = f.code /\ g.cur = f.cur
    BY <1>1, <2>1
  <2> QED
    BY <1>1, <2>2 DEF Listed, LastBlock
<1>3. CASE ~Terminated(f, f.cur)
  <2>1. PICK c : c = [f.code EXCEPT ![f.cur] = Append(@, instr)]
    OBVIOUS
  <2>2. /\ LastBlock(f) \in Nat /\ f.cur \in 1 .. LastBlock(f)
        /\ \A b \in 1 .. LastBlock(f) : f.code[b] \in Seq(S) /\ f.code[b] \in Seq(S \cup {instr})
    <3>1. f.code \in Seq(Seq(S)) /\ LastBlock(f) \in Nat /\ Blocks(f) = 1 .. LastBlock(f)
      BY <1>1, ListedFacts
    <3> QED
      BY <3>1 DEF LastBlock
  <2>3. Append(f.code[f.cur], instr) \in Seq(S \cup {instr})
    BY <2>2
  <2>4. DOMAIN f.code = 1 .. LastBlock(f)
    BY ListedFacts
  <2>5. c \in [1 .. LastBlock(f) -> Seq(S \cup {instr})]
    BY <2>1, <2>2, <2>3, <2>4
  <2>6. c \in Seq(Seq(S \cup {instr})) /\ Len(c) = LastBlock(f)
    BY <2>2, <2>5, FunSeq
  <2>7. g = [f EXCEPT !.code = c]
    BY <1>1, <1>3, <2>1 DEF Emit
  <2>8. /\ g \in [succ : Seq(Seq(Nat)), pre : Seq(Seq(Nat)), code : Seq(Seq(S \cup {instr})),
                  cur : Nat, ids : Nat, aborted : BOOLEAN]
        /\ g.succ = f.succ /\ g.pre = f.pre /\ g.code = c /\ g.cur = f.cur
    BY <1>1, <2>6, <2>7
  <2>9. Listed(g)
    BY <1>1, <2>6, <2>8 DEF Listed, LastBlock
  <2> QED
    BY <2>1, <2>8, <2>9
<1> QED
  BY <1>2, <1>3

\* Intervals from 1 on are equal when their ends are.
LEMMA EndsAre ==
  ASSUME NEW m \in Nat, NEW n \in Nat, 1 .. m = 1 .. n
  PROVE  m = n
<1>1. m \in 1 .. m \/ m = 0
  OBVIOUS
<1>2. n \in 1 .. n \/ n = 0
  OBVIOUS
<1> QED
  BY <1>1, <1>2

LEMMA NumberLists ==
  ASSUME NEW f, Listed(f), NEW g, g = [f EXCEPT !.ids = @ + 1]
  PROVE  Listed(g) /\ g.pre = f.pre /\ g.cur = f.cur /\ g.code = f.code
<1>1. PICK S : /\ f \in [succ : Seq(Seq(Nat)), pre : Seq(Seq(Nat)), code : Seq(Seq(S)),
                         cur : Nat, ids : Nat, aborted : BOOLEAN]
               /\ Len(f.succ) = LastBlock(f) /\ Len(f.pre) = LastBlock(f)
  BY DEF Listed
<1>2. f.ids + 1 \in Nat
  BY <1>1
<1>3. /\ g \in [succ : Seq(Seq(Nat)), pre : Seq(Seq(Nat)), code : Seq(Seq(S)),
                cur : Nat, ids : Nat, aborted : BOOLEAN]
      /\ g.succ = f.succ /\ g.pre = f.pre /\ g.code = f.code /\ g.cur = f.cur
  BY <1>1, <1>2
<1> QED
  BY <1>1, <1>3 DEF Listed, LastBlock

LEMMA NewBlockLists ==
  ASSUME NEW f, Listed(f), NEW g, g = NewBlock(f)
  PROVE  /\ Listed(g) /\ g.cur = f.cur /\ LastBlock(g) = LastBlock(f) + 1
         /\ \A b \in Blocks(f) : g.pre[b] = f.pre[b] /\ g.code[b] = f.code[b]
         /\ g.pre[LastBlock(g)] = << >> /\ g.code[LastBlock(g)] = << >>
<1>1. PICK S : /\ f \in [succ : Seq(Seq(Nat)), pre : Seq(Seq(Nat)), code : Seq(Seq(S)),
                         cur : Nat, ids : Nat, aborted : BOOLEAN]
               /\ Len(f.succ) = LastBlock(f) /\ Len(f.pre) = LastBlock(f)
  BY DEF Listed
<1>2. /\ g.succ = Append(f.succ, << >>) /\ g.pre = Append(f.pre, << >>)
      /\ g.code = Append(f.code, << >>) /\ g.cur = f.cur
  BY <1>1 DEF NewBlock
<1>3. << >> \in Seq(Nat) /\ << >> \in Seq(S)
  OBVIOUS
<1>4. /\ Append(f.succ, << >>) \in Seq(Seq(Nat)) /\ Append(f.pre, << >>) \in Seq(Seq(Nat))
      /\ Append(f.code, << >>) \in Seq(Seq(S))
  BY <1>1, <1>3
<1>5. g \in [succ : Seq(Seq(Nat)), pre : Seq(Seq(Nat)), code : Seq(Seq(S)),
             cur : Nat, ids : Nat, aborted : BOOLEAN]
  BY <1>1, <1>4 DEF NewBlock
<1>6. /\ Len(g.code) = Len(f.code) + 1 /\ Len(g.pre) = Len(f.pre) + 1 /\ Len(g.succ) = Len(f.succ) + 1
      /\ g.code[Len(f.code) + 1] = << >> /\ g.pre[Len(f.pre) + 1] = << >>
      /\ \A b \in 1 .. Len(f.code) : g.code[b] = f.code[b]
      /\ \A b \in 1 .. Len(f.pre) : g.pre[b] = f.pre[b]
  <2>1. f.code \in Seq(Seq(S)) /\ f.pre \in Seq(Seq(Nat)) /\ f.succ \in Seq(Seq(Nat))
    BY <1>1
  <2> QED
    BY <1>2, <2>1, SeqAppend
<1>7. Listed(g)
  BY <1>1, <1>5, <1>6 DEF Listed, LastBlock
<1>8. Blocks(f) = 1 .. LastBlock(f)
  BY ListedFacts
<1> QED
  BY <1>1, <1>2, <1>6, <1>7, <1>8 DEF LastBlock

LEMMA SetInsertLists ==
  ASSUME NEW f, Listed(f), NEW b \in Blocks(f), NEW g, g = SetInsert(f, b)
  PROVE  Listed(g) /\ g.pre = f.pre /\ g.code = f.code /\ g.cur = b
<1>1. PICK S : /\ f \in [succ : Seq(Seq(Nat)), pre : Seq(Seq(Nat)), code : Seq(Seq(S)),
                         cur : Nat, ids : Nat, aborted : BOOLEAN]
               /\ Len(f.succ) = LastBlock(f) /\ Len(f.pre) = LastBlock(f)
  BY DEF Listed
<1>2. b \in Nat
  BY ListedFacts
<1>3. /\ g \in [succ : Seq(Seq(Nat)), pre : Seq(Seq(Nat)), code : Seq(Seq(S)),
                cur : Nat, ids : Nat, aborted : BOOLEAN]
      /\ g.succ = f.succ /\ g.pre = f.pre /\ g.code = f.code /\ g.cur = b
  BY <1>1, <1>2 DEF SetInsert
<1> QED
  BY <1>1, <1>3 DEF Listed, LastBlock

LEMMA AddEdgeLists ==
  ASSUME NEW f, Listed(f), NEW b \in Blocks(f), NEW t \in Blocks(f), NEW g, g = AddEdge(f, b, t)
  PROVE  /\ Listed(g) /\ g.code = f.code /\ g.cur = f.cur
         /\ ToSet(g.pre[t]) = ToSet(f.pre[t]) \cup {b}
         /\ \A c \in Blocks(f) : c # t => g.pre[c] = f.pre[c]
<1>1. PICK S : /\ f \in [succ : Seq(Seq(Nat)), pre : Seq(Seq(Nat)), code : Seq(Seq(S)),
                         cur : Nat, ids : Nat, aborted : BOOLEAN]
               /\ Len(f.succ) = LastBlock(f) /\ Len(f.pre) = LastBlock(f)
  BY DEF Listed
<1>2. LastBlock(f) \in Nat /\ b \in 1 .. LastBlock(f) /\ t \in 1 .. LastBlock(f)
  BY ListedFacts
<1>3. PICK s, p : s = [f.succ EXCEPT ![b] = Append(@, t)] /\ p = [f.pre EXCEPT ![t] = Append(@, b)]
  OBVIOUS
<1>4. f.succ \in [1 .. LastBlock(f) -> Seq(Nat)] /\ f.pre \in [1 .. LastBlock(f) -> Seq(Nat)]
  BY <1>1
<1>5. Append(f.succ[b], t) \in Seq(Nat) /\ Append(f.pre[t], b) \in Seq(Nat)
  <2>1. PICK x, y : x = f.succ[b] /\ y = f.pre[t]
    OBVIOUS
  <2>2. x \in Seq(Nat) /\ y \in Seq(Nat) /\ b \in Nat /\ t \in Nat
    BY <1>2, <1>4, <2>1
  <2>3. Append(x, t) \in Seq(Nat) /\ Append(y, b) \in Seq(Nat)
    BY <2>2
  <2> QED
    BY <2>1, <2>3
<1>6. s \in [1 .. LastBlock(f) -> Seq(Nat)] /\ p \in [1 .. LastBlock(f) -> Seq(Nat)]
  BY <1>3, <1>4, <1>5
<1>7. s \in Seq(Seq(Nat)) /\ p \in Seq(Seq(Nat)) /\ Len(s) = LastBlock(f) /\ Len(p) = LastBlock(f)
  BY <1>2, <1>6, FunSeq
<1>8. g = [f EXCEPT !.succ = s, !.pre = p]
  BY <1>1, <1>3 DEF AddEdge
<1>9. /\ g \in [succ : Seq(Seq(Nat)), pre : Seq(Seq(Nat)), code : Seq(Seq(S)),
                cur : Nat, ids : Nat, aborted : BOOLEAN]
      /\ g.succ = s /\ g.pre = p /\ g.code = f.code /\ g.cur = f.cur
  BY <1>1, <1>7, <1>8
<1>10. Listed(g)
  BY <1>7, <1>9 DEF Listed, LastBlock
<1>11. p[t] = Append(f.pre[t], b) /\ \A c \in 1 .. LastBlock(f) : c # t => p[c] = f.pre[c]
  BY <1>2, <1>3, <1>4
<1>12. Blocks(f) = 1 .. LastBlock(f)
  BY ListedFacts
<1>13. ToSet(p[t]) = ToSet(f.pre[t]) \cup {b}
  <2>1. PICK y : y = f.pre[t]
    OBVIOUS
  <2>2. y \in Seq(Nat)
    BY <1>2, <1>4, <2>1
  <2>3. ToSet(Append(y, b)) = ToSet(y) \cup {b}
    BY <2>2, SeqAppend
  <2> QED
    BY <1>11, <2>1, <2>3
<1> QED
  BY <1>9, <1>10, <1>11, <1>12, <1>13

LEMMA AddInstrBeginLists ==
  ASSUME NEW f, Listed(f), NEW b \in Blocks(f), NEW instr, NEW g, g = AddInstrBegin(f, b, instr)
  PROVE  /\ Listed(g) /\ g.pre = f.pre /\ g.cur = f.cur
         /\ LastBlock(g) = LastBlock(f) /\ Blocks(g) = Blocks(f)
         /\ g.code[b] = <<instr>> \o f.code[b]
         /\ \A x \in Blocks(f) : x # b => g.code[x] = f.code[x]
<1>1. PICK S : /\ f \in [succ : Seq(Seq(Nat)), pre : Seq(Seq(Nat)), code : Seq(Seq(S)),
                         cur : Nat, ids : Nat, aborted : BOOLEAN]
               /\ Len(f.succ) = LastBlock(f) /\ Len(f.pre) = LastBlock(f)
  BY DEF Listed
<1>2. PICK c : c = [f.code EXCEPT ![b] = <<instr>> \o @]
  OBVIOUS
<1>3. /\ LastBlock(f) \in Nat /\ b \in 1 .. LastBlock(f) /\ DOMAIN f.code = 1 .. LastBlock(f)
      /\ \A x \in 1 .. LastBlock(f) : f.code[x] \in Seq(S) /\ f.code[x] \in Seq(S \cup {instr})
  <2>1. f.code \in Seq(Seq(S)) /\ LastBlock(f) \in Nat /\ Blocks(f) = 1 .. LastBlock(f)
    BY <1>1, ListedFacts
  <2> QED
    BY <2>1 DEF LastBlock
<1>4. <<instr>> \o f.code[b] \in Seq(S \cup {instr})
  BY <1>3, SeqPrepend
<1>5. c \in [1 .. LastBlock(f) -> Seq(S \cup {instr})]
  BY <1>2, <1>3, <1>4
<1>6. c \in Seq(Seq(S \cup {instr})) /\ Len(c) = LastBlock(f)
  BY <1>3, <1>5, FunSeq
<1>7. g = [f EXCEPT !.code = c]
  BY <1>1, <1>2 DEF AddInstrBegin
<1>8. /\ g \in [succ : Seq(Seq(Nat)), pre : Seq(Seq(Nat)), code : Seq(Seq(S \cup {instr})),
                cur : Nat, ids : Nat, aborted : BOOLEAN]
      /\ g.succ = f.succ /\ g.pre = f.pre /\ g.code = c /\ g.cur = f.cur
  BY <1>1, <1>6, <1>7
<1>9. Listed(g)
  BY <1>1, <1>6, <1>8 DEF Listed, LastBlock
<1>10. LastBlock(g) = LastBlock(f) /\ Blocks(g) = Blocks(f)
  <2>1. Blocks(g) = 1 .. LastBlock(g) /\ Blocks(f) = 1 .. LastBlock(f)
    BY <1>9, ListedFacts
  <2>2. LastBlock(g) = LastBlock(f)
    BY <1>6, <1>8 DEF LastBlock
  <2> QED
    BY <2>1, <2>2
<1>11. c[b] = <<instr>> \o f.code[b] /\ \A x \in 1 .. LastBlock(f) : x # b => c[x] = f.code[x]
  BY <1>2, <1>3
<1>12. Blocks(f) = 1 .. LastBlock(f)
  BY ListedFacts
<1> QED
  BY <1>8, <1>9, <1>10, <1>11, <1>12

-----------------------------------------------------------------------------
\* What a body has grown to has the blocks it had, and perhaps more.
LEMMA GrownFacts ==
  ASSUME NEW f, Body(f), NEW V, NEW g, Grown(f, g, V)
  PROVE  /\ LastBlock(f) \in Nat /\ Blocks(f) = 1 .. LastBlock(f)
         /\ Listed(g) /\ LastBlock(g) \in Nat /\ Blocks(g) = 1 .. LastBlock(g)
         /\ LastBlock(f) <= LastBlock(g) /\ Blocks(f) \subseteq Blocks(g)
         /\ g.cur \in Blocks(g) /\ Ahead(f, g.cur)
<1>1. LastBlock(f) \in Nat /\ Blocks(f) = 1 .. LastBlock(f)
  BY BlocksAre DEF Body
<1>2. Listed(g) /\ LastBlock(f) <= LastBlock(g) /\ g.cur \in Blocks(g) /\ Ahead(f, g.cur)
  BY DEF Grown
<1>3. LastBlock(g) \in Nat /\ Blocks(g) = 1 .. LastBlock(g)
  BY <1>2, ListedFacts
<1> QED
  BY <1>1, <1>2, <1>3

\* An instruction that is no load, or one of a variable of V.
LEMMA GrownEmit ==
  ASSUME NEW f, Body(f), NEW V, NEW g, Grown(f, g, V), NEW instr,
         instr.op = "load" => instr.var \in V, NEW h, h = Emit(g, instr)
  PROVE  Grown(f, h, V) /\ h.cur = g.cur /\ LastBlock(h) = LastBlock(g)
<1>1. /\ Listed(g) /\ LastBlock(g) \in Nat /\ g.cur \in Blocks(g) /\ Ahead(f, g.cur)
      /\ Blocks(f) \subseteq Blocks(g)
  BY GrownFacts
<1>2. /\ Listed(h) /\ h.pre = g.pre /\ h.cur = g.cur
      /\ h.code = g.code \/ h.code = [g.code EXCEPT ![g.cur] = Append(@, instr)]
  BY <1>1, EmitLists
<1>3. CASE h.code = g.code
  <2>1. LastBlock(h) = LastBlock(g) /\ Blocks(h) = Blocks(g)
    BY <1>3 DEF LastBlock, Blocks
  <2> QED
    BY <1>2, <1>3, <2>1 DEF Grown
<1>4. CASE h.code = [g.code EXCEPT ![g.cur] = Append(@, instr)]
  <2>1. PICK S : g.code[g.cur] \in Seq(S)
    BY <1>1, ListedFacts
  <2>2. PICK c, n : c = Append(g.code[g.cur], instr) /\ n = Len(g.code[g.cur])
    OBVIOUS
  <2>3. /\ n \in Nat /\ DOMAIN g.code[g.cur] = 1 .. n /\ DOMAIN c = 1 .. n + 1
        /\ c[n + 1] = instr /\ \A k \in 1 .. n : c[k] = g.code[g.cur][k]
    <3>1. n \in Nat /\ DOMAIN g.code[g.cur] = 1 .. n
      BY <2>1, <2>2
    <3> QED
      BY <2>1, <2>2, <3>1, SeqAppend
  <2>4. Blocks(h) = Blocks(g) /\ LastBlock(h) = LastBlock(g)
    <3>1. Blocks(h) = Blocks(g)
      BY <1>4 DEF Blocks
    <3>2. Blocks(h) = 1 .. LastBlock(h) /\ Blocks(g) = 1 .. LastBlock(g) /\ LastBlock(h) \in Nat
      BY <1>1, <1>2, ListedFacts
    <3> QED
      BY <1>1, <3>1, <3>2, EndsAre
  <2>5. h.code[g.cur] = c /\ \A b \in Blocks(g) : b # g.cur => h.code[b] = g.code[b]
    BY <1>1, <1>4, <2>2 DEF Blocks
  <2>6. ASSUME NEW b \in Blocks(g), NEW k \in DOMAIN g.code[b]
        PROVE  k \in DOMAIN h.code[b] /\ h.code[b][k] = g.code[b][k]
    <3>1. \A i \in 1 .. n : i \in 1 .. n + 1
      BY <2>3
    <3> QED
      BY <2>3, <2>5, <3>1
  <2>7. ASSUME NEW b \in Blocks(g), NEW k \in DOMAIN h.code[b]
        PROVE  \/ k \in DOMAIN g.code[b] /\ h.code[b][k] = g.code[b][k]
               \/ b = g.cur /\ h.code[b][k] = instr
    <3>1. \A i \in 1 .. n + 1 : i \in 1 .. n \/ i = n + 1
      BY <2>3
    <3> QED
      BY <2>3, <2>5, <3>1
  <2>8. \A b \in Blocks(h) : \A k \in DOMAIN h.code[b] :
          h.code[b][k].op = "load" =>
            \/ b \in Blocks(f) /\ k \in DOMAIN f.code[b]
            \/ Ahead(f, b) /\ h.code[b][k].var \in V
    <3>1. \A b \in Blocks(g) : \A k \in DOMAIN g.code[b] :
            g.code[b][k].op = "load" =>
              \/ b \in Blocks(f) /\ k \in DOMAIN f.code[b]
              \/ Ahead(f, b) /\ g.code[b][k].var \in V
      BY DEF Grown
    <3> QED
      BY <1>1, <2>4, <2>7, <3>1
  <2>9. \A b \in Blocks(f) :
          /\ h.pre[b] = f.pre[b]
          /\ \A k \in DOMAIN f.code[b] : k \in DOMAIN h.code[b] /\ h.code[b][k] = f.code[b][k]
    BY <1>1, <1>2, <2>6 DEF Grown
  <2>10. \A b \in Blocks(h) \ Blocks(f) : \A p \in ToSet(h.pre[b]) : Ahead(f, p)
    BY <1>2, <2>4 DEF Grown
  <2> QED
    BY <1>1, <1>2, <2>4, <2>8, <2>9, <2>10 DEF Grown
<1> QED
  BY <1>2, <1>3, <1>4

\* A number more.
LEMMA GrownNumber ==
  ASSUME NEW f, NEW V, NEW g, Grown(f, g, V), NEW h, h = [g EXCEPT !.ids = @ + 1]
  PROVE  Grown(f, h, V) /\ h.cur = g.cur /\ LastBlock(h) = LastBlock(g)
<1>1. Listed(h) /\ h.pre = g.pre /\ h.cur = g.cur /\ h.code = g.code
  BY NumberLists DEF Grown
<1>2. LastBlock(h) = LastBlock(g) /\ Blocks(h) = Blocks(g)
  BY <1>1 DEF LastBlock, Blocks
<1> QED
  BY <1>1, <1>2 DEF Grown

\* A block more.
LEMMA GrownBlock ==
  ASSUME NEW f, Body(f), NEW V, NEW g, Grown(f, g, V), NEW h, h = NewBlock(g)
  PROVE  Grown(f, h, V) /\ h.cur = g.cur /\ LastBlock(h) = LastBlock(g) + 1
<1>1. /\ Listed(g) /\ LastBlock(g) \in Nat /\ Blocks(g) = 1 .. LastBlock(g)
      /\ LastBlock(f) \in Nat /\ LastBlock(f) <= LastBlock(g) /\ Blocks(f) = 1 .. LastBlock(f)
      /\ g.cur \in Blocks(g) /\ Ahead(f, g.cur) /\ Blocks(f) \subseteq Blocks(g)
  BY GrownFacts
<1>2. /\ Listed(h) /\ h.cur = g.cur /\ LastBlock(h) = LastBlock(g) + 1
      /\ \A b \in Blocks(g) : h.pre[b] = g.pre[b] /\ h.code[b] = g.code[b]
      /\ h.pre[LastBlock(h)] = << >> /\ h.code[LastBlock(h)] = << >>
  BY <1>1, NewBlockLists
<1>3. /\ Blocks(h) = 1 .. LastBlock(h) /\ LastBlock(h) \in Nat /\ Blocks(g) \subseteq Blocks(h)
      /\ \A b \in Blocks(h) : b \in Blocks(g) \/ b = LastBlock(h)
  <2>1. Blocks(h) = 1 .. LastBlock(h)
    BY <1>2, ListedFacts
  <2> QED
    BY <1>1, <1>2, <2>1
<1>4. DOMAIN << >> = {} /\ ToSet(<< >>) = {}
  BY DEF ToSet
<1>5. \A b \in Blocks(h) : \A k \in DOMAIN h.code[b] :
        h.code[b][k].op = "load" =>
          \/ b \in Blocks(f) /\ k \in DOMAIN f.code[b]
          \/ Ahead(f, b) /\ h.code[b][k].var \in V
  BY <1>2, <1>3, <1>4 DEF Grown
<1>6. \A b \in Blocks(h) \ Blocks(f) : \A p \in ToSet(h.pre[b]) : Ahead(f, p)
  BY <1>2, <1>3, <1>4 DEF Grown
<1>7. \A b \in Blocks(f) :
        /\ h.pre[b] = f.pre[b]
        /\ \A k \in DOMAIN f.code[b] : k \in DOMAIN h.code[b] /\ h.code[b][k] = f.code[b][k]
  BY <1>1, <1>2 DEF Grown
<1>8. LastBlock(f) <= LastBlock(h)
  BY <1>1, <1>2
<1> QED
  BY <1>1, <1>2, <1>3, <1>5, <1>6, <1>7, <1>8 DEF Grown

\* The insert point moves to a block of its own.
LEMMA GrownInsert ==
  ASSUME NEW f, Body(f), NEW V, NEW g, Grown(f, g, V), NEW b \in Blocks(g), Ahead(f, b),
         NEW h, h = SetInsert(g, b)
  PROVE  Grown(f, h, V) /\ h.cur = b /\ LastBlock(h) = LastBlock(g)
<1>1. Listed(g)
  BY GrownFacts
<1>2. Listed(h) /\ h.pre = g.pre /\ h.code = g.code /\ h.cur = b
  BY <1>1, SetInsertLists
<1>3. LastBlock(h) = LastBlock(g) /\ Blocks(h) = Blocks(g)
  BY <1>2 DEF LastBlock, Blocks
<1> QED
  BY <1>2, <1>3 DEF Grown

\* An edge to a new block.
LEMMA GrownEdge ==
  ASSUME NEW f, Body(f), NEW V, NEW g, Grown(f, g, V), NEW b \in Blocks(g), Ahead(f, b),
         NEW t \in Blocks(g) \ Blocks(f), NEW h, h = AddEdge(g, b, t)
  PROVE  Grown(f, h, V) /\ h.cur = g.cur /\ LastBlock(h) = LastBlock(g)
<1>1. Listed(g) /\ Blocks(f) \subseteq Blocks(g)
  BY GrownFacts
<1>2. /\ Listed(h) /\ h.code = g.code /\ h.cur = g.cur
      /\ ToSet(h.pre[t]) = ToSet(g.pre[t]) \cup {b}
      /\ \A c \in Blocks(g) : c # t => h.pre[c] = g.pre[c]
  BY <1>1, AddEdgeLists
<1>3. LastBlock(h) = LastBlock(g) /\ Blocks(h) = Blocks(g)
  BY <1>2 DEF LastBlock, Blocks
<1>4. \A c \in Blocks(h) \ Blocks(f) : \A p \in ToSet(h.pre[c]) : Ahead(f, p)
  BY <1>2, <1>3 DEF Grown
<1>5. \A c \in Blocks(f) : h.pre[c] = f.pre[c]
  BY <1>1, <1>2 DEF Grown
<1> QED
  BY <1>2, <1>3, <1>4, <1>5 DEF Grown

\* A phi before a new block.
LEMMA GrownPhi ==
  ASSUME NEW f, Body(f), NEW V, NEW g, Grown(f, g, V), NEW b \in Blocks(g) \ Blocks(f),
         NEW phi, IsPhi(phi), NEW h, h = AddInstrBegin(g, b, phi)
  PROVE  Grown(f, h, V) /\ h.cur = g.cur /\ LastBlock(h) = LastBlock(g)
<1>1. Listed(g) /\ Blocks(f) \subseteq Blocks(g) /\ LastBlock(g) \in Nat /\ b \in Blocks(g)
  BY GrownFacts
<1>2. /\ Listed(h) /\ h.pre = g.pre /\ h.cur = g.cur
      /\ LastBlock(h) = LastBlock(g) /\ Blocks(h) = Blocks(g)
      /\ h.code[b] = <<phi>> \o g.code[b]
      /\ \A c \in Blocks(g) : c # b => h.code[c] = g.code[c]
  BY <1>1, AddInstrBeginLists
<1>3. \E S : g.code[b] \in Seq(S)
  BY <1>1, ListedFacts
<1>4. LastBlock(h) = LastBlock(g) /\ Blocks(h) = Blocks(g)
  BY <1>2
<1>5. \A c \in Blocks(g) : c # b => h.code[c] = g.code[c]
  BY <1>2
<1>6. h.code[b] = <<phi>> \o g.code[b]
  BY <1>2
<1>7. \A k \in DOMAIN h.code[b] : h.code[b][k] = phi \/ \E j \in DOMAIN g.code[b] : h.code[b][k] = g.code[b][j]
  BY <1>3, <1>6, SeqPrepend
<1>8. \A c \in Blocks(h) : \A k \in DOMAIN h.code[c] :
        h.code[c][k].op = "load" =>
          \/ c \in Blocks(f) /\ k \in DOMAIN f.code[c]
          \/ Ahead(f, c) /\ h.code[c][k].var \in V
  <2>1. \A c \in Blocks(g) : \A k \in DOMAIN g.code[c] :
          g.code[c][k].op = "load" =>
            \/ c \in Blocks(f) /\ k \in DOMAIN f.code[c]
            \/ Ahead(f, c) /\ g.code[c][k].var \in V
    BY DEF Grown
  <2>2. phi.op # "load"
    BY DEF IsPhi
  <2>3. \A k \in DOMAIN h.code[b] : h.code[b][k].op = "load" => Ahead(f, b) /\ h.code[b][k].var \in V
    BY <1>7, <2>1, <2>2
  <2> QED
    BY <1>4, <1>5, <2>1, <2>3
<1>9. \A c \in Blocks(f) :
        /\ h.pre[c] = f.pre[c]
        /\ \A k \in DOMAIN f.code[c] : k \in DOMAIN h.code[c] /\ h.code[c][k] = f.code[c][k]
  BY <1>1, <1>2, <1>5 DEF Grown
<1> QED
  BY <1>2, <1>4, <1>8, <1>9 DEF Grown

-----------------------------------------------------------------------------
\* the variables an expression reads are among V
ReadsIn(s, e, V) == e # NoName => Find(s, e) \in V

\* A scalar expression.
LEMMA GrownEval ==
  ASSUME NEW f, Body(f), NEW V, NEW g, Grown(f, g, V), NEW s, NEW e, ReadsIn(s, e, V),
         NEW h, h = Eval(g, s, e)
  PROVE  Grown(f, h, V) /\ h.cur = g.cur /\ LastBlock(h) = LastBlock(g)
<1>1. CASE e = NoName
  BY <1>1 DEF Eval
<1>2. CASE e # NoName
  <2>1. PICK i, w : i = Load(g.ids + 1, Find(s, e)) /\ w = Emit(g, i)
    OBVIOUS
  <2>2. i.op = "load" => i.var \in V
    BY <1>2, <2>1 DEF Load, ReadsIn
  <2>3. Grown(f, w, V) /\ w.cur = g.cur /\ LastBlock(w) = LastBlock(g)
    BY <2>1, <2>2, GrownEmit
  <2>4. h = [w EXCEPT !.ids = @ + 1]
    BY <1>2, <2>1 DEF Eval, EmitLoad
  <2> QED
    BY <2>3, <2>4, GrownNumber
<1> QED
  BY <1>1, <1>2

\* An operand in a block of its own.
LEMMA GrownStart ==
  ASSUME NEW f, Body(f), NEW V, NEW g, Grown(f, g, V), NEW h, h = StartBlock(g)
  PROVE  Grown(f, h, V) /\ LastBlock(h) = LastBlock(g) + 1
<1>1. PICK w : w = NewBlock(g)
  OBVIOUS
<1>2. Grown(f, w, V) /\ LastBlock(w) = LastBlock(g) + 1
  BY <1>1, GrownBlock
<1>3. /\ LastBlock(w) \in Blocks(w) /\ LastBlock(w) > LastBlock(f)
  BY <1>2, GrownFacts
<1>4. h = SetInsert(w, LastBlock(w))
  BY <1>1, <1>2 DEF StartBlock
<1> QED
  BY <1>2, <1>3, <1>4, GrownInsert DEF Ahead

\* Branches to new blocks.
LEMMA GrownBr ==
  ASSUME NEW f, Body(f), NEW V, NEW g, Grown(f, g, V), NEW t \in Blocks(g) \ Blocks(f),
         NEW h, h = Br(g, t)
  PROVE  Grown(f, h, V) /\ h.cur = g.cur /\ LastBlock(h) = LastBlock(g)
<1>1. PICK w : w = Emit(g, Branch)
  OBVIOUS
<1>2. Grown(f, w, V) /\ w.cur = g.cur /\ LastBlock(w) = LastBlock(g)
  BY <1>1, GrownEmit DEF Branch
<1>3. w.cur \in Blocks(w) /\ Ahead(f, w.cur) /\ Blocks(w) = Blocks(g)
  BY <1>2, GrownFacts
<1>4. h = AddEdge(w, w.cur, t)
  BY <1>1, <1>2 DEF Br
<1> QED
  BY <1>2, <1>3, <1>4, GrownEdge

LEMMA GrownCondBr ==
  ASSUME NEW f, Body(f), NEW V, NEW g, Grown(f, g, V), NEW t \in Blocks(g) \ Blocks(f),
         NEW e \in Blocks(g) \ Blocks(f), NEW h, h = CondBr(g, t, e)
  PROVE  Grown(f, h, V) /\ h.cur = g.cur /\ LastBlock(h) = LastBlock(g)
<1>1. PICK w : w = Br(g, t)
  OBVIOUS
<1>2. Grown(f, w, V) /\ w.cur = g.cur /\ LastBlock(w) = LastBlock(g)
  BY <1>1, GrownBr
<1>3. w.cur \in Blocks(w) /\ Ahead(f, w.cur) /\ Blocks(w) = Blocks(g)
  BY <1>2, GrownFacts
<1>4. h = AddEdge(w, w.cur, e)
  BY <1>1, <1>2 DEF Br, CondBr
<1> QED
  BY <1>2, <1>3, <1>4, GrownEdge

\* The last branch of a chain, and the phi.
LEMMA GrownJoin ==
  ASSUME NEW f, Body(f), NEW V, NEW g, Grown(f, g, V), NEW from,
         Last(from) \in Blocks(g), Ahead(f, Last(from)), NEW cont \in Blocks(g) \ Blocks(f),
         NEW h, h = Join(g, from, cont)
  PROVE  Grown(f, h, V) /\ LastBlock(h) = LastBlock(g)
<1>1. PICK u, v, w : u = SetInsert(g, Last(from)) /\ v = Br(u, cont) /\ w = SetInsert(v, cont)
  OBVIOUS
<1>2. Grown(f, u, V) /\ LastBlock(u) = LastBlock(g)
  BY <1>1, GrownInsert
<1>3. Blocks(u) = Blocks(g)
  BY <1>2, GrownFacts
<1>4. Grown(f, v, V) /\ LastBlock(v) = LastBlock(g)
  BY <1>1, <1>2, <1>3, GrownBr
<1>5. Blocks(v) = Blocks(g) /\ Ahead(f, cont)
  <2>1. Blocks(v) = Blocks(g)
    BY <1>4, GrownFacts
  <2>2. cont > LastBlock(f)
    BY GrownFacts
  <2> QED
    BY <2>1, <2>2 DEF Ahead
<1>6. Grown(f, w, V) /\ LastBlock(w) = LastBlock(g)
  BY <1>1, <1>4, <1>5, GrownInsert
<1>7. Blocks(w) = Blocks(g)
  BY <1>6, GrownFacts
<1>8. h = AddInstrBegin(w, cont, CondPhi(from))
  BY <1>1 DEF Join
<1>9. IsPhi(CondPhi(from))
  BY DEF IsPhi, CondPhi
<1> QED
  BY <1>6, <1>7, <1>8, <1>9, GrownPhi

-----------------------------------------------------------------------------
(***************************************************************************)
(* Chains of operands and of branches, as runs.  The hypothesis is what    *)
(* the body has grown from, V, and the number of blocks at the start.      *)
(***************************************************************************)
GrownEach(hyp, n, g) == Grown(hyp[1], g, hyp[2]) /\ LastBlock(g) = hyp[3] + n

GrownSame(hyp, n, g) == Grown(hyp[1], g, hyp[2]) /\ LastBlock(g) = hyp[3]

GrownOr(hyp, n, acc) == Grown(hyp[1], acc.body, hyp[2])

AndsGrow     == INSTANCE IterateProofs WITH step <- AndStep, known <- GrownEach
AndJoinsGrow == INSTANCE IterateProofs WITH step <- AndBranch, known <- GrownSame
OrJoinsGrow  == INSTANCE IterateProofs WITH step <- OrBranch, known <- GrownSame
OrsGrow      == INSTANCE IterateProofs WITH step <- OrStep, known <- GrownOr

\* The operands of a && chain.
LEMMA GrownAndOperands ==
  ASSUME NEW f, Body(f), NEW V, NEW g, Grown(f, g, V), NEW s, NEW e, ReadsIn(s, e, V),
         NEW n \in Nat \ {0}, NEW h, h = AndOperands(g, s, e, n)
  PROVE  Grown(f, h, V) /\ LastBlock(h) = LastBlock(g) + (n - 1)
<1>1. PICK hyp : f = hyp[1] /\ V = hyp[2] /\ LastBlock(g) = hyp[3]
  <2>1. f = <<f, V, LastBlock(g)>>[1] /\ V = <<f, V, LastBlock(g)>>[2] /\ LastBlock(g) = <<f, V, LastBlock(g)>>[3]
    OBVIOUS
  <2> QED
    BY <2>1
<1>2. PICK env : s = env[1] /\ e = env[2]
  <2>1. s = <<s, e>>[1] /\ e = <<s, e>>[2]
    OBVIOUS
  <2> QED
    BY <2>1
<1>3. PICK seq : seq = [i \in 1 .. n - 1 |-> i]
  OBVIOUS
<1>4. Len(seq) = n - 1 /\ Len(seq) \in Nat
  BY <1>3, UpTo
<1>5. PICK w : w = Eval(g, s, e)
  OBVIOUS
<1>6. Grown(f, w, V) /\ LastBlock(w) = LastBlock(g) /\ LastBlock(g) \in Nat
  BY <1>5, GrownEval, GrownFacts
<1>7. GrownEach(hyp, 0, w)
  BY <1>1, <1>6 DEF GrownEach
<1>8. ASSUME NEW i \in 1 .. Len(seq), NEW x, GrownEach(hyp, i - 1, x)
      PROVE  GrownEach(hyp, i, AndStep(env, x, seq[i]))
  <2>1. PICK u, v : u = StartBlock(x) /\ v = Eval(u, s, e)
    OBVIOUS
  <2>2. Grown(f, x, V) /\ LastBlock(x) = LastBlock(g) + (i - 1)
    BY <1>1, <1>8 DEF GrownEach
  <2>3. Grown(f, u, V) /\ LastBlock(u) = LastBlock(x) + 1
    BY <2>1, <2>2, GrownStart
  <2>4. Grown(f, v, V) /\ LastBlock(v) = LastBlock(u)
    BY <2>1, <2>3, GrownEval
  <2>5. AndStep(env, x, seq[i]) = v
    BY <1>2, <2>1 DEF AndStep
  <2>6. LastBlock(v) = LastBlock(g) + i
    BY <1>4, <1>6, <2>2, <2>3, <2>4
  <2> QED
    BY <1>1, <2>4, <2>5, <2>6 DEF GrownEach
<1>9. GrownEach(hyp, Len(seq), AndsGrow!Run(env, w, seq))
  BY <1>4, <1>7, <1>8, AndsGrow!RunRule
<1>10. h = AndsGrow!Run(env, w, seq)
  BY <1>2, <1>3, <1>5 DEF AndOperands, AndsGrow!Run, AndsGrow!RunThrough, RunThrough, AndStep
<1> QED
  BY <1>1, <1>4, <1>9, <1>10 DEF GrownEach

(***************************************************************************)
(* The operands of a chain are in blocks of h to which the front end got   *)
(* from f; those after the first start in new ones.                        *)
(***************************************************************************)
Placed(f, h, start, end) ==
  /\ Len(end) \in Nat \ {0}
  /\ \A j \in 1 .. Len(end) : end[j] \in Blocks(h) /\ Ahead(f, end[j])
  /\ \A j \in 1 .. Len(end) : j > 1 => start[j] \in Blocks(h) \ Blocks(f)

\* One more operand gets its branch, in either order of its targets.
LEMMA GrownBranch ==
  ASSUME NEW f, Body(f), NEW V, NEW h, NEW start, NEW end, Placed(f, h, start, end),
         LastBlock(h) \in Nat, Blocks(h) = 1 .. LastBlock(h), LastBlock(f) <= LastBlock(h),
         NEW cont, cont = LastBlock(h) + 1,
         NEW g, Grown(f, g, V), LastBlock(g) = cont, NEW i \in 1 .. Len(end), i < Len(end),
         NEW u, u = SetInsert(g, end[i])
  PROVE  /\ Grown(f, CondBr(u, start[i + 1], cont), V) /\ LastBlock(CondBr(u, start[i + 1], cont)) = cont
         /\ Grown(f, CondBr(u, cont, start[i + 1]), V) /\ LastBlock(CondBr(u, cont, start[i + 1])) = cont
<1>1. /\ LastBlock(f) \in Nat /\ Blocks(f) = 1 .. LastBlock(f) /\ Blocks(g) = 1 .. cont
  BY GrownFacts
<1>2. cont \in Blocks(g) \ Blocks(f) /\ Blocks(h) \subseteq Blocks(g)
  BY <1>1
<1>3. end[i] \in Blocks(g) /\ Ahead(f, end[i])
  BY <1>2 DEF Placed
<1>4. PICK t : t = start[i + 1]
  OBVIOUS
<1>5. t \in Blocks(g) \ Blocks(f)
  <2>1. i + 1 \in 1 .. Len(end) /\ i + 1 > 1
    BY DEF Placed
  <2> QED
    BY <1>2, <1>4, <2>1 DEF Placed
<1>6. Grown(f, u, V) /\ LastBlock(u) = cont
  BY <1>3, GrownInsert
<1>7. Blocks(u) = Blocks(g)
  BY <1>1, <1>6, GrownFacts
<1>8. PICK v, w : v = CondBr(u, t, cont) /\ w = CondBr(u, cont, t)
  OBVIOUS
<1>9. Grown(f, v, V) /\ LastBlock(v) = cont
  BY <1>2, <1>5, <1>6, <1>7, <1>8, GrownCondBr
<1>10. Grown(f, w, V) /\ LastBlock(w) = cont
  BY <1>2, <1>5, <1>6, <1>7, <1>8, GrownCondBr
<1> QED
  BY <1>4, <1>8, <1>9, <1>10

\* The join of a && chain.
LEMMA GrownJoinAnd ==
  ASSUME NEW f, Body(f), NEW V, NEW h, Grown(f, h, V), NEW bb, Placed(f, h, bb, bb),
         NEW cont, cont = LastBlock(h) + 1, NEW r, r = JoinAnd(h, bb, cont)
  PROVE  Grown(f, r, V)
<1>1. PICK seq : seq = [i \in 1 .. Len(bb) - 1 |-> i]
  OBVIOUS
<1>2. Len(bb) \in Nat \ {0}
  BY DEF Placed
<1>3. /\ Len(seq) = Len(bb) - 1 /\ Len(seq) \in Nat
      /\ \A i \in 1 .. Len(seq) : seq[i] = i /\ i \in 1 .. Len(bb) /\ i < Len(bb)
  BY <1>1, <1>2, UpTo
<1>4. PICK env : bb = env[1] /\ cont = env[2]
  <2>1. bb = <<bb, cont>>[1] /\ cont = <<bb, cont>>[2]
    OBVIOUS
  <2> QED
    BY <2>1
<1>5. PICK hyp : f = hyp[1] /\ V = hyp[2] /\ cont = hyp[3]
  <2>1. f = <<f, V, cont>>[1] /\ V = <<f, V, cont>>[2] /\ cont = <<f, V, cont>>[3]
    OBVIOUS
  <2> QED
    BY <2>1
<1>6. PICK g, new : new = NewBlock(h) /\ g = AndJoinsGrow!Run(env, new, seq)
  OBVIOUS
<1>7. r = Join(g, bb, cont)
  <2>1. JoinAnd(h, env[1], env[2])
        = Join(AndJoinsGrow!Run(env, NewBlock(h), [i \in 1 .. Len(env[1]) - 1 |-> i]), env[1], env[2])
    BY DEF JoinAnd, RunThrough, AndJoinsGrow!Run, AndJoinsGrow!RunThrough, AndBranch
  <2> QED
    BY <1>1, <1>4, <1>6, <2>1
<1>8. LastBlock(h) \in Nat /\ Blocks(h) = 1 .. LastBlock(h) /\ LastBlock(f) <= LastBlock(h)
      /\ LastBlock(f) \in Nat /\ Blocks(f) = 1 .. LastBlock(f)
  BY GrownFacts
<1>9. GrownSame(hyp, 0, new)
  <2>1. Grown(f, new, V) /\ LastBlock(new) = cont
    BY <1>6, GrownBlock
  <2> QED
    BY <1>5, <2>1 DEF GrownSame
<1>10. ASSUME NEW i \in 1 .. Len(seq), NEW x, GrownSame(hyp, i - 1, x)
       PROVE  GrownSame(hyp, i, AndBranch(env, x, seq[i]))
  <2>1. Grown(f, x, V) /\ LastBlock(x) = cont
    BY <1>5, <1>10 DEF GrownSame
  <2>2. PICK u, v : u = SetInsert(x, bb[i]) /\ v = CondBr(u, bb[i + 1], cont)
    OBVIOUS
  <2>3. Grown(f, v, V) /\ LastBlock(v) = cont
    <3>1. i \in 1 .. Len(bb) /\ i < Len(bb)
      BY <1>3
    <3> QED
      BY <1>8, <2>1, <2>2, <3>1, GrownBranch
  <2>4. AndBranch(env, x, seq[i]) = v
    BY <1>3, <1>4, <2>2 DEF AndBranch
  <2> QED
    BY <1>5, <2>3, <2>4 DEF GrownSame
<1>11. GrownSame(hyp, Len(seq), g)
  BY <1>3, <1>6, <1>9, <1>10, AndJoinsGrow!RunRule
<1>12. Grown(f, g, V) /\ LastBlock(g) = cont
  BY <1>5, <1>11 DEF GrownSame
<1>13. Blocks(g) = 1 .. cont
  BY <1>12, GrownFacts
<1>14. Last(bb) \in Blocks(g) /\ Ahead(f, Last(bb)) /\ cont \in Blocks(g) \ Blocks(f)
  <2>1. Last(bb) \in Blocks(h) /\ Ahead(f, Last(bb))
    BY <1>2 DEF Placed, Last
  <2> QED
    BY <1>8, <1>13, <2>1
<1> QED
  BY <1>7, <1>12, <1>14, GrownJoin

\* The join of a || chain.
LEMMA GrownJoinOr ==
  ASSUME NEW f, Body(f), NEW V, NEW all, Grown(f, all.body, V),
         Placed(f, all.body, all.start, all.end),
         NEW cont, cont = LastBlock(all.body) + 1, NEW r, r = JoinOr(all, cont)
  PROVE  Grown(f, r, V)
<1>0. PICK h, start, end : h = all.body /\ start = all.start /\ end = all.end
  OBVIOUS
<1>1. PICK seq : seq = [i \in 1 .. Len(all.end) - 1 |-> i]
  OBVIOUS
<1>2. Len(end) \in Nat \ {0} /\ Placed(f, h, start, end) /\ Grown(f, h, V)
  BY <1>0 DEF Placed
<1>3. /\ Len(seq) = Len(end) - 1 /\ Len(seq) \in Nat
      /\ \A i \in 1 .. Len(seq) : seq[i] = i /\ i \in 1 .. Len(end) /\ i < Len(end)
  BY <1>0, <1>1, <1>2, UpTo
<1>4. PICK env : all = env[1] /\ cont = env[2]
  <2>1. all = <<all, cont>>[1] /\ cont = <<all, cont>>[2]
    OBVIOUS
  <2> QED
    BY <2>1
<1>5. PICK hyp : f = hyp[1] /\ V = hyp[2] /\ cont = hyp[3]
  <2>1. f = <<f, V, cont>>[1] /\ V = <<f, V, cont>>[2] /\ cont = <<f, V, cont>>[3]
    OBVIOUS
  <2> QED
    BY <2>1
<1>6. PICK g, new : new = NewBlock(all.body) /\ g = OrJoinsGrow!Run(env, new, seq)
  OBVIOUS
<1>7. r = Join(g, all.end, cont)
  <2>1. JoinOr(env[1], env[2])
        = Join(OrJoinsGrow!Run(env, NewBlock(env[1].body), [i \in 1 .. Len(env[1].end) - 1 |-> i]),
               env[1].end, env[2])
    BY DEF JoinOr, RunThrough, OrJoinsGrow!Run, OrJoinsGrow!RunThrough, OrBranch
  <2> QED
    BY <1>1, <1>4, <1>6, <2>1
<1>8. LastBlock(h) \in Nat /\ Blocks(h) = 1 .. LastBlock(h) /\ LastBlock(f) <= LastBlock(h)
      /\ LastBlock(f) \in Nat /\ Blocks(f) = 1 .. LastBlock(f)
  BY <1>2, GrownFacts
<1>9. GrownSame(hyp, 0, new)
  <2>1. Grown(f, new, V) /\ LastBlock(new) = cont
    BY <1>0, <1>2, <1>6, GrownBlock
  <2> QED
    BY <1>5, <2>1 DEF GrownSame
<1>10. ASSUME NEW i \in 1 .. Len(seq), NEW x, GrownSame(hyp, i - 1, x)
       PROVE  GrownSame(hyp, i, OrBranch(env, x, seq[i]))
  <2>1. Grown(f, x, V) /\ LastBlock(x) = cont
    BY <1>5, <1>10 DEF GrownSame
  <2>2. PICK u, v : u = SetInsert(x, end[i]) /\ v = CondBr(u, cont, start[i + 1])
    OBVIOUS
  <2>3. Grown(f, v, V) /\ LastBlock(v) = cont
    BY <1>0, <1>2, <1>3, <1>8, <2>1, <2>2, GrownBranch
  <2>4. OrBranch(env, x, seq[i]) = v
    BY <1>0, <1>3, <1>4, <2>2 DEF OrBranch
  <2> QED
    BY <1>5, <2>3, <2>4 DEF GrownSame
<1>11. GrownSame(hyp, Len(seq), g)
  BY <1>3, <1>6, <1>9, <1>10, OrJoinsGrow!RunRule
<1>12. Grown(f, g, V) /\ LastBlock(g) = cont
  BY <1>5, <1>11 DEF GrownSame
<1>13. Blocks(g) = 1 .. cont
  BY <1>12, GrownFacts
<1>14. Last(end) \in Blocks(g) /\ Ahead(f, Last(end)) /\ cont \in Blocks(g) \ Blocks(f)
  <2>1. Last(end) \in Blocks(h) /\ Ahead(f, Last(end))
    BY <1>2 DEF Placed, Last
  <2> QED
    BY <1>0, <1>8, <1>13, <2>1
<1> QED
  BY <1>0, <1>7, <1>12, <1>14, GrownJoin

\* A && chain.
LEMMA GrownAnd ==
  ASSUME NEW f, Body(f), NEW V, NEW g, Grown(f, g, V), NEW s, NEW e, ReadsIn(s, e, V),
         NEW n \in Nat \ {0}, NEW r, r = LowerAnd(g, s, e, n)
  PROVE  Grown(f, r, V)
<1>1. CASE n = 1
  BY <1>1, GrownEval DEF LowerAnd
<1>2. CASE n # 1
  <2>1. PICK h, bb : /\ h = AndOperands(g, s, e, n)
                     /\ bb = [i \in 1 .. n |-> IF i = 1 THEN g.cur ELSE LastBlock(g) + i - 1]
    OBVIOUS
  <2>2. Grown(f, h, V) /\ LastBlock(h) = LastBlock(g) + (n - 1)
    BY <2>1, GrownAndOperands
  <2>3. /\ LastBlock(f) \in Nat /\ Blocks(f) = 1 .. LastBlock(f)
        /\ LastBlock(g) \in Nat /\ Blocks(g) = 1 .. LastBlock(g)
        /\ LastBlock(f) <= LastBlock(g) /\ g.cur \in Blocks(g) /\ Ahead(f, g.cur)
    BY GrownFacts
  <2>4. Blocks(h) = 1 .. LastBlock(h)
    BY <2>2, GrownFacts
  <2>5. Len(bb) = n
    <3>1. bb \in [1 .. n -> Nat]
      BY <2>1, <2>3
    <3> QED
      BY <3>1, FunSeq
  <2>6. ASSUME NEW j \in 1 .. n
        PROVE  /\ bb[j] \in Blocks(h) /\ Ahead(f, bb[j])
               /\ j > 1 => bb[j] \in Blocks(h) \ Blocks(f)
    <3>1. CASE j = 1
      <4>1. bb[j] = g.cur
        BY <2>1, <3>1
      <4>2. g.cur \in Blocks(h)
        BY <2>2, <2>3, <2>4
      <4> QED
        BY <2>3, <3>1, <4>1, <4>2
    <3>2. CASE j # 1
      <4>1. bb[j] = LastBlock(g) + j - 1 /\ j > 1 /\ j <= n /\ j \in Nat
        BY <2>1, <3>2
      <4>2. bb[j] \in 1 .. LastBlock(h) /\ bb[j] > LastBlock(f)
        BY <2>2, <2>3, <4>1
      <4>3. bb[j] \notin Blocks(f)
        BY <2>3, <4>2
      <4> QED
        BY <2>4, <4>2, <4>3 DEF Ahead
    <3> QED
      BY <3>1, <3>2
  <2>7. Placed(f, h, bb, bb)
    BY <2>5, <2>6 DEF Placed
  <2>8. r = JoinAnd(h, bb, LastBlock(g) + n) /\ LastBlock(g) + n = LastBlock(h) + 1
    BY <1>2, <2>1, <2>2, <2>3 DEF LowerAnd
  <2> QED
    BY <2>2, <2>7, <2>8, GrownJoinAnd
<1> QED
  BY <1>1, <1>2

\* The operands of a || chain.
LEMMA GrownOrOperands ==
  ASSUME NEW f, Body(f), NEW V, NEW g, Grown(f, g, V), NEW s, NEW e, ReadsIn(s, e, V),
         NEW shape \in Seq(Nat \ {0}), NEW all, all = OrOperands(g, s, e, shape)
  PROVE  Grown(f, all.body, V)
<1>1. PICK seq, n : seq = [i \in DOMAIN shape |-> i] /\ n = Len(shape)
  OBVIOUS
<1>2. Len(seq) = n /\ n \in Nat /\ \A i \in 1 .. n : seq[i] = i /\ shape[i] \in Nat \ {0}
  <2>1. DOMAIN shape = 1 .. n /\ n \in Nat /\ \A i \in 1 .. n : shape[i] \in Nat \ {0}
    BY <1>1
  <2>2. seq \in [1 .. n -> Nat]
    BY <1>1, <2>1
  <2>3. Len(seq) = n
    BY <2>1, <2>2, FunSeq
  <2> QED
    BY <1>1, <2>1, <2>3
<1>3. PICK env : g = env[1] /\ s = env[2] /\ e = env[3] /\ shape = env[4]
  <2>1. /\ g = <<g, s, e, shape>>[1] /\ s = <<g, s, e, shape>>[2]
        /\ e = <<g, s, e, shape>>[3] /\ shape = <<g, s, e, shape>>[4]
    OBVIOUS
  <2> QED
    BY <2>1
<1>4. PICK first : first = [body |-> g, start |-> << >>, end |-> << >>]
  OBVIOUS
<1>5. all = OrsGrow!Run(env, first, seq)
  <2>1. OrOperands(env[1], env[2], env[3], env[4])
        = OrsGrow!Run(env, [body |-> env[1], start |-> << >>, end |-> << >>],
                      [i \in DOMAIN env[4] |-> i])
    BY DEF OrOperands, RunThrough, OrsGrow!Run, OrsGrow!RunThrough, OrStep
  <2> QED
    BY <1>1, <1>3, <1>4, <2>1
<1>6. PICK hyp : f = hyp[1] /\ V = hyp[2] /\ 0 = hyp[3]
  <2>1. f = <<f, V, 0>>[1] /\ V = <<f, V, 0>>[2] /\ 0 = <<f, V, 0>>[3]
    OBVIOUS
  <2> QED
    BY <2>1
<1>7. GrownOr(hyp, 0, first)
  BY <1>4, <1>6 DEF GrownOr
<1>8. ASSUME NEW i \in 1 .. Len(seq), NEW acc, GrownOr(hyp, i - 1, acc)
      PROVE  GrownOr(hyp, i, OrStep(env, acc, seq[i]))
  <2>1. PICK u, v : u = (IF i = 1 THEN g ELSE StartBlock(acc.body)) /\ v = LowerAnd(u, s, e, shape[i])
    OBVIOUS
  <2>2. Grown(f, acc.body, V)
    BY <1>6, <1>8 DEF GrownOr
  <2>3. Grown(f, u, V)
    BY <2>1, <2>2, GrownStart
  <2>4. shape[i] \in Nat \ {0} /\ seq[i] = i
    BY <1>2
  <2>5. Grown(f, v, V)
    BY <2>1, <2>3, <2>4, GrownAnd
  <2>6. OrStep(env, acc, seq[i]).body = v
    BY <1>3, <2>1, <2>4 DEF OrStep, Evaluated
  <2> QED
    BY <1>6, <2>5, <2>6 DEF GrownOr
<1>9. GrownOr(hyp, Len(seq), OrsGrow!Run(env, first, seq))
  BY <1>2, <1>7, <1>8, OrsGrow!RunRule
<1> QED
  BY <1>5, <1>6, <1>9 DEF GrownOr

\* A condition of any shape.
LEMMA GrownCondition ==
  ASSUME NEW f, Body(f), NEW V, NEW g, Grown(f, g, V), Body(g), g.cur \in Open(g),
         NEW s, NEW e, ReadsIn(s, e, V), NEW shape \in Seq(Nat \ {0}), shape # << >>,
         NEW r, r = LowerOr(g, s, e, shape)
  PROVE  Grown(f, r, V)
<1>1. CASE Len(shape) = 1
  <2>1. shape[1] \in Nat \ {0}
    BY <1>1
  <2> QED
    BY <1>1, <2>1, GrownAnd DEF LowerOr
<1>2. CASE Len(shape) # 1
  <2>1. PICK all, h, start, end : /\ all = OrOperands(g, s, e, shape)
                                  /\ h = all.body /\ start = all.start /\ end = all.end
    OBVIOUS
  <2>2. Grown(f, h, V)
    BY <2>1, GrownOrOperands
  <2>3. Operands(g, h, start, end)
    BY <2>1, OrOperandsKnown
  <2>4. /\ LastBlock(g) \in Nat \ {0} /\ LastBlock(h) \in Nat
        /\ Blocks(h) = 1 .. LastBlock(h) /\ Len(end) \in Nat \ {0}
        /\ \A j \in 1 .. Len(end) : end[j] \in 1 .. LastBlock(h) /\ (end[j] = g.cur \/ end[j] > LastBlock(g))
        /\ \A k \in 2 .. Len(end) : start[k] \in LastBlock(g) + 1 .. LastBlock(h)
    BY <2>3, OperandFacts
  <2>5. /\ LastBlock(f) \in Nat /\ Blocks(f) = 1 .. LastBlock(f)
        /\ LastBlock(f) <= LastBlock(g) /\ Ahead(f, g.cur)
    BY GrownFacts
  <2>6. \A j \in 1 .. Len(end) : end[j] \in Blocks(h) /\ Ahead(f, end[j])
    <3>1. \A j \in 1 .. Len(end) : end[j] \in Nat
      BY <2>4
    <3>2. \A j \in 1 .. Len(end) : end[j] > LastBlock(g) => end[j] > LastBlock(f)
      BY <2>4, <2>5, <3>1
    <3> QED
      BY <2>4, <2>5, <3>2 DEF Ahead
  <2>7. \A j \in 1 .. Len(end) : j > 1 => start[j] \in Blocks(h) \ Blocks(f)
    <3>1. \A j \in 1 .. Len(end) : j > 1 => j \in 2 .. Len(end)
      BY <2>4
    <3>2. \A x \in LastBlock(g) + 1 .. LastBlock(h) : x \in Blocks(h) \ Blocks(f)
      BY <2>4, <2>5
    <3> QED
      BY <2>4, <3>1, <3>2
  <2>8. Placed(f, h, start, end)
    BY <2>4, <2>6, <2>7 DEF Placed
  <2>9. r = JoinOr(all, LastBlock(all.body) + 1)
    BY <1>2, <2>1 DEF LowerOr
  <2> QED
    BY <2>1, <2>2, <2>8, <2>9, GrownJoinOr
<1> QED
  BY <1>1, <1>2

-----------------------------------------------------------------------------
(***************************************************************************)
(* Assigned.  A holds pairs <<a, b>>: on every path to block b variable a  *)
(* has been stored before b starts.  Such a set is a witness: it is right  *)
(* when each predecessor of b has a in it too, or stores it, and the entry *)
(* block has none; and then every load comes after a store when its        *)
(* variable is in the set, or is stored before it in its block.            *)
(***************************************************************************)
Stored(f, b, a) == \E j \in DOMAIN f.code[b] : f.code[b][j].op = "store" /\ f.code[b][j].var = a

\* variable a has been stored when block b ends
Ready(f, A, a, b) == <<a, b>> \in A \/ Stored(f, b, a)

\* variable a has been stored when place k of block b is reached
ReadyAt(f, A, a, b, k) ==
  \/ <<a, b>> \in A
  \/ \E j \in DOMAIN f.code[b] : j < k /\ f.code[b][j].op = "store" /\ f.code[b][j].var = a

Assigned(f, A) ==
  /\ \A a, b : <<a, b>> \in A => /\ b \in Blocks(f) \ {Entry}
                                 /\ \A p \in ToSet(f.pre[b]) : Ready(f, A, a, p)
  /\ \A b \in Blocks(f) : \A k \in DOMAIN f.code[b] :
       f.code[b][k].op = "load" => ReadyAt(f, A, f.code[b][k].var, b, k)

\* the code of block b has perhaps got longer
Longer(f, g, b) ==
  \A k \in DOMAIN f.code[b] : k \in DOMAIN g.code[b] /\ g.code[b][k] = f.code[b][k]

\* What was stored stays stored when code is added at the end of blocks.
LEMMA ReadyStays ==
  ASSUME NEW f, NEW g, NEW A, NEW B, A \subseteq B, NEW b, Longer(f, g, b), NEW a
  PROVE  /\ Ready(f, A, a, b) => Ready(g, B, a, b)
         /\ \A k : ReadyAt(f, A, a, b, k) => ReadyAt(g, B, a, b, k)
BY DEF Ready, ReadyAt, Stored, Longer

\* the witness once V has been stored before the new blocks of g
Widened(f, g, A, V) == A \cup (V \X (Blocks(g) \ Blocks(f)))

\* What grows from a body at which V has been stored finds V stored.
LEMMA AssignedGrown ==
  ASSUME NEW f, Body(f), NEW A, Assigned(f, A), NEW V, \A a \in V : Ready(f, A, a, f.cur),
         NEW g, Body(g), Grown(f, g, V), NEW B, B = Widened(f, g, A, V)
  PROVE  /\ Assigned(g, B) /\ \A a \in V : Ready(g, B, a, g.cur)
         /\ \A a : \A b \in Blocks(f) : /\ <<a, b>> \in B <=> <<a, b>> \in A
                                        /\ Ready(f, A, a, b) => Ready(g, B, a, b)
         /\ \A a : \A b \in Blocks(g) \ Blocks(f) : <<a, b>> \in B <=> a \in V
<1>1. /\ LastBlock(f) \in Nat /\ Blocks(f) = 1 .. LastBlock(f)
      /\ LastBlock(g) \in Nat /\ Blocks(g) = 1 .. LastBlock(g)
      /\ LastBlock(f) <= LastBlock(g) /\ Blocks(f) \subseteq Blocks(g)
      /\ g.cur \in Blocks(g) /\ Ahead(f, g.cur) /\ f.cur \in Blocks(f)
  BY GrownFacts, BlocksAre DEF Body
<1>2. \A a, b : <<a, b>> \in B <=> <<a, b>> \in A \/ (a \in V /\ b \in Blocks(g) \ Blocks(f))
  BY DEF Widened
<1>3. A \subseteq B
  BY DEF Widened
<1>4. \A a, b : <<a, b>> \in A => b \in Blocks(f) \ {Entry}
  BY DEF Assigned
<1>5. \A a : \A b \in Blocks(f) : <<a, b>> \in B <=> <<a, b>> \in A
  BY <1>2
<1>6. \A a : \A b \in Blocks(g) \ Blocks(f) : <<a, b>> \in B <=> a \in V
  BY <1>2, <1>4
<1>7. ASSUME NEW a, NEW b \in Blocks(f)
      PROVE  /\ Ready(f, A, a, b) => Ready(g, B, a, b)
             /\ \A k : ReadyAt(f, A, a, b, k) => ReadyAt(g, B, a, b, k)
  <2>1. Longer(f, g, b)
    BY DEF Grown, Longer
  <2> QED
    BY <1>3, <2>1, ReadyStays
<1>8. ASSUME NEW a \in V, NEW p \in Blocks(g), Ahead(f, p)
      PROVE  Ready(g, B, a, p)
  <2>1. CASE p = f.cur
    BY <1>1, <1>7, <2>1
  <2>2. CASE p > LastBlock(f)
    <3>1. p \in Blocks(g) \ Blocks(f)
      BY <1>1, <2>2
    <3> QED
      BY <1>6, <3>1 DEF Ready
  <2> QED
    BY <1>8, <2>1, <2>2 DEF Ahead
<1>9. \A b \in Blocks(g) : ToSet(g.pre[b]) \subseteq Blocks(g)
  BY DEF Body, Edges
<1>10. \A b \in Blocks(f) : ToSet(f.pre[b]) \subseteq Blocks(f) /\ g.pre[b] = f.pre[b]
  BY DEF Body, Edges, Grown
<1>11. ASSUME NEW a, NEW b, <<a, b>> \in B
       PROVE  b \in Blocks(g) \ {Entry} /\ \A p \in ToSet(g.pre[b]) : Ready(g, B, a, p)
  <2>1. CASE <<a, b>> \in A
    <3>1. b \in Blocks(f) \ {Entry} /\ \A p \in ToSet(f.pre[b]) : Ready(f, A, a, p)
      BY <2>1 DEF Assigned
    <3>2. \A p \in ToSet(g.pre[b]) : p \in Blocks(f) /\ Ready(f, A, a, p)
      BY <1>10, <3>1
    <3> QED
      BY <1>1, <1>7, <3>1, <3>2
  <2>2. CASE a \in V /\ b \in Blocks(g) \ Blocks(f)
    <3>1. \A p \in ToSet(g.pre[b]) : Ahead(f, p) /\ p \in Blocks(g)
      BY <1>9, <2>2 DEF Grown
    <3>2. b # Entry
      BY <1>1, <2>2 DEF Entry
    <3> QED
      BY <1>8, <2>2, <3>1, <3>2
  <2> QED
    BY <1>2, <1>11, <2>1, <2>2
<1>12. ASSUME NEW b \in Blocks(g), NEW k \in DOMAIN g.code[b], g.code[b][k].op = "load"
       PROVE  ReadyAt(g, B, g.code[b][k].var, b, k)
  <2>1. CASE b \in Blocks(f) /\ k \in DOMAIN f.code[b]
    <3>1. g.code[b][k] = f.code[b][k]
      BY <2>1 DEF Grown
    <3>2. ReadyAt(f, A, g.code[b][k].var, b, k)
      BY <1>12, <2>1, <3>1 DEF Assigned
    <3> QED
      BY <1>7, <2>1, <3>2
  <2>2. CASE Ahead(f, b) /\ g.code[b][k].var \in V /\ ~(b \in Blocks(f) /\ k \in DOMAIN f.code[b])
    <3>1. CASE b \in Blocks(f)
      <4>1. b = f.cur
        BY <1>1, <2>2, <3>1 DEF Ahead
      <4>2. Ready(f, A, g.code[b][k].var, b)
        BY <2>2, <4>1
      <4>3. /\ DOMAIN f.code[b] = 1 .. Len(f.code[b]) /\ Len(f.code[b]) \in Nat
            /\ DOMAIN g.code[b] = 1 .. Len(g.code[b]) /\ Len(g.code[b]) \in Nat
        BY <1>1, <3>1, CodeSeq DEF Body
      <4>4. k \in Nat /\ \A j \in DOMAIN f.code[b] : j < k
        BY <2>2, <3>1, <4>3
      <4>5. ReadyAt(f, A, g.code[b][k].var, b, k)
        BY <4>2, <4>4 DEF Ready, ReadyAt, Stored
      <4> QED
        BY <1>7, <3>1, <4>5
    <3>2. CASE b \notin Blocks(f)
      BY <1>6, <2>2, <3>2 DEF ReadyAt
    <3> QED
      BY <3>1, <3>2
  <2>3. \/ b \in Blocks(f) /\ k \in DOMAIN f.code[b]
        \/ Ahead(f, b) /\ g.code[b][k].var \in V
    BY <1>12 DEF Grown
  <2> QED
    BY <2>1, <2>2, <2>3
<1>13. Assigned(g, B)
  BY <1>11, <1>12 DEF Assigned
<1>14. \A a \in V : Ready(g, B, a, g.cur)
  BY <1>1, <1>8
<1> QED
  BY <1>5, <1>6, <1>7, <1>13, <1>14

\* A branch to a block already there finds stored what that block takes for stored.
LEMMA AssignedBr ==
  ASSUME NEW f, Body(f), NEW A, Assigned(f, A), NEW t \in Blocks(f),
         \A a : <<a, t>> \in A => Ready(f, A, a, f.cur), NEW g, g = Br(f, t)
  PROVE  Assigned(g, A) /\ \A a : \A b \in Blocks(f) : Ready(f, A, a, b) => Ready(g, A, a, b)
<1>1. PICK e : e = Emit(f, Branch)
  OBVIOUS
<1>2. Grown(f, e, {}) /\ e.cur = f.cur /\ LastBlock(e) = LastBlock(f)
  <2>1. Grown(f, f, {})
    BY GrownSelf
  <2>2. Branch.op # "load"
    BY DEF Branch
  <2> QED
    BY <1>1, <2>1, <2>2, GrownEmit
<1>3. /\ LastBlock(f) \in Nat /\ Blocks(f) = 1 .. LastBlock(f) /\ f.cur \in Blocks(f)
      /\ Listed(e) /\ Blocks(e) = Blocks(f)
  BY <1>2, GrownFacts
<1>4. /\ g.code = e.code /\ ToSet(g.pre[t]) = ToSet(e.pre[t]) \cup {f.cur}
      /\ \A c \in Blocks(f) : c # t => g.pre[c] = e.pre[c]
  <2>1. PICK b : b = f.cur
    OBVIOUS
  <2>2. g = AddEdge(e, b, t)
    BY <1>1, <2>1 DEF Br
  <2>3. Listed(e) /\ b \in Blocks(e) /\ t \in Blocks(e)
    BY <1>3, <2>1
  <2>4. g.code = e.code /\ ToSet(g.pre[t]) = ToSet(e.pre[t]) \cup {b}
    BY <2>2, <2>3, AddEdgeLists
  <2>5. \A c \in Blocks(e) : c # t => g.pre[c] = e.pre[c]
    BY <2>2, <2>3, AddEdgeLists
  <2> QED
    BY <1>3, <2>1, <2>4, <2>5
<1>5. Blocks(g) = Blocks(f)
  BY <1>3, <1>4 DEF Blocks
<1>7. \A b \in Blocks(f) : e.pre[b] = f.pre[b]
  BY <1>2 DEF Grown
<1>8. \A b \in Blocks(f) : b # t => g.pre[b] = f.pre[b]
  BY <1>4, <1>7
<1>9. ToSet(g.pre[t]) = ToSet(f.pre[t]) \cup {f.cur}
  BY <1>4, <1>7
<1>10. ASSUME NEW a, NEW b \in Blocks(f)
       PROVE  /\ Ready(f, A, a, b) => Ready(g, A, a, b)
              /\ \A k : ReadyAt(f, A, a, b, k) => ReadyAt(g, A, a, b, k)
  <2>1. Longer(f, g, b)
    BY <1>2, <1>4 DEF Grown, Longer
  <2>2. A \subseteq A
    OBVIOUS
  <2> QED
    BY <2>1, <2>2, ReadyStays
<1>11. \A b \in Blocks(f) : ToSet(f.pre[b]) \subseteq Blocks(f)
  BY DEF Body, Edges
<1>12. ASSUME NEW a, NEW b, <<a, b>> \in A
       PROVE  b \in Blocks(g) \ {Entry} /\ \A p \in ToSet(g.pre[b]) : Ready(g, A, a, p)
  <2>1. b \in Blocks(f) \ {Entry} /\ \A p \in ToSet(f.pre[b]) : Ready(f, A, a, p)
    BY <1>12 DEF Assigned
  <2>2. \A p \in ToSet(g.pre[b]) : p \in Blocks(f) /\ Ready(f, A, a, p)
    BY <1>3, <1>8, <1>9, <1>11, <1>12, <2>1
  <2> QED
    BY <1>5, <1>10, <2>1, <2>2
<1>13. ASSUME NEW b \in Blocks(g), NEW k \in DOMAIN g.code[b], g.code[b][k].op = "load"
       PROVE  ReadyAt(g, A, g.code[b][k].var, b, k)
  <2>1. k \in DOMAIN f.code[b] /\ g.code[b][k] = f.code[b][k] /\ b \in Blocks(f)
    BY <1>2, <1>3, <1>4, <1>5, <1>13 DEF Grown
  <2>2. ReadyAt(f, A, g.code[b][k].var, b, k)
    BY <1>13, <2>1 DEF Assigned
  <2> QED
    BY <1>10, <2>1, <2>2
<1>14. Assigned(g, A)
  BY <1>12, <1>13 DEF Assigned
<1> QED
  BY <1>10, <1>14

-----------------------------------------------------------------------------
(***************************************************************************)
(* The variables bound in the first n open scopes.                         *)
(***************************************************************************)
Bound(s, n) == UNION {{s[i][m] : m \in DOMAIN s[i]} : i \in 1 .. n}

LEMMA BoundIs ==
  ASSUME NEW s, NEW n, NEW a
  PROVE  a \in Bound(s, n) <=> \E i \in 1 .. n : \E m \in DOMAIN s[i] : a = s[i][m]
BY DEF Bound

\* Fewer scopes bind less, and the bindings depend on those scopes only.
LEMMA BoundMono ==
  ASSUME NEW s, NEW n \in Nat, NEW m \in 0 .. n
  PROVE  Bound(s, m) \subseteq Bound(s, n)
<1>1. 1 .. m \subseteq 1 .. n
  OBVIOUS
<1> QED
  BY <1>1, BoundIs

LEMMA BoundSame ==
  ASSUME NEW s, NEW u, NEW n \in Nat, \A i \in 1 .. n : u[i] = s[i]
  PROVE  \A k \in 0 .. n : Bound(u, k) = Bound(s, k)
<1> SUFFICES ASSUME NEW k \in 0 .. n, NEW a PROVE a \in Bound(u, k) <=> a \in Bound(s, k)
  OBVIOUS
<1>1. \A i \in 1 .. k : u[i] = s[i]
  OBVIOUS
<1>2. /\ a \in Bound(u, k) <=> \E i \in 1 .. k : \E m \in DOMAIN u[i] : a = u[i][m]
      /\ a \in Bound(s, k) <=> \E i \in 1 .. k : \E m \in DOMAIN s[i] : a = s[i][m]
  BY BoundIs
<1> QED
  BY <1>1, <1>2

\* A scope more, or less.
LEMMA EnterBound ==
  ASSUME NEW s, NEW n \in Nat, Scopes(s, n), NEW u, u = Enter(s)
  PROVE  /\ Scopes(u, n + 1) /\ Bound(u, n + 1) = Bound(s, n)
         /\ \A k \in 0 .. n : Bound(u, k) = Bound(s, k)
<1>1. PICK S : s \in Seq(S) /\ Len(s) = n
  BY DEF Scopes
<1>2. PICK none : none = NoBindings
  OBVIOUS
<1>3. u = Append(s, none)
  BY <1>2 DEF Enter
<1>4. (\A i \in 1 .. n : u[i] = s[i]) /\ u[n + 1] = none
  BY <1>1, <1>3, SeqAppend
<1>5. \A k \in 0 .. n : Bound(u, k) = Bound(s, k)
  BY <1>4, BoundSame
<1>6. DOMAIN none = {}
  BY <1>2 DEF NoBindings
<1>7. Bound(u, n + 1) = Bound(u, n)
  <2>1. \A i \in 1 .. n + 1 : i \in 1 .. n \/ i = n + 1
    OBVIOUS
  <2>2. 1 .. n \subseteq 1 .. n + 1
    OBVIOUS
  <2> SUFFICES ASSUME NEW a PROVE a \in Bound(u, n + 1) <=> a \in Bound(u, n)
    OBVIOUS
  <2>3. /\ a \in Bound(u, n + 1) <=> \E i \in 1 .. n + 1 : \E m \in DOMAIN u[i] : a = u[i][m]
        /\ a \in Bound(u, n) <=> \E i \in 1 .. n : \E m \in DOMAIN u[i] : a = u[i][m]
    BY BoundIs
  <2> QED
    BY <1>4, <1>6, <2>1, <2>2, <2>3
<1>8. n \in 0 .. n
  OBVIOUS
<1> QED
  BY <1>5, <1>7, <1>8, EnterExit

LEMMA ExitBound ==
  ASSUME NEW s, NEW n \in Nat, Scopes(s, n + 1), NEW u, u = Exit(s)
  PROVE  Scopes(u, n) /\ \A k \in 0 .. n : Bound(u, k) = Bound(s, k)
<1>1. PICK S : s \in Seq(S) /\ Len(s) = n + 1
  BY DEF Scopes
<1>2. s # << >> /\ u = Front(s)
  BY <1>1 DEF Exit
<1>3. \A i \in 1 .. n : u[i] = s[i]
  <2>1. \A i \in 1 .. Len(s) - 1 : u[i] = s[i]
    BY <1>1, <1>2, FrontFacts
  <2> QED
    BY <1>1, <2>1
<1>4. Scopes(u, n)
  <2>1. n + 1 \in Nat /\ n + 1 > 0 /\ (n + 1) - 1 = n
    OBVIOUS
  <2> QED
    BY <2>1, EnterExit
<1> QED
  BY <1>3, <1>4, BoundSame

\* A name more.
LEMMA PushBound ==
  ASSUME NEW s, NEW n \in Nat \ {0}, Scopes(s, n), NEW m, NEW a, NEW u, u = Push(s, m, a)
  PROVE  /\ Scopes(u, n) /\ Bound(u, n) \subseteq Bound(s, n) \cup {a}
         /\ \A k \in 0 .. n - 1 : Bound(u, k) = Bound(s, k)
<1>1. PICK S : s \in Seq(S) /\ Len(s) = n
  BY DEF Scopes
<1>2. PICK top : top = [x \in DOMAIN s[n] \cup {m} |-> IF x \in DOMAIN s[n] THEN s[n][x] ELSE a]
  OBVIOUS
<1>3. u = [s EXCEPT ![n] = top]
  BY <1>1, <1>2 DEF Push
<1>4. DOMAIN s = 1 .. n /\ n - 1 \in Nat /\ n \in 1 .. n
  BY <1>1
<1>5. u[n] = top /\ \A i \in 1 .. n - 1 : u[i] = s[i]
  BY <1>3, <1>4
<1>6. \A k \in 0 .. n - 1 : Bound(u, k) = Bound(s, k)
  BY <1>4, <1>5, BoundSame
<1>7. \A x \in DOMAIN top : top[x] = a \/ (x \in DOMAIN s[n] /\ top[x] = s[n][x])
  BY <1>2
<1>8. \A i \in 1 .. n : i \in 1 .. n - 1 \/ i = n
  OBVIOUS
<1>9. Bound(u, n) \subseteq Bound(s, n) \cup {a}
  <2> SUFFICES ASSUME NEW b, b \in Bound(u, n), b # a PROVE b \in Bound(s, n)
    OBVIOUS
  <2>1. PICK i \in 1 .. n : \E x \in DOMAIN u[i] : b = u[i][x]
    BY BoundIs
  <2>2. \E x \in DOMAIN s[i] : b = s[i][x]
    BY <1>5, <1>7, <1>8, <2>1
  <2> QED
    BY <2>2, BoundIs
<1> QED
  BY <1>6, <1>9, PushKeeps

\* A nonempty set of numbers up to n has a largest one.
LEMMA MaxIs ==
  ASSUME NEW n \in Nat, NEW T \in SUBSET (1 .. n), T # {}
  PROVE  Max(T) \in T
<1> DEFINE D == {n - x : x \in T}
<1>1. D \in SUBSET Nat /\ D # {}
  <2>1. \A x \in T : n - x \in Nat
    OBVIOUS
  <2> QED
    BY <2>1
<1>2. \E y \in D : \A z \in D : y <= z
  <2> HIDE DEF D
  <2> QED
    BY <1>1, Ands!LeastNat
<1>3. PICK x \in T : \A y \in T : n - x <= n - y
  BY <1>2
<1>4. \A y \in T : x >= y
  <2>1. \A y \in T : y \in Nat /\ y <= n
    OBVIOUS
  <2> QED
    BY <1>3, <2>1
<1> QED
  BY <1>4 DEF Max

\* find() returns a variable of an open scope.
LEMMA FindBound ==
  ASSUME NEW s, NEW n \in Nat, Scopes(s, n), NEW x \in Visible(s)
  PROVE  Find(s, x) \in Bound(s, n)
<1>1. DOMAIN s = 1 .. n
  BY DEF Scopes
<1>2. PICK T : T = {i \in DOMAIN s : x \in DOMAIN s[i]}
  OBVIOUS
<1>3. T \in SUBSET (1 .. n) /\ T # {}
  BY <1>1, <1>2 DEF Visible
<1>4. PICK i : i = Max(T)
  OBVIOUS
<1>5. i \in 1 .. n /\ x \in DOMAIN s[i]
  BY <1>2, <1>3, <1>4, MaxIs
<1>6. Find(s, x) = s[i][x]
  BY <1>2, <1>4 DEF Find
<1> QED
  BY <1>5, <1>6, BoundIs

LEMMA ExprsRead ==
  ASSUME NEW s, NEW n \in Nat, Scopes(s, n), NEW e \in Exprs(s)
  PROVE  ReadsIn(s, e, Bound(s, n))
BY FindBound DEF Exprs, ReadsIn

-----------------------------------------------------------------------------
(***************************************************************************)
(* The pending visits.  The blocks a visit will still branch to start with *)
(* exactly the variables stored that were bound when the visit began:      *)
(* those bound since may not be stored on the other ways into the block.   *)
(***************************************************************************)
Exits(fr) == Targets(fr) \cup (IF fr.kind = "loop" THEN {fr.head} ELSE {})

\* the scopes open while the first n visits are pending
Opened(fs, n) == 3 + Pending(fs, n, {"block"}) + 2 * Pending(fs, n, {"then", "else", "loop"})

ExitsOK(A, fs, s) ==
  \A i \in 1 .. Len(fs) : \A t \in Exits(fs[i]) : \A a : <<a, t>> \in A <=> a \in Bound(s, Opened(fs, i - 1))

\* A visit with exits opened two scopes.
LEMMA OpenedFacts ==
  ASSUME NEW fs \in Seq(Frame)
  PROVE  /\ \A n \in 0 .. Len(fs) : Opened(fs, n) \in Nat /\ Opened(fs, n) > 2
         /\ Depth(fs) = Opened(fs, Len(fs))
         /\ \A i \in 1 .. Len(fs) : Exits(fs[i]) # {} => Opened(fs, i - 1) + 2 <= Depth(fs)
<1>1. Len(fs) \in Nat
  OBVIOUS
<1>2. \A n \in 0 .. Len(fs) : Opened(fs, n) \in Nat /\ Opened(fs, n) > 2
  <2> TAKE n \in 0 .. Len(fs)
  <2>1. n \in Nat
    BY <1>1
  <2>2. Pending(fs, n, {"block"}) \in Nat /\ Pending(fs, n, {"then", "else", "loop"}) \in Nat
    BY <2>1, PendingNat
  <2> QED
    BY <2>2 DEF Opened
<1>3. Depth(fs) = Opened(fs, Len(fs))
  BY DEF Depth, Opened
<1>4. ASSUME NEW i \in 1 .. Len(fs), Exits(fs[i]) # {}
      PROVE  Opened(fs, i - 1) + 2 <= Depth(fs)
  <2>1. fs[i].kind \in {"then", "else", "loop"}
    BY <1>4 DEF Exits, Targets
  <2>2. PICK K, n : K = {"then", "else", "loop"} /\ n = Len(fs)
    OBVIOUS
  <2>3. i - 1 \in Nat /\ i = (i - 1) + 1 /\ i - 1 \in 0 .. n /\ i \in 0 .. n /\ n \in Nat
    BY <1>1, <2>2
  <2>4. Pending(fs, i, K) = Pending(fs, i - 1, K) + 1
    BY <2>1, <2>2, <2>3, PendingStep
  <2>5. Pending(fs, i, K) <= Pending(fs, n, K)
    BY <2>3, PendingMono
  <2>6. Pending(fs, i - 1, {"block"}) <= Pending(fs, n, {"block"})
    BY <2>3, PendingMono
  <2>7. /\ Pending(fs, i - 1, K) \in Nat /\ Pending(fs, i, K) \in Nat /\ Pending(fs, n, K) \in Nat
        /\ Pending(fs, i - 1, {"block"}) \in Nat /\ Pending(fs, n, {"block"}) \in Nat
    <3>1. \A k \in Nat : Pending(fs, k, K) \in Nat /\ Pending(fs, k, {"block"}) \in Nat
      BY PendingNat
    <3>2. i \in Nat
      BY <1>1
    <3> QED
      BY <2>3, <3>1, <3>2
  <2>8. /\ Opened(fs, i - 1) = 3 + Pending(fs, i - 1, {"block"}) + 2 * Pending(fs, i - 1, K)
        /\ Depth(fs) = 3 + Pending(fs, n, {"block"}) + 2 * Pending(fs, n, K)
    BY <2>2 DEF Depth, Opened
  <2> QED
    BY <2>4, <2>5, <2>6, <2>7, <2>8
<1> QED
  BY <1>2, <1>3, <1>4

\* The exits are blocks of the body.
LEMMA ExitsAre ==
  ASSUME NEW f, Body(f), NEW fr, FrameOK(f, fr)
  PROVE  Exits(fr) \subseteq Blocks(f)
BY DEF FrameOK, Exits, Open

\* What keeps the pairs of the blocks there were, and the scopes but the last, keeps the exits.
LEMMA ExitsStay ==
  ASSUME NEW f, Body(f), NEW fs, FramesOK(f, fs), NEW A, NEW s, ExitsOK(A, fs, s),
         NEW B, \A a : \A b \in Blocks(f) : <<a, b>> \in B <=> <<a, b>> \in A,
         NEW u, \A k \in 0 .. Depth(fs) - 1 : Bound(u, k) = Bound(s, k)
  PROVE  ExitsOK(B, fs, u)
<1> SUFFICES ASSUME NEW i \in 1 .. Len(fs), NEW t \in Exits(fs[i]), NEW a
             PROVE  <<a, t>> \in B <=> a \in Bound(u, Opened(fs, i - 1))
  BY DEF ExitsOK
<1>1. t \in Blocks(f)
  BY ExitsAre DEF FramesOK
<1>2. fs \in Seq(Frame) /\ i - 1 \in 0 .. Len(fs)
  BY DEF FramesOK
<1>3. PICK m, d : m = Opened(fs, i - 1) /\ d = Depth(fs)
  OBVIOUS
<1>4. m \in Nat /\ d \in Nat /\ m + 2 <= d
  <2>1. Opened(fs, i - 1) \in Nat /\ Opened(fs, Len(fs)) \in Nat
    BY <1>2, OpenedFacts
  <2> QED
    BY <1>2, <1>3, <2>1, OpenedFacts
<1>5. Bound(u, m) = Bound(s, m)
  BY <1>3, <1>4
<1>6. <<a, t>> \in A <=> a \in Bound(s, m)
  BY <1>3 DEF ExitsOK
<1> QED
  BY <1>1, <1>3, <1>5, <1>6

\* A visit more.
LEMMA ExitsPush ==
  ASSUME NEW fs \in Seq(Frame), NEW A, NEW s, ExitsOK(A, fs, s), NEW fr \in Frame,
         \A t \in Exits(fr) : \A a : <<a, t>> \in A <=> a \in Bound(s, Depth(fs)),
         NEW gs, gs = Append(fs, fr)
  PROVE  ExitsOK(A, gs, s)
<1>1. /\ Len(gs) = Len(fs) + 1 /\ Len(fs) \in Nat /\ gs[Len(fs) + 1] = fr
      /\ \A i \in 1 .. Len(fs) : gs[i] = fs[i]
  OBVIOUS
<1>2. \A n \in 0 .. Len(fs) : Opened(gs, n) = Opened(fs, n)
  <2> TAKE n \in 0 .. Len(fs)
  <2>1. n \in Nat /\ \A i \in 1 .. n : gs[i] = fs[i]
    BY <1>1
  <2>2. \A K : Pending(gs, n, K) = Pending(fs, n, K)
    BY <2>1, PendingSame
  <2> QED
    BY <2>2 DEF Opened
<1>3. Opened(gs, Len(fs)) = Depth(fs)
  <2>1. Len(fs) \in 0 .. Len(fs)
    BY <1>1
  <2> QED
    BY <1>2, <2>1, OpenedFacts
<1> SUFFICES ASSUME NEW i \in 1 .. Len(gs), NEW t \in Exits(gs[i]), NEW a
             PROVE  <<a, t>> \in A <=> a \in Bound(s, Opened(gs, i - 1))
  BY DEF ExitsOK
<1>4. CASE i \in 1 .. Len(fs)
  <2>1. i - 1 \in 0 .. Len(fs) /\ gs[i] = fs[i]
    BY <1>1, <1>4
  <2>2. Opened(gs, i - 1) = Opened(fs, i - 1)
    BY <1>2, <2>1
  <2> QED
    BY <1>4, <2>1, <2>2 DEF ExitsOK
<1>5. CASE i = Len(fs) + 1
  <2>1. gs[i] = fr /\ i - 1 = Len(fs)
    BY <1>1, <1>5
  <2>2. Opened(gs, i - 1) = Depth(fs)
    BY <1>3, <2>1
  <2> QED
    BY <2>1, <2>2
<1> QED
  BY <1>1, <1>4, <1>5

\* A visit less.
LEMMA ExitsPop ==
  ASSUME NEW fs \in Seq(Frame), fs # << >>, NEW A, NEW s, ExitsOK(A, fs, s),
         NEW gs, gs = Front(fs)
  PROVE  /\ ExitsOK(A, gs, s) /\ Opened(fs, Len(fs) - 1) = Depth(gs)
         /\ \A t \in Exits(Last(fs)) : \A a : <<a, t>> \in A <=> a \in Bound(s, Depth(gs))
<1>1. /\ gs \in Seq(Frame) /\ Len(gs) = Len(fs) - 1 /\ Last(fs) = fs[Len(fs)]
      /\ \A i \in 1 .. Len(fs) - 1 : gs[i] = fs[i]
  BY CountPop
<1>2. Len(fs) \in Nat /\ Len(fs) > 0
  OBVIOUS
<1>3. \A n \in 0 .. Len(gs) : Opened(gs, n) = Opened(fs, n)
  <2> TAKE n \in 0 .. Len(gs)
  <2>1. n \in Nat /\ \A i \in 1 .. n : gs[i] = fs[i]
    BY <1>1, <1>2
  <2>2. \A K : Pending(gs, n, K) = Pending(fs, n, K)
    BY <2>1, PendingSame
  <2> QED
    BY <2>2 DEF Opened
<1>4. Opened(fs, Len(fs) - 1) = Depth(gs)
  <2>1. Len(gs) \in 0 .. Len(gs) /\ Len(gs) = Len(fs) - 1
    BY <1>1, <1>2
  <2>2. Depth(gs) = Opened(gs, Len(gs))
    BY <1>1, OpenedFacts
  <2> QED
    BY <1>3, <2>1, <2>2
<1>5. \A t \in Exits(Last(fs)) : \A a : <<a, t>> \in A <=> a \in Bound(s, Depth(gs))
  <2>1. Len(fs) \in 1 .. Len(fs)
    BY <1>2
  <2> QED
    BY <1>1, <1>4, <2>1 DEF ExitsOK
<1>6. ExitsOK(A, gs, s)
  <2> SUFFICES ASSUME NEW i \in 1 .. Len(gs), NEW t \in Exits(gs[i]), NEW a
               PROVE  <<a, t>> \in A <=> a \in Bound(s, Opened(gs, i - 1))
    BY DEF ExitsOK
  <2>1. i \in 1 .. Len(fs) /\ i - 1 \in 0 .. Len(gs) /\ gs[i] = fs[i]
    BY <1>1, <1>2
  <2>2. Opened(gs, i - 1) = Opened(fs, i - 1)
    BY <1>3, <2>1
  <2> QED
    BY <2>1, <2>2 DEF ExitsOK
<1> QED
  BY <1>4, <1>5, <1>6

\* The exits depend on the scopes open when the last visit began.
LEMMA ExitsSame ==
  ASSUME NEW fs \in Seq(Frame), NEW A, NEW s, ExitsOK(A, fs, s),
         NEW u, \A k \in 0 .. Depth(fs) : Bound(u, k) = Bound(s, k)
  PROVE  ExitsOK(A, fs, u)
<1> SUFFICES ASSUME NEW i \in 1 .. Len(fs), NEW t \in Exits(fs[i]), NEW a
             PROVE  <<a, t>> \in A <=> a \in Bound(u, Opened(fs, i - 1))
  BY DEF ExitsOK
<1>1. i - 1 \in 0 .. Len(fs) /\ Len(fs) \in 0 .. Len(fs)
  OBVIOUS
<1>2. PICK m, d : m = Opened(fs, i - 1) /\ d = Depth(fs)
  OBVIOUS
<1>3. m \in Nat /\ d \in Nat /\ m + 2 <= d
  <2>1. Opened(fs, i - 1) \in Nat /\ Opened(fs, Len(fs)) \in Nat
    BY <1>1, OpenedFacts
  <2> QED
    BY <1>2, <2>1, OpenedFacts
<1>4. Bound(u, m) = Bound(s, m)
  BY <1>2, <1>3
<1>5. <<a, t>> \in A <=> a \in Bound(s, m)
  BY <1>2 DEF ExitsOK
<1> QED
  BY <1>2, <1>4, <1>5

-----------------------------------------------------------------------------
(***************************************************************************)
(* The invariant: A is a witness, all variables in scope have been stored  *)
(* when the insert block ends, and the exits start with what was bound.    *)
(***************************************************************************)
SafeAt(f, A, fs, s) ==
  /\ Assigned(f, A)
  /\ \A a \in Bound(s, Len(s)) : Ready(f, A, a, f.cur)
  /\ ExitsOK(A, fs, s)

SafeInv == \E A : SafeAt(ir, A, frames, scope)

\* A statement that leads to new blocks only.
LEMMA SafeGrows ==
  ASSUME NEW f, Body(f), NEW fs, FramesOK(f, fs), NEW A, NEW s, SafeAt(f, A, fs, s),
         Scopes(s, Depth(fs)), NEW V, V = Bound(s, Depth(fs)),
         NEW g, Body(g), Grown(f, g, V), NEW B, B = Widened(f, g, A, V)
  PROVE  /\ Assigned(g, B) /\ \A a \in V : Ready(g, B, a, g.cur)
         /\ \A a : \A b \in Blocks(f) : <<a, b>> \in B <=> <<a, b>> \in A
         /\ \A b \in Blocks(g) \ Blocks(f) : \A a : <<a, b>> \in B <=> a \in V
         /\ ExitsOK(B, fs, s)
<1>1. Assigned(f, A) /\ ExitsOK(A, fs, s) /\ \A a \in V : Ready(f, A, a, f.cur)
  BY DEF SafeAt, Scopes
<1>2. Assigned(g, B) /\ \A a \in V : Ready(g, B, a, g.cur)
  BY <1>1, AssignedGrown
<1>3. /\ \A a : \A b \in Blocks(f) : <<a, b>> \in B <=> <<a, b>> \in A
      /\ \A a : \A b \in Blocks(g) \ Blocks(f) : <<a, b>> \in B <=> a \in V
  BY <1>1, AssignedGrown
<1>4. ExitsOK(B, fs, s)
  BY <1>1, <1>3, ExitsStay
<1> QED
  BY <1>2, <1>3, <1>4

\* Loads and stores.
LEMMA GrownLoad ==
  ASSUME NEW f, Body(f), NEW V, NEW g, Grown(f, g, V), NEW a \in V, NEW h, h = EmitLoad(g, a)
  PROVE  Grown(f, h, V)
<1>1. PICK i, w : i = Load(g.ids + 1, a) /\ w = Emit(g, i)
  OBVIOUS
<1>2. i.var \in V
  BY <1>1 DEF Load
<1>3. Grown(f, w, V)
  BY <1>1, <1>2, GrownEmit
<1>4. h = [w EXCEPT !.ids = @ + 1]
  BY <1>1 DEF EmitLoad
<1> QED
  BY <1>3, <1>4, GrownNumber

LEMMA GrownStore ==
  ASSUME NEW f, Body(f), NEW V, NEW g, Grown(f, g, V), NEW a, NEW v, NEW h, h = EmitStore(g, a, v)
  PROVE  Grown(f, h, V)
<1>1. PICK i, w : i = Store(g.ids + 1, a, v) /\ w = Emit(g, i)
  OBVIOUS
<1>2. i.op # "load"
  BY <1>1 DEF Store
<1>3. Grown(f, w, V)
  BY <1>1, <1>2, GrownEmit
<1>4. h = [w EXCEPT !.ids = @ + 1]
  BY <1>1 DEF EmitStore
<1> QED
  BY <1>3, <1>4, GrownNumber

\* A store stores, and what was stored stays stored.
LEMMA StoreStored ==
  ASSUME NEW f, Body(f), f.cur \in Open(f), NEW a, NEW v, NEW g, g = EmitStore(f, a, v)
  PROVE  /\ Stored(g, f.cur, a) /\ \A c : Stored(f, f.cur, c) => Stored(g, f.cur, c)
         /\ g.cur = f.cur /\ Blocks(g) = Blocks(f)
         /\ \A b \in Blocks(f) : \A k \in DOMAIN g.code[b] :
              g.code[b][k].op = "load" => k \in DOMAIN f.code[b] /\ f.code[b][k].op = "load"
<1>1. PICK i, w : i = Store(f.ids + 1, a, v) /\ w = Emit(f, i)
  OBVIOUS
<1>2. i.op = "store" /\ i.var = a
  BY <1>1 DEF Store
<1>3. Shape(f) /\ f.cur \in Blocks(f)
  BY DEF Body, Open
<1>4. Shape(w) /\ w.cur = f.cur /\ Blocks(w) = Blocks(f) /\ w.code = [f.code EXCEPT ![f.cur] = Append(@, i)]
  BY <1>1, <1>3, EmitIs
<1>5. g.code = w.code /\ g.cur = w.cur
  <2>1. PICK S : w \in Bodies(S)
    BY <1>4 DEF Shape
  <2>2. g = [w EXCEPT !.ids = @ + 1]
    BY <1>1 DEF EmitStore
  <2> QED
    BY <2>1, <2>2 DEF Bodies
<1>6. PICK S : f.code[f.cur] \in Seq(S)
  BY <1>3, CodeSeq
<1>7. PICK n, c : n = Len(f.code[f.cur]) /\ c = Append(f.code[f.cur], i)
  OBVIOUS
<1>8. /\ n \in Nat /\ DOMAIN f.code[f.cur] = 1 .. n /\ DOMAIN c = 1 .. n + 1
      /\ c[n + 1] = i /\ \A k \in 1 .. n : c[k] = f.code[f.cur][k]
  <2>1. n \in Nat /\ DOMAIN f.code[f.cur] = 1 .. n
    BY <1>6, <1>7
  <2> QED
    BY <1>6, <1>7, <2>1, SeqAppend
<1>9. g.code[f.cur] = c /\ \A b \in Blocks(f) : b # f.cur => g.code[b] = f.code[b]
  BY <1>3, <1>4, <1>5, <1>7 DEF Blocks
<1>10. n + 1 \in 1 .. n + 1 /\ (\A k \in 1 .. n : k \in 1 .. n + 1)
       /\ \A k \in 1 .. n + 1 : k \in 1 .. n \/ k = n + 1
  BY <1>8
<1>11. Stored(g, f.cur, a)
  BY <1>2, <1>8, <1>9, <1>10 DEF Stored
<1>12. \A x : Stored(f, f.cur, x) => Stored(g, f.cur, x)
  BY <1>8, <1>9, <1>10 DEF Stored
<1>13. \A b \in Blocks(f) : \A k \in DOMAIN g.code[b] :
         g.code[b][k].op = "load" => k \in DOMAIN f.code[b] /\ f.code[b][k].op = "load"
  BY <1>2, <1>8, <1>9, <1>10
<1>14. Blocks(g) = Blocks(f)
  BY <1>4, <1>5 DEF Blocks
<1> QED
  BY <1>4, <1>5, <1>11, <1>12, <1>13, <1>14

\* The state in which a statement is visited.
LEMMA VisitingSafe ==
  ASSUME IInv, SafeInv, NEW n, VisitCounting(n)
  PROVE  /\ Body(ir) /\ ir.cur \in Open(ir) /\ FramesOK(ir, frames) /\ frames \in Seq(Frame)
         /\ Scopes(scope, Depth(frames)) /\ Depth(frames) \in Nat /\ Depth(frames) > 2
         /\ Len(scope) = Depth(frames)
         /\ \E A : SafeAt(ir, A, frames, scope)
<1>1. Scopes(scope, Depth(frames))
  BY Visiting
<1> QED
  BY <1>1, Visiting DEF Framed, SafeInv, Scopes

\* a statement that contains no statement, and no declaration
LEMMA SimpleSafe ==
  ASSUME IInv, SafeInv, NEW n, VisitCounting(n), Body(ir'),
         Grown(ir, ir', Bound(scope, Depth(frames))), UNCHANGED <<frames, scope>>
  PROVE  SafeInv'
<1>1. PICK A : SafeAt(ir, A, frames, scope)
  BY VisitingSafe
<1>2. PICK V, B : V = Bound(scope, Depth(frames)) /\ B = Widened(ir, ir', A, V)
  OBVIOUS
<1>3. Assigned(ir', B) /\ (\A a \in V : Ready(ir', B, a, ir'.cur)) /\ ExitsOK(B, frames, scope)
  BY <1>1, <1>2, VisitingSafe, SafeGrows
<1>4. Bound(scope, Len(scope)) = V
  BY <1>2, VisitingSafe
<1>5. SafeAt(ir', B, frames', scope')
  BY <1>3, <1>4 DEF SafeAt
<1> QED
  BY <1>5 DEF SafeInv

\* The variables an expression or an assignment names are in scope.
LEMMA NamesBound ==
  ASSUME IInv, NEW n, VisitCounting(n), NEW V, V = Bound(scope, Depth(frames))
  PROVE  /\ \A e \in Exprs(scope) : ReadsIn(scope, e, V)
         /\ \A m \in Visible(scope) : Find(scope, m) \in V
<1>1. Scopes(scope, Depth(frames)) /\ Depth(frames) \in Nat
  BY Visiting
<1> QED
  BY <1>1, ExprsRead, FindBound

LEMMA AssignSafe ==
  ASSUME IInv, SafeInv, NEW m \in Visible(scope), NEW e \in Exprs(scope), Assign(m, e), IInv'
  PROVE  SafeInv'
<1>0. VisitCounting(1)
  BY DEF Assign, VisitNext
<1>1. PICK g, h, V : /\ g = Eval(ir, scope, e) /\ h = EmitLoad(g, Find(scope, m))
                     /\ V = Bound(scope, Depth(frames))
  OBVIOUS
<1>2. PICK v : ir' = EmitStore(h, Find(scope, m), v)
  BY <1>1 DEF Assign
<1>3. ReadsIn(scope, e, V) /\ Find(scope, m) \in V
  BY <1>0, <1>1, NamesBound
<1>4. Body(ir) /\ Grown(ir, ir, V)
  BY <1>0, Visiting, GrownSelf
<1>5. Grown(ir, g, V)
  BY <1>1, <1>3, <1>4, GrownEval
<1>6. Grown(ir, h, V)
  BY <1>1, <1>3, <1>4, <1>5, GrownLoad
<1>7. Grown(ir, ir', V)
  BY <1>2, <1>4, <1>6, GrownStore
<1>8. UNCHANGED <<frames, scope>> /\ Body(ir')
  BY DEF Assign, IInv
<1> QED
  BY <1>0, <1>1, <1>7, <1>8, SimpleSafe

LEMMA ReturnSafe ==
  ASSUME IInv, SafeInv, NEW e \in Exprs(scope), Return(e), IInv'
  PROVE  SafeInv'
<1>0. VisitCounting(1)
  BY DEF Return, VisitNext
<1>1. PICK g, V : g = Eval(ir, scope, e) /\ V = Bound(scope, Depth(frames))
  OBVIOUS
<1>2. ir' = Emit(g, Ret) /\ UNCHANGED <<frames, scope>> /\ Body(ir')
  BY <1>1 DEF Return, IInv
<1>3. Body(ir) /\ Grown(ir, ir, V) /\ ReadsIn(scope, e, V)
  BY <1>0, <1>1, Visiting, GrownSelf, NamesBound
<1>4. Grown(ir, g, V)
  BY <1>1, <1>3, GrownEval
<1>5. Ret.op # "load"
  BY DEF Ret
<1>6. Grown(ir, ir', V)
  BY <1>2, <1>3, <1>4, <1>5, GrownEmit
<1> QED
  BY <1>0, <1>1, <1>2, <1>6, SimpleSafe

\* A declaration stores the new variable.
LEMMA DeclSafe ==
  ASSUME IInv, SafeInv, NEW m, NEW e \in Exprs(scope), Decl(m, e), IInv'
  PROVE  SafeInv'
<1>0. VisitCounting(1)
  BY DEF Decl, VisitNext
<1>1. PICK g, d, V, x : /\ g = Eval(ir, scope, e) /\ d = Depth(frames) /\ V = Bound(scope, d)
                        /\ x = allocas + 1
  OBVIOUS
<1>2. PICK v : ir' = EmitStore(g, x, v) /\ scope' = Push(scope, m, x) /\ frames' = frames /\ Body(ir')
  BY <1>1 DEF Decl, IInv
<1>3. /\ Body(ir) /\ ir.cur \in Open(ir) /\ FramesOK(ir, frames) /\ Scopes(scope, d)
      /\ d \in Nat \ {0} /\ Len(scope) = d
  BY <1>0, <1>1, VisitingSafe
<1>4. Body(g) /\ g.cur \in Open(g)
  <2>1. Body(g) /\ SameGraph(ir, g)
    BY <1>1, <1>3, EvalKeeps
  <2> QED
    BY <1>3, <2>1 DEF SameGraph
<1>5. Grown(ir, ir', V)
  <2>1. Grown(ir, ir, V) /\ ReadsIn(scope, e, V)
    BY <1>0, <1>1, <1>3, GrownSelf, NamesBound
  <2>2. Grown(ir, g, V)
    BY <1>1, <1>3, <2>1, GrownEval
  <2> QED
    BY <1>2, <1>3, <2>2, GrownStore
<1>6. Stored(ir', ir'.cur, x)
  BY <1>2, <1>4, StoreStored
<1>7. PICK A : SafeAt(ir, A, frames, scope)
  BY <1>0, VisitingSafe
<1>8. PICK B : B = Widened(ir, ir', A, V)
  OBVIOUS
<1>9. /\ Assigned(ir', B) /\ \A a \in V : Ready(ir', B, a, ir'.cur)
      /\ \A a : \A b \in Blocks(ir) : <<a, b>> \in B <=> <<a, b>> \in A
  BY <1>1, <1>2, <1>3, <1>5, <1>7, <1>8, SafeGrows
<1>10. /\ Scopes(scope', d) /\ Bound(scope', d) \subseteq V \cup {x}
       /\ \A k \in 0 .. d - 1 : Bound(scope', k) = Bound(scope, k)
  BY <1>1, <1>2, <1>3, PushBound
<1>11. \A a \in Bound(scope', Len(scope')) : Ready(ir', B, a, ir'.cur)
  BY <1>6, <1>9, <1>10 DEF Ready, Scopes
<1>12. ExitsOK(B, frames, scope')
  BY <1>1, <1>3, <1>7, <1>9, <1>10, ExitsStay DEF SafeAt
<1>13. SafeAt(ir', B, frames', scope')
  BY <1>2, <1>9, <1>11, <1>12 DEF SafeAt
<1> QED
  BY <1>13 DEF SafeInv

-----------------------------------------------------------------------------
\* a statement whose visit continues after its body: its exits are new blocks
LEMMA OpensSafe ==
  ASSUME IInv, SafeInv, NEW n, VisitCounting(n), NEW V, V = Bound(scope, Depth(frames)),
         Body(ir'), Grown(ir, ir', V), NEW fr \in Frame, frames' = Append(frames, fr),
         Exits(fr) \subseteq Blocks(ir') \ Blocks(ir),
         Bound(scope', Len(scope')) = V,
         \A k \in 0 .. Depth(frames) : Bound(scope', k) = Bound(scope, k)
  PROVE  SafeInv'
<1>1. PICK A : SafeAt(ir, A, frames, scope)
  BY VisitingSafe
<1>2. PICK B : B = Widened(ir, ir', A, V)
  OBVIOUS
<1>3. /\ Assigned(ir', B) /\ (\A a \in V : Ready(ir', B, a, ir'.cur)) /\ ExitsOK(B, frames, scope)
      /\ \A b \in Blocks(ir') \ Blocks(ir) : \A a : <<a, b>> \in B <=> a \in V
  BY <1>1, <1>2, VisitingSafe, SafeGrows
<1>4. frames \in Seq(Frame) /\ Depth(frames) \in Nat
  BY VisitingSafe
<1>5. PICK u : u = scope'
  OBVIOUS
<1>6. ExitsOK(B, frames, u)
  BY <1>3, <1>4, <1>5, ExitsSame
<1>7. Bound(u, Depth(frames)) = V
  BY <1>4, <1>5
<1>8. \A t \in Exits(fr) : \A a : <<a, t>> \in B <=> a \in Bound(u, Depth(frames))
  BY <1>3, <1>7
<1>9. ExitsOK(B, frames', u)
  BY <1>4, <1>6, <1>8, ExitsPush
<1>10. SafeAt(ir', B, frames', scope')
  BY <1>3, <1>5, <1>9 DEF SafeAt
<1> QED
  BY <1>10 DEF SafeInv

LEMMA BlockSafe ==
  ASSUME IInv, SafeInv, Block, IInv'
  PROVE  SafeInv'
<1>0. VisitCounting(1)
  BY DEF Block, VisitNext
<1>1. PICK fr, V, d : fr = [kind |-> "block"] /\ d = Depth(frames) /\ V = Bound(scope, d)
  OBVIOUS
<1>2. scope' = Enter(scope) /\ frames' = Append(frames, fr) /\ ir' = ir
  BY <1>1 DEF Block
<1>3. Body(ir) /\ Scopes(scope, d) /\ d \in Nat
  BY <1>0, <1>1, VisitingSafe
<1>4. fr \in Frame /\ Exits(fr) = {}
  BY <1>1 DEF Frame, Exits, Targets
<1>5. Grown(ir, ir', V)
  BY <1>2, <1>3, GrownSelf
<1>6. /\ Scopes(scope', d + 1) /\ Bound(scope', d + 1) = V
      /\ \A k \in 0 .. d : Bound(scope', k) = Bound(scope, k)
  BY <1>1, <1>2, <1>3, EnterBound
<1>7. Bound(scope', Len(scope')) = V
  BY <1>6 DEF Scopes
<1>8. Exits(fr) \subseteq Blocks(ir') \ Blocks(ir)
  BY <1>4
<1>9. Body(ir')
  BY <1>2, <1>3
<1> QED
  BY <1>0, <1>1, <1>2, <1>4, <1>5, <1>6, <1>7, <1>8, <1>9, OpensSafe

\* if and while open two scopes that bind nothing.
LEMMA TwoEntered ==
  ASSUME NEW s, NEW n \in Nat, Scopes(s, n), NEW u, u = Enter(Enter(s))
  PROVE  Bound(u, Len(u)) = Bound(s, n) /\ \A k \in 0 .. n : Bound(u, k) = Bound(s, k)
<1>1. PICK w : w = Enter(s)
  OBVIOUS
<1>2. /\ Scopes(w, n + 1) /\ Bound(w, n + 1) = Bound(s, n)
      /\ \A k \in 0 .. n : Bound(w, k) = Bound(s, k)
  BY <1>1, EnterBound
<1>3. /\ Scopes(u, (n + 1) + 1) /\ Bound(u, (n + 1) + 1) = Bound(w, n + 1)
      /\ \A k \in 0 .. n + 1 : Bound(u, k) = Bound(w, k)
  BY <1>1, <1>2, EnterBound
<1>4. \A k \in 0 .. n : k \in 0 .. n + 1
  OBVIOUS
<1> QED
  BY <1>2, <1>3, <1>4 DEF Scopes

\* The branch on a condition, to new blocks.
LEMMA GrownFork ==
  ASSUME NEW f, Body(f), NEW V, NEW h, Grown(f, h, V), NEW t \in Blocks(h) \ Blocks(f),
         NEW e \in Blocks(h) \ Blocks(f), NEW w, w = SetInsert(CondBr(h, t, e), t)
  PROVE  Grown(f, w, V) /\ Blocks(w) = Blocks(h)
<1>1. PICK u : u = CondBr(h, t, e)
  OBVIOUS
<1>2. Grown(f, u, V) /\ LastBlock(u) = LastBlock(h)
  BY <1>1, GrownCondBr
<1>3. Blocks(u) = Blocks(h)
  BY <1>2, GrownFacts
<1>4. Ahead(f, t)
  <2>1. t > LastBlock(f)
    BY GrownFacts
  <2> QED
    BY <2>1 DEF Ahead
<1>5. Grown(f, w, V) /\ LastBlock(w) = LastBlock(u)
  BY <1>1, <1>2, <1>3, <1>4, GrownInsert
<1>6. Blocks(w) = Blocks(u)
  BY <1>2, <1>5, GrownFacts
<1> QED
  BY <1>3, <1>5, <1>6

\* The blocks of an if or a while.
LEMMA GrownBlocks ==
  ASSUME NEW f, Body(f), NEW V, NEW g, Grown(f, g, V)
  PROVE  LET two == NewBlock(NewBlock(g))
             three == NewBlock(NewBlock(NewBlock(g)))
             n == LastBlock(g)
         IN  /\ Grown(f, two, V) /\ {n + 1, n + 2} \subseteq Blocks(two) \ Blocks(f)
             /\ Grown(f, three, V) /\ {n + 1, n + 2, n + 3} \subseteq Blocks(three) \ Blocks(f)
<1>1. PICK one, two, three, n : one = NewBlock(g) /\ two = NewBlock(one) /\ three = NewBlock(two)
                                /\ n = LastBlock(g)
  OBVIOUS
<1>2. Grown(f, one, V) /\ LastBlock(one) = n + 1
  BY <1>1, GrownBlock
<1>3. Grown(f, two, V) /\ LastBlock(two) = (n + 1) + 1
  BY <1>1, <1>2, GrownBlock
<1>4. Grown(f, three, V) /\ LastBlock(three) = ((n + 1) + 1) + 1
  BY <1>1, <1>3, GrownBlock
<1>5. /\ n \in Nat /\ LastBlock(f) \in Nat /\ LastBlock(f) <= n
      /\ Blocks(f) = 1 .. LastBlock(f) /\ Blocks(two) = 1 .. LastBlock(two)
      /\ Blocks(three) = 1 .. LastBlock(three)
  BY <1>1, <1>3, <1>4, GrownFacts
<1>6. /\ {n + 1, n + 2} \subseteq Blocks(two) \ Blocks(f)
      /\ {n + 1, n + 2, n + 3} \subseteq Blocks(three) \ Blocks(f)
  BY <1>3, <1>4, <1>5
<1> QED
  BY <1>1, <1>3, <1>4, <1>6

LEMMA IfSafe ==
  ASSUME IInv, SafeInv, NEW c \in Conds, NEW e \in Exprs(scope), NEW hasElse \in BOOLEAN,
         If(c, e, hasElse), IInv'
  PROVE  SafeInv'
<1>0. PICK n : VisitCounting(n)
  BY DEF If, VisitCond
<1>1. PICK g, trueBB, contBB :
        /\ g = LowerOr(ir, scope, e, c) /\ trueBB = LastBlock(g) + 1
        /\ contBB = IF hasElse THEN trueBB + 2 ELSE trueBB + 1
        /\ LET h == IF hasElse THEN NewBlock(NewBlock(NewBlock(g))) ELSE NewBlock(NewBlock(g))
           IN  /\ ir' = SetInsert(CondBr(h, trueBB, IF hasElse THEN trueBB + 1 ELSE contBB), trueBB)
               /\ frames' = Append(frames, [kind |-> "then", cont |-> contBB,
                                            else |-> IF hasElse THEN trueBB + 1 ELSE 0])
        /\ scope' = Enter(Enter(scope))
  BY DEF If
<1>2. PICK h, other, elseBB, fr :
        /\ h = IF hasElse THEN NewBlock(NewBlock(NewBlock(g))) ELSE NewBlock(NewBlock(g))
        /\ other = (IF hasElse THEN trueBB + 1 ELSE contBB)
        /\ elseBB = (IF hasElse THEN trueBB + 1 ELSE 0)
        /\ fr = [kind |-> "then", cont |-> contBB, else |-> elseBB]
  OBVIOUS
<1>3. ir' = SetInsert(CondBr(h, trueBB, other), trueBB) /\ frames' = Append(frames, fr)
  BY <1>1, <1>2
<1>4. PICK d, V : d = Depth(frames) /\ V = Bound(scope, d)
  OBVIOUS
<1>5. Body(ir) /\ ir.cur \in Open(ir) /\ Scopes(scope, d) /\ d \in Nat /\ ReadsIn(scope, e, V)
  BY <1>0, <1>4, VisitingSafe, NamesBound
<1>6. Grown(ir, g, V)
  <2>1. Grown(ir, ir, V)
    BY <1>5, GrownSelf
  <2> QED
    BY <1>1, <1>5, <2>1, CondShape, GrownCondition
<1>7. PICK m : m = LastBlock(g)
  OBVIOUS
<1>8. m \in Nat
  BY <1>5, <1>6, <1>7, GrownFacts
<1>9. /\ Grown(ir, h, V)
      /\ trueBB \in Blocks(h) \ Blocks(ir) /\ other \in Blocks(h) \ Blocks(ir)
      /\ contBB \in Blocks(h) \ Blocks(ir) /\ contBB \in Nat /\ elseBB \in Nat
      /\ elseBB # 0 => elseBB \in Blocks(h) \ Blocks(ir)
  <2>1. CASE hasElse
    <3>1. Grown(ir, h, V) /\ {m + 1, m + 2, m + 3} \subseteq Blocks(h) \ Blocks(ir)
      BY <1>2, <1>5, <1>6, <1>7, <2>1, GrownBlocks
    <3>2. trueBB = m + 1 /\ other = m + 2 /\ contBB = m + 3 /\ elseBB = m + 2
      BY <1>1, <1>2, <1>7, <1>8, <2>1
    <3> QED
      BY <1>8, <3>1, <3>2
  <2>2. CASE ~hasElse
    <3>1. Grown(ir, h, V) /\ {m + 1, m + 2} \subseteq Blocks(h) \ Blocks(ir)
      BY <1>2, <1>5, <1>6, <1>7, <2>2, GrownBlocks
    <3>2. trueBB = m + 1 /\ other = m + 2 /\ contBB = m + 2 /\ elseBB = 0
      BY <1>1, <1>2, <1>7, <1>8, <2>2
    <3> QED
      BY <1>8, <3>1, <3>2
  <2> QED
    BY <2>1, <2>2
<1>10. Grown(ir, ir', V) /\ Blocks(ir') = Blocks(h)
  BY <1>3, <1>5, <1>9, GrownFork
<1>11. fr \in Frame /\ Exits(fr) = {contBB} \cup (IF elseBB = 0 THEN {} ELSE {elseBB})
  BY <1>2, <1>9 DEF Frame, Exits, Targets
<1>12. Exits(fr) \subseteq Blocks(ir') \ Blocks(ir)
  BY <1>9, <1>10, <1>11
<1>13. Bound(scope', Len(scope')) = V /\ \A k \in 0 .. d : Bound(scope', k) = Bound(scope, k)
  BY <1>1, <1>4, <1>5, TwoEntered
<1>14. Body(ir')
  BY DEF IInv
<1> QED
  BY <1>0, <1>3, <1>4, <1>10, <1>11, <1>12, <1>13, <1>14, OpensSafe

\* The condition of a while starts in a block of its own.
LEMMA LoopHead ==
  ASSUME NEW f, Body(f), f.cur \in Open(f), NEW b, b = LastBlock(f) + 1,
         NEW g, g = SetInsert(Br(NewBlock(f), b), b)
  PROVE  Body(g) /\ g.cur \in Open(g)
<1>1. PICK u, v : u = NewBlock(f) /\ v = Br(u, b)
  OBVIOUS
<1>2. LastBlock(f) \in Nat /\ Blocks(f) = 1 .. LastBlock(f) /\ f.cur \in Blocks(f)
  BY BlocksAre DEF Body
<1>3. /\ Body(u) /\ u.cur = f.cur /\ Blocks(u) = Blocks(f) \cup {b} /\ b \notin Blocks(f)
      /\ u.succ[b] = << >> /\ Open(u) = Open(f) \cup {b} /\ Plain(u, b)
  BY <1>1, NewBlockKeeps
<1>4. MayBranch(u, u.cur, b)
  <2>1. u.cur \in Open(u) /\ b # u.cur /\ b # Entry
    BY <1>2, <1>3 DEF Entry
  <2>2. u.succ[u.cur] = << >>
    BY <1>3, <2>1, OpenEdges
  <2>3. ToSet(u.succ[u.cur]) = {} /\ ToSet(u.succ[b]) = {}
    BY <1>3, <2>2 DEF ToSet
  <2>4. Sep(u, b, u.cur)
    <3>1. {b} \in SUBSET Blocks(u) /\ u.cur \notin {b}
          /\ \A z \in {b} : ToSet(u.succ[z]) \subseteq {b}
      BY <1>3, <2>1, <2>3
    <3> QED
      BY <3>1 DEF Sep
  <2> QED
    BY <1>3, <2>1, <2>3, <2>4 DEF MayBranch
<1>5. Body(v) /\ Open(v) = Open(u) \ {u.cur} /\ Blocks(v) = Blocks(u)
  BY <1>1, <1>3, <1>4, BrAdvances
<1>6. Body(g) /\ g.cur = b /\ Open(g) = Open(v)
  BY <1>1, <1>3, <1>5, SetInsertKeeps
<1> QED
  BY <1>2, <1>3, <1>5, <1>6

LEMMA WhileSafe ==
  ASSUME IInv, SafeInv, NEW c \in Conds, NEW e \in Exprs(scope), While(c, e), IInv'
  PROVE  SafeInv'
<1>0. PICK n : VisitCounting(n)
  BY DEF While, VisitCond
<1>1. PICK exprBB, g, trueBB, contBB :
        /\ exprBB = LastBlock(ir) + 1
        /\ g = LowerOr(SetInsert(Br(NewBlock(ir), exprBB), exprBB), scope, e, c)
        /\ trueBB = LastBlock(g) + 1 /\ contBB = LastBlock(g) + 2
        /\ ir' = SetInsert(CondBr(NewBlock(NewBlock(g)), trueBB, contBB), trueBB)
        /\ frames' = Append(frames, [kind |-> "loop", head |-> exprBB, cont |-> contBB])
        /\ scope' = Enter(Enter(scope))
  BY DEF While
<1>2. PICK f1, f2, f, h, fr :
        /\ f1 = NewBlock(ir) /\ f2 = Br(f1, exprBB) /\ f = SetInsert(f2, exprBB)
        /\ h = NewBlock(NewBlock(g)) /\ fr = [kind |-> "loop", head |-> exprBB, cont |-> contBB]
  OBVIOUS
<1>3. PICK d, V : d = Depth(frames) /\ V = Bound(scope, d)
  OBVIOUS
<1>4. Body(ir) /\ ir.cur \in Open(ir) /\ Scopes(scope, d) /\ d \in Nat /\ ReadsIn(scope, e, V)
  BY <1>0, <1>3, VisitingSafe, NamesBound
<1>5. LastBlock(ir) \in Nat /\ Blocks(ir) = 1 .. LastBlock(ir)
  BY <1>4, BlocksAre DEF Body
<1>6. Grown(ir, f1, V) /\ LastBlock(f1) = exprBB
  <2>1. Grown(ir, ir, V)
    BY <1>4, GrownSelf
  <2> QED
    BY <1>1, <1>2, <1>4, <2>1, GrownBlock
<1>7. exprBB \in Blocks(f1) \ Blocks(ir)
  <2>1. Blocks(f1) = 1 .. LastBlock(f1)
    BY <1>4, <1>6, GrownFacts
  <2> QED
    BY <1>1, <1>5, <1>6, <2>1
<1>8. Grown(ir, f2, V) /\ LastBlock(f2) = exprBB
  BY <1>2, <1>4, <1>6, <1>7, GrownBr
<1>9. exprBB \in Blocks(f2) /\ Ahead(ir, exprBB)
  <2>1. Blocks(f2) = 1 .. LastBlock(f2)
    BY <1>4, <1>8, GrownFacts
  <2>2. exprBB > LastBlock(ir)
    BY <1>1, <1>5
  <2> QED
    BY <1>1, <1>5, <1>8, <2>1, <2>2 DEF Ahead
<1>10. Grown(ir, f, V) /\ Body(f) /\ f.cur \in Open(f)
  <2>1. Grown(ir, f, V)
    BY <1>2, <1>4, <1>8, <1>9, GrownInsert
  <2>2. Body(f) /\ f.cur \in Open(f)
    BY <1>1, <1>2, <1>4, LoopHead
  <2> QED
    BY <2>1, <2>2
<1>11. Grown(ir, g, V) /\ exprBB \in Blocks(g)
  <2>1. Grown(ir, g, V)
    BY <1>1, <1>2, <1>4, <1>10, CondShape, GrownCondition
  <2>2. LastBlock(f) <= LastBlock(g) /\ LastBlock(f) \in Nat /\ LastBlock(g) \in Nat /\ Blocks(g) = 1 .. LastBlock(g)
    <3>1. Lowered(f, g)
      BY <1>1, <1>2, <1>10, CondShape, LowerOrLowers
    <3> QED
      BY <1>4, <1>10, <2>1, <3>1, GrownFacts DEF Lowered, Within
  <2>3. LastBlock(f) = exprBB
    BY <1>2, <1>4, <1>8, <1>9, GrownInsert
  <2> QED
    BY <1>1, <1>5, <2>1, <2>2, <2>3
<1>12. PICK m : m = LastBlock(g)
  OBVIOUS
<1>13. m \in Nat /\ Grown(ir, h, V) /\ {m + 1, m + 2} \subseteq Blocks(h) \ Blocks(ir)
  <2>1. m \in Nat
    BY <1>4, <1>11, <1>12, GrownFacts
  <2> QED
    BY <1>2, <1>4, <1>11, <1>12, <2>1, GrownBlocks
<1>14. trueBB = m + 1 /\ contBB = m + 2
  BY <1>1, <1>12
<1>15. Grown(ir, ir', V) /\ Blocks(ir') = Blocks(h)
  <2>1. ir' = SetInsert(CondBr(h, trueBB, contBB), trueBB)
    BY <1>1, <1>2
  <2> QED
    BY <1>4, <1>13, <1>14, <2>1, GrownFork
<1>16. fr \in Frame /\ Exits(fr) = {contBB, exprBB}
  <2>1. contBB \in Nat /\ exprBB \in Nat
    BY <1>1, <1>5, <1>13, <1>14
  <2> QED
    BY <1>2, <2>1 DEF Frame, Exits, Targets
<1>17. Blocks(g) \subseteq Blocks(h)
  <2>1. LastBlock(h) = LastBlock(g) + 2
    <3>1. PICK one : one = NewBlock(g)
      OBVIOUS
    <3>2. Grown(ir, one, V) /\ LastBlock(one) = LastBlock(g) + 1
      BY <1>4, <1>11, <3>1, GrownBlock
    <3>3. LastBlock(h) = LastBlock(one) + 1
      BY <1>2, <1>4, <3>1, <3>2, GrownBlock
    <3> QED
      BY <1>12, <1>13, <3>2, <3>3
  <2>2. Blocks(g) = 1 .. LastBlock(g) /\ Blocks(h) = 1 .. LastBlock(h)
    BY <1>4, <1>11, <1>13, GrownFacts
  <2> QED
    BY <1>12, <1>13, <2>1, <2>2
<1>18. Exits(fr) \subseteq Blocks(ir') \ Blocks(ir)
  BY <1>7, <1>11, <1>13, <1>14, <1>15, <1>16, <1>17
<1>19. Bound(scope', Len(scope')) = V /\ \A k \in 0 .. d : Bound(scope', k) = Bound(scope, k)
  BY <1>1, <1>3, <1>4, TwoEntered
<1>20. Body(ir') /\ frames' = Append(frames, fr)
  BY <1>1, <1>2 DEF IInv
<1> QED
  BY <1>0, <1>3, <1>15, <1>16, <1>18, <1>19, <1>20, OpensSafe

-----------------------------------------------------------------------------
\* A branch to an exit of a pending visit finds stored what the exit starts with.
LEMMA ExitStored ==
  ASSUME NEW f, Body(f), NEW fs, FramesOK(f, fs), NEW A, NEW s, SafeAt(f, A, fs, s),
         Scopes(s, Depth(fs)), NEW i \in 1 .. Len(fs), NEW t \in Exits(fs[i]), NEW g, g = Br(f, t)
  PROVE  Assigned(g, A) /\ \A a : \A b \in Blocks(f) : Ready(f, A, a, b) => Ready(g, A, a, b)
<1>1. t \in Blocks(f)
  BY ExitsAre DEF FramesOK
<1>2. fs \in Seq(Frame) /\ i - 1 \in 0 .. Len(fs) /\ Len(fs) \in 0 .. Len(fs)
  BY DEF FramesOK
<1>3. PICK m, d : m = Opened(fs, i - 1) /\ d = Depth(fs)
  OBVIOUS
<1>4. m \in Nat /\ d \in Nat /\ m + 2 <= d
  <2>1. Opened(fs, i - 1) \in Nat /\ Opened(fs, Len(fs)) \in Nat
    BY <1>2, OpenedFacts
  <2> QED
    BY <1>2, <1>3, <2>1, OpenedFacts
<1>5. Bound(s, m) \subseteq Bound(s, d)
  BY <1>4, BoundMono
<1>6. \A a : <<a, t>> \in A => Ready(f, A, a, f.cur)
  <2>1. \A a : <<a, t>> \in A => a \in Bound(s, m)
    BY <1>3 DEF SafeAt, ExitsOK
  <2>2. \A a \in Bound(s, d) : Ready(f, A, a, f.cur)
    BY <1>3 DEF SafeAt, Scopes
  <2> QED
    BY <1>5, <2>1, <2>2
<1>7. Assigned(f, A)
  BY DEF SafeAt
<1> QED
  BY <1>1, <1>6, <1>7, AssignedBr

\* break and continue.
LEMMA LoopExitSafe ==
  ASSUME IInv, SafeInv, Break \/ Continue, IInv'
  PROVE  SafeInv'
<1>0. VisitCounting(1) /\ (breakBB # << >> \/ continueBB # << >>)
  BY DEF Break, Continue, VisitNext
<1>1. PICK i \in 1 .. Len(frames) :
        frames[i].kind = "loop" /\ Last(breakBB) = frames[i].cont /\ Last(continueBB) = frames[i].head
  BY <1>0, Visiting, LoopTop
<1>2. frames[i].cont \in Exits(frames[i]) /\ frames[i].head \in Exits(frames[i])
  BY <1>1 DEF Exits, Targets
<1>3. PICK t \in Exits(frames[i]) : ir' = Br(ir, t)
  BY <1>1, <1>2 DEF Break, Continue
<1>4. PICK A : SafeAt(ir, A, frames, scope)
  BY <1>0, VisitingSafe
<1>5. Body(ir) /\ FramesOK(ir, frames) /\ Scopes(scope, Depth(frames)) /\ ir.cur \in Blocks(ir)
  BY <1>0, VisitingSafe DEF Open
<1>6. Assigned(ir', A) /\ \A a : Ready(ir, A, a, ir.cur) => Ready(ir', A, a, ir.cur)
  BY <1>3, <1>4, <1>5, ExitStored
<1>7. ir'.cur = ir.cur
  <2>1. FrameOK(ir, frames[i]) /\ (t \in Targets(frames[i]) \/ (frames[i].kind = "loop" /\ t = frames[i].head))
    BY <1>5 DEF FramesOK, Exits
  <2>2. MayBranch(ir, ir.cur, t)
    BY <1>0, <2>1, Visiting, TargetsMayBranch
  <2> QED
    BY <1>0, <1>3, <2>2, Visiting, BrAdvances
<1>8. frames' = frames /\ scope' = scope
  BY DEF Break, Continue
<1>9. SafeAt(ir', A, frames', scope')
  BY <1>4, <1>6, <1>7, <1>8 DEF SafeAt
<1> QED
  BY <1>9 DEF SafeInv

\* The insert point is no part of the witness.
LEMMA AssignedMoves ==
  ASSUME NEW f, Listed(f), NEW A, Assigned(f, A), NEW b \in Blocks(f), NEW g, g = SetInsert(f, b)
  PROVE  /\ Assigned(g, A) /\ g.cur = b
         /\ \A a : \A c \in Blocks(f) : Ready(f, A, a, c) => Ready(g, A, a, c)
<1>1. g.pre = f.pre /\ g.code = f.code /\ g.cur = b
  BY SetInsertLists
<1>2. Blocks(g) = Blocks(f)
  BY <1>1 DEF Blocks
<1>3. Assigned(g, A)
  BY <1>1, <1>2 DEF Assigned, Ready, ReadyAt, Stored
<1>4. \A a : \A c \in Blocks(f) : Ready(f, A, a, c) => Ready(g, A, a, c)
  BY <1>1 DEF Ready, Stored
<1> QED
  BY <1>1, <1>3, <1>4

\* a visit goes on in one of its exits, after a branch to one of them
LEMMA ClosesSafe ==
  ASSUME IInv, SafeInv, frames # << >>, NEW t \in Exits(Last(frames)), NEW b \in Targets(Last(frames)),
         ir' = SetInsert(BrUnlessTerminated(ir, t), b),
         NEW d, d = Depth(Front(frames)),
         Bound(scope', Len(scope')) = Bound(scope, d),
         \A k \in 0 .. d : Bound(scope', k) = Bound(scope, k),
         \/ frames' = Front(frames)
         \/ \E fr \in Frame : /\ frames' = Append(Front(frames), fr)
                              /\ Exits(fr) \subseteq Exits(Last(frames))
  PROVE  SafeInv'
<1>1. PICK A : SafeAt(ir, A, frames, scope)
  BY DEF SafeInv
<1>2. PICK fr, n : fr = Last(frames) /\ n = Len(frames)
  OBVIOUS
<1>3. /\ frames \in Seq(Frame) /\ Body(ir) /\ FrameOK(ir, fr) /\ FramesOK(ir, frames)
      /\ Scopes(scope, Depth(frames)) /\ d \in Nat /\ Front(frames) \in Seq(Frame)
  BY <1>2, Innermost DEF Framed
<1>4. fr = frames[n] /\ n \in 1 .. Len(frames)
  <2>1. n \in Nat /\ n > 0
    BY <1>2, <1>3
  <2> QED
    BY <1>2, <2>1 DEF Last
<1>5. PICK g : g = BrUnlessTerminated(ir, t)
  OBVIOUS
<1>6. Assigned(g, A) /\ \A a : \A c \in Blocks(ir) : Ready(ir, A, a, c) => Ready(g, A, a, c)
  <2>1. CASE g = ir
    BY <1>1, <2>1 DEF SafeAt
  <2>2. CASE g = Br(ir, t)
    BY <1>1, <1>2, <1>3, <1>4, <2>2, ExitStored
  <2> QED
    BY <1>5, <2>1, <2>2 DEF BrUnlessTerminated
<1>7. Body(g) /\ Blocks(g) = Blocks(ir)
  <2>1. t \in Targets(fr) \/ (fr.kind = "loop" /\ t = fr.head)
    BY <1>2 DEF Exits
  <2> QED
    BY <1>3, <1>5, <2>1, ClosingBranch
<1>8. b \in Exits(fr) /\ b \in Blocks(ir)
  BY <1>2, <1>3, ExitsAre DEF Exits
<1>9. Assigned(ir', A) /\ ir'.cur = b /\ \A a : Ready(g, A, a, b) => Ready(ir', A, a, b)
  <2>1. Listed(g) /\ ir' = SetInsert(g, b) /\ b \in Blocks(g)
    BY <1>5, <1>7, <1>8, BodyListed
  <2> QED
    BY <1>6, <2>1, AssignedMoves
<1>10. ExitsOK(A, frames, scope)
  BY <1>1 DEF SafeAt
<1>11. PICK front, u : front = Front(frames) /\ u = scope'
  OBVIOUS
<1>12. ExitsOK(A, front, scope) /\ \A x \in Exits(fr) : \A a : <<a, x>> \in A <=> a \in Bound(scope, d)
  BY <1>2, <1>3, <1>10, <1>11, ExitsPop
<1>13. \A a \in Bound(scope', Len(scope')) : Ready(ir', A, a, ir'.cur)
  <2>1. \A a \in Bound(scope, d) : Ready(ir, A, a, b)
    BY <1>8, <1>12 DEF Ready
  <2> QED
    BY <1>6, <1>8, <1>9, <2>1
<1>14. ExitsOK(A, front, u)
  BY <1>3, <1>11, <1>12, ExitsSame
<1>15. ExitsOK(A, frames', u)
  <2>1. CASE frames' = front
    BY <1>14, <2>1
  <2>2. ASSUME NEW fr2 \in Frame, frames' = Append(front, fr2), Exits(fr2) \subseteq Exits(fr)
        PROVE  ExitsOK(A, frames', u)
    <3>1. \A x \in Exits(fr2) : \A a : <<a, x>> \in A <=> a \in Bound(u, Depth(front))
      <4>1. d \in 0 .. d /\ d = Depth(front)
        BY <1>3, <1>11
      <4>2. Bound(u, d) = Bound(scope, d)
        BY <1>11, <4>1
      <4> QED
        BY <1>12, <2>2, <4>1, <4>2
    <3> QED
      BY <1>3, <1>11, <1>14, <2>2, <3>1, ExitsPush
  <2> QED
    BY <1>2, <1>11, <2>1, <2>2
<1>16. SafeAt(ir', A, frames', scope')
  BY <1>9, <1>11, <1>13, <1>15 DEF SafeAt
<1> QED
  BY <1>16 DEF SafeInv

\* Two scopes are left.
LEMMA TwoLeft ==
  ASSUME NEW s, NEW n \in Nat, NEW m \in Nat, Scopes(s, n), n = m + 2, NEW u, u = Exit(Exit(s))
  PROVE  /\ Scopes(u, m) /\ Bound(u, Len(u)) = Bound(s, m)
         /\ \A k \in 0 .. m : Bound(u, k) = Bound(s, k)
<1>1. PICK w : w = Exit(s)
  OBVIOUS
<1>2. Scopes(s, (m + 1) + 1) /\ m + 1 \in Nat
  OBVIOUS
<1>3. Scopes(w, m + 1) /\ \A k \in 0 .. m + 1 : Bound(w, k) = Bound(s, k)
  BY <1>1, <1>2, ExitBound
<1>4. Scopes(u, m) /\ \A k \in 0 .. m : Bound(u, k) = Bound(w, k)
  BY <1>1, <1>3, ExitBound
<1>5. m \in 0 .. m /\ \A k \in 0 .. m : k \in 0 .. m + 1
  OBVIOUS
<1> QED
  BY <1>3, <1>4, <1>5 DEF Scopes

\* A block ends.
LEMMA EndBlockSafe ==
  ASSUME IInv, SafeInv, EndBlock
  PROVE  SafeInv'
<1>1. frames # << >> /\ Last(frames).kind = "block" /\ scope' = Exit(scope)
      /\ frames' = Front(frames) /\ ir' = ir
  BY DEF EndBlock, Returning
<1>2. PICK d : d = Depth(Front(frames))
  OBVIOUS
<1>3. /\ frames \in Seq(Frame) /\ Front(frames) \in Seq(Frame) /\ Scopes(scope, d + 1) /\ d \in Nat
      /\ Depth(frames) = d + 1
  BY <1>1, <1>2, Innermost DEF ScopeAdded
<1>4. PICK A : SafeAt(ir, A, frames, scope)
  BY DEF SafeInv
<1>5. PICK front, u : front = Front(frames) /\ u = scope'
  OBVIOUS
<1>6. Scopes(u, d) /\ \A k \in 0 .. d : Bound(u, k) = Bound(scope, k)
  BY <1>1, <1>3, <1>5, ExitBound
<1>7. ExitsOK(A, front, scope)
  BY <1>1, <1>3, <1>4, <1>5, ExitsPop DEF SafeAt
<1>8. ExitsOK(A, front, u)
  BY <1>2, <1>3, <1>5, <1>6, <1>7, ExitsSame
<1>9. \A a \in Bound(u, Len(u)) : Ready(ir, A, a, ir.cur)
  <2>1. d + 1 \in Nat /\ d \in 0 .. d + 1 /\ d \in 0 .. d
    BY <1>3
  <2>2. Bound(scope, d) \subseteq Bound(scope, d + 1)
    BY <2>1, BoundMono
  <2>3. Bound(u, Len(u)) = Bound(scope, d) /\ Len(scope) = d + 1
    BY <1>3, <1>6, <2>1 DEF Scopes
  <2>4. \A a \in Bound(scope, d + 1) : Ready(ir, A, a, ir.cur)
    BY <1>4, <2>3 DEF SafeAt
  <2> QED
    BY <2>2, <2>3, <2>4
<1>10. SafeAt(ir', A, frames', scope')
  BY <1>1, <1>4, <1>5, <1>8, <1>9 DEF SafeAt
<1> QED
  BY <1>10 DEF SafeInv

\* An else arm, the body of a loop, and the last arm of an if end.
LEMMA EndElseSafe ==
  ASSUME IInv, SafeInv, EndElse
  PROVE  SafeInv'
<1>1. PICK d, fr : d = Depth(Front(frames)) /\ fr = Last(frames)
  OBVIOUS
<1>2. frames # << >> /\ fr.kind = "else" /\ scope' = Exit(Exit(scope)) /\ frames' = Front(frames)
      /\ ir' = SetInsert(BrUnlessTerminated(ir, fr.cont), fr.cont)
  BY <1>1 DEF EndElse, Returning
<1>3. Scopes(scope, Depth(frames)) /\ Depth(frames) = d + 2 /\ d \in Nat /\ Depth(frames) \in Nat
  BY <1>1, <1>2, Innermost DEF ScopeAdded
<1>4. Bound(scope', Len(scope')) = Bound(scope, d) /\ \A k \in 0 .. d : Bound(scope', k) = Bound(scope, k)
  BY <1>2, <1>3, TwoLeft
<1>5. fr.cont \in Targets(fr) /\ fr.cont \in Exits(fr)
  BY <1>2 DEF Targets, Exits
<1> QED
  BY <1>1, <1>2, <1>4, <1>5, ClosesSafe

LEMMA EndLoopSafe ==
  ASSUME IInv, SafeInv, EndLoop
  PROVE  SafeInv'
<1>1. PICK d, fr : d = Depth(Front(frames)) /\ fr = Last(frames)
  OBVIOUS
<1>2. frames # << >> /\ fr.kind = "loop" /\ scope' = Exit(Exit(scope)) /\ frames' = Front(frames)
      /\ ir' = SetInsert(BrUnlessTerminated(ir, fr.head), fr.cont)
  BY <1>1 DEF EndLoop, Returning
<1>3. Scopes(scope, Depth(frames)) /\ Depth(frames) = d + 2 /\ d \in Nat /\ Depth(frames) \in Nat
  BY <1>1, <1>2, Innermost DEF ScopeAdded
<1>4. Bound(scope', Len(scope')) = Bound(scope, d) /\ \A k \in 0 .. d : Bound(scope', k) = Bound(scope, k)
  BY <1>2, <1>3, TwoLeft
<1>5. fr.cont \in Targets(fr) /\ fr.head \in Exits(fr)
  BY <1>2 DEF Targets, Exits
<1> QED
  BY <1>1, <1>2, <1>4, <1>5, ClosesSafe

LEMMA EndThenSafe ==
  ASSUME IInv, SafeInv, EndThen
  PROVE  SafeInv'
<1>1. PICK d, fr : d = Depth(Front(frames)) /\ fr = Last(frames)
  OBVIOUS
<1>2. frames # << >> /\ fr.kind = "then"
  BY <1>1 DEF EndThen, Returning
<1>3. /\ Scopes(scope, Depth(frames)) /\ Depth(frames) = d + 2 /\ d \in Nat /\ Depth(frames) \in Nat
      /\ fr \in Frame
  BY <1>1, <1>2, Innermost DEF ScopeAdded
<1>4. PICK left : left = Exit(Exit(scope))
  OBVIOUS
<1>5. /\ Scopes(left, d) /\ Bound(left, Len(left)) = Bound(scope, d)
      /\ \A k \in 0 .. d : Bound(left, k) = Bound(scope, k)
  BY <1>3, <1>4, TwoLeft
<1>6. fr.cont \in Targets(fr) /\ fr.cont \in Exits(fr) /\ fr.cont \in Nat
  <2>1. fr.cont \in Nat
    BY <1>2, <1>3 DEF Frame
  <2> QED
    BY <1>2, <2>1 DEF Targets, Exits
<1>7. CASE fr.else = 0
  <2>1. scope' = left /\ frames' = Front(frames) /\ ir' = SetInsert(BrUnlessTerminated(ir, fr.cont), fr.cont)
    BY <1>1, <1>4, <1>7 DEF EndThen
  <2>2. Bound(scope', Len(scope')) = Bound(scope, d) /\ \A k \in 0 .. d : Bound(scope', k) = Bound(scope, k)
    BY <1>5, <2>1
  <2> QED
    BY <1>1, <1>2, <1>6, <2>1, <2>2, ClosesSafe
<1>8. CASE fr.else # 0
  <2>1. PICK new : new = [kind |-> "else", cont |-> fr.cont]
    OBVIOUS
  <2>2. scope' = Enter(Enter(left)) /\ frames' = Append(Front(frames), new)
        /\ ir' = SetInsert(BrUnlessTerminated(ir, fr.cont), fr.else)
    BY <1>1, <1>4, <1>8, <2>1 DEF EndThen
  <2>3. fr.else \in Targets(fr)
    BY <1>2, <1>8 DEF Targets
  <2>4. new \in Frame /\ Exits(new) \subseteq Exits(fr)
    <3>1. Exits(new) = {fr.cont}
      BY <2>1 DEF Exits, Targets
    <3> QED
      BY <1>6, <2>1, <3>1 DEF Frame
  <2>5. Bound(scope', Len(scope')) = Bound(left, d) /\ \A k \in 0 .. d : Bound(scope', k) = Bound(left, k)
    BY <1>3, <1>5, <2>2, TwoEntered
  <2>6. Bound(scope', Len(scope')) = Bound(scope, d) /\ \A k \in 0 .. d : Bound(scope', k) = Bound(scope, k)
    <3>1. d \in 0 .. d
      BY <1>3
    <3> QED
      BY <1>5, <2>5, <3>1
  <2> QED
    BY <1>1, <1>2, <1>6, <2>2, <2>3, <2>4, <2>6, ClosesSafe
<1> QED
  BY <1>7, <1>8

\* The implicit return.
LEMMA EndFuncSafe ==
  ASSUME IInv, SafeInv, EndFunc, IInv'
  PROVE  SafeInv'
<1>1. /\ frames # << >> /\ Last(frames).kind = "func" /\ scope' = Exit(Exit(scope)) /\ frames' = << >>
      /\ ir' = IF Terminated(ir, ir.cur) THEN ir ELSE Emit(ir, Ret)
  BY DEF EndFunc, Returning
<1>2. PICK d, V : d = Depth(frames) /\ V = Bound(scope, d)
  OBVIOUS
<1>3. PICK A : SafeAt(ir, A, frames, scope)
  BY DEF SafeInv
<1>4. PICK B : B = Widened(ir, ir', A, V)
  OBVIOUS
<1>5. /\ frames \in Seq(Frame) /\ Body(ir) /\ FramesOK(ir, frames) /\ Scopes(scope, d)
      /\ d \in Nat /\ d > 2
  <2>1. /\ frames \in Seq(Frame) /\ Body(ir) /\ FramesOK(ir, frames) /\ Scopes(scope, d)
    BY <1>1, <1>2, Innermost DEF Framed
  <2>2. Len(frames) \in 0 .. Len(frames)
    BY <2>1
  <2> QED
    BY <1>2, <2>1, <2>2, OpenedFacts
<1>6. Grown(ir, ir', V)
  <2>1. Grown(ir, ir, V) /\ Ret.op # "load"
    BY <1>5, GrownSelf DEF Ret
  <2>2. CASE ir' = ir
    BY <2>1, <2>2
  <2>3. CASE ir' = Emit(ir, Ret)
    BY <1>5, <2>1, <2>3, GrownEmit
  <2> QED
    BY <1>1, <2>2, <2>3
<1>7. Body(ir')
  BY DEF IInv
<1>8. Assigned(ir', B) /\ \A a \in V : Ready(ir', B, a, ir'.cur)
  BY <1>2, <1>3, <1>4, <1>5, <1>6, <1>7, SafeGrows
<1>9. Bound(scope', Len(scope')) \subseteq V
  <2>1. PICK m : m = d - 2
    OBVIOUS
  <2>2. m \in Nat /\ d = m + 2 /\ m \in 0 .. d
    BY <1>5, <2>1
  <2>3. Bound(scope', Len(scope')) = Bound(scope, m)
    BY <1>1, <1>5, <2>2, TwoLeft
  <2> QED
    BY <1>2, <1>5, <2>2, <2>3, BoundMono
<1>10. ExitsOK(B, frames', scope')
  <2>1. Len(frames') = 0
    BY <1>1
  <2> QED
    BY <2>1 DEF ExitsOK
<1>11. SafeAt(ir', B, frames', scope')
  BY <1>8, <1>9, <1>10 DEF SafeAt
<1> QED
  BY <1>11 DEF SafeInv

\* Every step keeps the witness.
LEMMA NextSafe ==
  ASSUME IInv, SafeInv, [Next]_vars, IInv'
  PROVE  SafeInv'
<1>1. CASE Next
  <2>1. ASSUME NEW n \in Names, NEW e \in Exprs(scope), Decl(n, e) PROVE SafeInv'
    BY <2>1, DeclSafe
  <2>2. ASSUME NEW n \in Visible(scope), NEW e \in Exprs(scope), Assign(n, e) PROVE SafeInv'
    BY <2>2, AssignSafe
  <2>3. ASSUME NEW e \in Exprs(scope), Return(e) PROVE SafeInv'
    BY <2>3, ReturnSafe
  <2>4. CASE Break \/ Continue
    BY <2>4, LoopExitSafe
  <2>5. CASE Block
    BY <2>5, BlockSafe
  <2>6. ASSUME NEW c \in Conds, NEW e \in Exprs(scope), NEW hasElse \in BOOLEAN, If(c, e, hasElse)
        PROVE  SafeInv'
    BY <2>6, IfSafe
  <2>7. ASSUME NEW c \in Conds, NEW e \in Exprs(scope), While(c, e) PROVE SafeInv'
    BY <2>7, WhileSafe
  <2>8. CASE EndBlock
    BY <2>8, EndBlockSafe
  <2>9. CASE EndThen
    BY <2>9, EndThenSafe
  <2>10. CASE EndElse
    BY <2>10, EndElseSafe
  <2>11. CASE EndLoop
    BY <2>11, EndLoopSafe
  <2>12. CASE EndFunc
    BY <2>12, EndFuncSafe
  <2>13. CASE UNCHANGED vars
    BY <2>13 DEF vars, SafeInv
  <2> QED
    BY <1>1, <2>1, <2>2, <2>3, <2>4, <2>5, <2>6, <2>7, <2>8, <2>9, <2>10, <2>11, <2>12, <2>13
       DEF Next, Visit, Terminating
<1>2. CASE UNCHANGED vars
  BY <1>2 DEF vars, SafeInv
<1> QED
  BY <1>1, <1>2

-----------------------------------------------------------------------------
(***************************************************************************)
(* The initial state: the entry block stores every parameter that is bound.*)
(***************************************************************************)
StoredKnown(hyp, n, f) ==
  /\ Body(f) /\ f.cur \in Open(f) /\ f.cur = Entry /\ Blocks(f) = {Entry}
  /\ \A a \in 1 .. n : Stored(f, Entry, a)
  /\ \A k \in DOMAIN f.code[Entry] : f.code[Entry][k].op # "load"

BoundKnown(hyp, n, s) == Scopes(s, 2) /\ Bound(s, 2) \subseteq 1 .. n

StoresAre == INSTANCE IterateProofs WITH step <- StoreStep, known <- StoredKnown
BindsAre  == INSTANCE IterateProofs WITH step <- BindStep, known <- BoundKnown

LEMMA InitSafe ==
  ASSUME Init, IInv
  PROVE  SafeInv
<1>1. PICK params, entry, all :
        /\ params = SetToSeq(Params) /\ entry = SetInsert(NewBlock(EmptyBody), Entry)
        /\ all = [i \in DOMAIN params |-> i]
  OBVIOUS
<1>2. ir = StoresAre!Run(params, entry, all)
  BY <1>1 DEF Init, RunThrough, StoresAre!Run, StoresAre!RunThrough, StoreStep
<1>3. PICK bound : /\ bound = BindsAre!Run(params, <<NoBindings, NoBindings>>, all)
                   /\ scope = Enter(bound)
  <2>1. scope = Enter(BindsAre!Run(SetToSeq(Params), <<NoBindings, NoBindings>>,
                                   [i \in DOMAIN SetToSeq(Params) |-> i]))
    BY DEF Init, RunThrough, BindsAre!Run, BindsAre!RunThrough, BindStep
  <2> QED
    BY <1>1, <2>1
<1>4. Len(all) \in Nat /\ \A i \in 1 .. Len(all) : all[i] = i
  BY <1>1, ParamsSeq
<1>5. Body(entry) /\ entry.cur \in Open(entry) /\ Open(entry) = {entry.cur}
  BY <1>1, EntryIs
<1>6. entry.cur = Entry /\ Blocks(entry) = {Entry} /\ entry.code[Entry] = << >>
  <2>1. PICK e : e = << >>
    OBVIOUS
  <2>2. Append(<< >>, e) = <<e>>
    OBVIOUS
  <2>3. entry.code = <<e>> /\ entry.cur = 1
    BY <1>1, <2>1, <2>2 DEF SetInsert, NewBlock, EmptyBody, Entry
  <2>4. DOMAIN <<e>> = {1} /\ <<e>>[1] = e
    OBVIOUS
  <2> QED
    BY <2>1, <2>3, <2>4 DEF Blocks, Entry
<1>7. StoredKnown(0, Len(all), ir)
  <2>1. StoredKnown(0, 0, entry)
    <3>1. DOMAIN entry.code[Entry] = {} /\ 1 .. 0 = {}
      BY <1>6
    <3> QED
      BY <1>5, <1>6, <3>1 DEF StoredKnown
  <2>2. ASSUME NEW n \in 1 .. Len(all), NEW f, StoredKnown(0, n - 1, f)
        PROVE  StoredKnown(0, n, StoreStep(params, f, all[n]))
    <3>1. PICK g, v : g = EmitStore(f, n, v) /\ v = Const(f.ids + 1)
      OBVIOUS
    <3>2. /\ Body(f) /\ f.cur \in Open(f) /\ f.cur = Entry /\ Blocks(f) = {Entry}
          /\ \A a \in 1 .. n - 1 : Stored(f, Entry, a)
          /\ \A k \in DOMAIN f.code[Entry] : f.code[Entry][k].op # "load"
      BY <2>2 DEF StoredKnown
    <3>3. Body(g) /\ SameGraph(f, g)
      BY <3>1, <3>2, StoreKeeps, ConstAvailable
    <3>p. PICK x : x = n
      OBVIOUS
    <3>q. Body(f) /\ f.cur \in Open(f) /\ g = EmitStore(f, x, v)
      BY <3>1, <3>2, <3>p
    <3>r. Stored(g, f.cur, x) /\ \A c : Stored(f, f.cur, c) => Stored(g, f.cur, c)
      BY <3>q, StoreStored
    <3>s. \A b \in Blocks(f) : \A k \in DOMAIN g.code[b] :
            g.code[b][k].op = "load" => k \in DOMAIN f.code[b] /\ f.code[b][k].op = "load"
      BY <3>q, StoreStored
    <3>5. g.cur = Entry /\ g.cur \in Open(g) /\ Blocks(g) = {Entry}
      BY <3>2, <3>3 DEF SameGraph
    <3>6. \A a \in 1 .. n : a \in 1 .. n - 1 \/ a = n
      BY <1>4
    <3>7. \A a \in 1 .. n : Stored(g, Entry, a)
      BY <3>2, <3>p, <3>r, <3>6
    <3>8. \A k \in DOMAIN g.code[Entry] : g.code[Entry][k].op # "load"
      BY <3>2, <3>s
    <3>9. StoreStep(params, f, all[n]) = g
      BY <1>4, <3>1 DEF StoreStep
    <3> QED
      BY <3>3, <3>5, <3>7, <3>8, <3>9 DEF StoredKnown
  <2> QED
    BY <1>2, <1>4, <2>1, <2>2, StoresAre!RunRule
<1>8. BoundKnown(0, Len(all), bound)
  <2>1. BoundKnown(0, 0, <<NoBindings, NoBindings>>)
    <3>1. PICK none, s : none = NoBindings /\ s = <<none, none>>
      OBVIOUS
    <3>2. s \in Seq({none}) /\ Len(s) = 2 /\ s[1] = none /\ s[2] = none
      BY <3>1
    <3>3. DOMAIN none = {}
      BY <3>1 DEF NoBindings
    <3>4. \A i \in 1 .. 2 : i = 1 \/ i = 2
      OBVIOUS
    <3>5. Bound(s, 2) = {}
      BY <3>2, <3>3, <3>4, BoundIs
    <3> QED
      BY <3>1, <3>2, <3>5 DEF BoundKnown, Scopes
  <2>2. ASSUME NEW n \in 1 .. Len(all), NEW s, BoundKnown(0, n - 1, s)
        PROVE  BoundKnown(0, n, BindStep(params, s, all[n]))
    <3>1. PICK u : u = Push(s, params[n], n)
      OBVIOUS
    <3>2. Scopes(s, 2) /\ Bound(s, 2) \subseteq 1 .. n - 1
      BY <2>2 DEF BoundKnown
    <3>3. Scopes(u, 2) /\ Bound(u, 2) \subseteq Bound(s, 2) \cup {n}
      BY <3>1, <3>2, PushBound
    <3>4. (1 .. n - 1) \cup {n} \subseteq 1 .. n
      BY <1>4
    <3>5. BindStep(params, s, all[n]) = u
      BY <1>4, <3>1 DEF BindStep
    <3> QED
      BY <3>2, <3>3, <3>4, <3>5 DEF BoundKnown
  <2> QED
    BY <1>3, <1>4, <2>1, <2>2, BindsAre!RunRule
<1>9. Scopes(bound, 2) /\ Bound(bound, 2) \subseteq 1 .. Len(all)
  BY <1>8 DEF BoundKnown
<1>10. Bound(scope, Len(scope)) = Bound(bound, 2)
  <2>1. Scopes(scope, 2 + 1) /\ Bound(scope, 2 + 1) = Bound(bound, 2)
    BY <1>3, <1>9, EnterBound
  <2> QED
    BY <2>1 DEF Scopes
<1>11. /\ ir.cur = Entry /\ Blocks(ir) = {Entry}
       /\ \A a \in 1 .. Len(all) : Stored(ir, Entry, a)
       /\ \A k \in DOMAIN ir.code[Entry] : ir.code[Entry][k].op # "load"
  BY <1>7 DEF StoredKnown
<1>12. Assigned(ir, {})
  BY <1>11 DEF Assigned
<1>13. \A a \in Bound(scope, Len(scope)) : Ready(ir, {}, a, ir.cur)
  BY <1>9, <1>10, <1>11 DEF Ready
<1>14. ExitsOK({}, frames, scope)
  <2>1. PICK fr : fr = [kind |-> "func"]
    OBVIOUS
  <2>2. frames = <<fr>>
    BY <2>1 DEF Init
  <2>3. 1 .. Len(frames) = {1} /\ frames[1] = fr
    BY <2>2
  <2>4. Exits(fr) = {}
    BY <2>1 DEF Exits, Targets
  <2> QED
    BY <2>3, <2>4 DEF ExitsOK
<1>15. SafeAt(ir, {}, frames, scope)
  BY <1>12, <1>13, <1>14 DEF SafeAt
<1> QED
  BY <1>15 DEF SafeInv

\* On every path to a load its variable has been stored, whatever statements the
\* path goes through: the front end gives every local a store where it declares
\* it, and leads into no scope from outside.
THEOREM LoadsFollowStores == Spec => [](\E A : Assigned(ir, A))
<1>1. Init => IInv /\ SafeInv
  BY InitHolds, InitSafe
<1>2. IInv /\ SafeInv /\ [Next]_vars => IInv' /\ SafeInv'
  BY NextKeeps, NextSafe
<1>3. SafeInv => \E A : Assigned(ir, A)
  BY DEF SafeInv, SafeAt
<1> QED
  BY <1>1, <1>2, <1>3, PTL DEF Spec

=============================================================================
