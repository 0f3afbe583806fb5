--------------------------- MODULE BackEndProofs ---------------------------
(***************************************************************************)
(* The two code generators, for every function, every number of registers  *)
(* and every list of arguments: the frame, the register cache, and what a  *)
(* handler may rely on between its requests for registers.                 *)
(***************************************************************************)
EXTENDS RegMachine, FiniteSetTheorems, SequenceTheorems, NaturalsInduction, WellFoundedInduction, TLAPS

-----------------------------------------------------------------------------
(***************************************************************************)
(* Sequences.                                                              *)
(***************************************************************************)
\* A set of numbers has a least one: the induction of what follows.
LEMMA LeastNat ==
  ASSUME NEW X \in SUBSET Nat, X # {}
  PROVE  \E x \in X : \A y \in X : x <= y
<1>1. PICK x \in X : \A y \in X : ~(<<y, x>> \in OpToRel(<, Nat))
  BY NatLessThanWellFounded, WFMin
<1>2. \A y \in X : ~(y < x)
  BY <1>1 DEF OpToRel
<1> QED
  BY <1>2

\* flatten, as FlattenSeq defines it, on the first n sequences
Flat(seqs, n, f) ==
  f = [i \in 1 .. n |-> IF i = 1 THEN seqs[i] ELSE f[i - 1] \o seqs[i]]

LEMMA FlatExists ==
  ASSUME NEW S, NEW seqs \in Seq(Seq(S))
  PROVE  \A n \in 0 .. Len(seqs) : \E f : Flat(seqs, n, f) /\ f \in [1 .. n -> Seq(S)]
<1> DEFINE Good(n) == \E f : Flat(seqs, n, f) /\ f \in [1 .. n -> Seq(S)]
           Bad == {n \in 0 .. Len(seqs) : ~Good(n)}
<1> SUFFICES ASSUME Bad # {} PROVE FALSE
  OBVIOUS
<1>1. PICK n \in Bad : \A m \in Bad : n <= m
  <2>1. Bad \in SUBSET Nat
    OBVIOUS
  <2> HIDE DEF Bad
  <2> QED
    BY <2>1, LeastNat
<1>2. Good(0)
  <2>1. Flat(seqs, 0, << >>) /\ << >> \in [1 .. 0 -> Seq(S)]
    BY DEF Flat
  <2> QED
    BY <2>1
<1>3. n \in Nat /\ n # 0 /\ n - 1 \in 0 .. Len(seqs) /\ n - 1 \notin Bad /\ n \in 1 .. Len(seqs)
  <2>1. n \in 0 .. Len(seqs) /\ ~Good(n)
    BY <1>1
  <2> HIDE DEF Good
  <2>2. n # 0
    BY <2>1, <1>2
  <2>3. n \in Nat /\ n - 1 \in 0 .. Len(seqs) /\ n \in 1 .. Len(seqs)
    BY <2>1, <2>2
  <2>4. n - 1 \notin Bad
    <3>1. ~(n <= n - 1)
      BY <2>3
    <3> QED
      BY <1>1, <3>1
  <2> QED
    BY <2>2, <2>3, <2>4
<1>4. PICK f : Flat(seqs, n - 1, f) /\ f \in [1 .. n - 1 -> Seq(S)]
  BY <1>3
<1>5. PICK x : x = IF n = 1 THEN seqs[n] ELSE f[n - 1] \o seqs[n]
  OBVIOUS
<1>6. x \in Seq(S)
  <2>1. seqs[n] \in Seq(S)
    BY <1>3
  <2>2. n # 1 => n - 1 \in 1 .. n - 1
    BY <1>3
  <2> QED
    BY <1>4, <1>5, <2>1, <2>2
<1> DEFINE g == [i \in 1 .. n |-> IF i = n THEN x ELSE f[i]]
<1>7. g \in [1 .. n -> Seq(S)]
  <2>1. \A i \in 1 .. n : i # n => i \in 1 .. n - 1
    BY <1>3
  <2> QED
    BY <1>4, <1>6, <2>1
<1>8. \A i \in 1 .. n : g[i] = IF i = 1 THEN seqs[i] ELSE g[i - 1] \o seqs[i]
  <2> TAKE i \in 1 .. n
  <2>1. \A j \in 1 .. n - 1 : f[j] = IF j = 1 THEN seqs[j] ELSE f[j - 1] \o seqs[j]
    BY <1>4 DEF Flat
  <2>2. i - 1 # n /\ (i # 1 => i - 1 \in 1 .. n)
    BY <1>3
  <2>3. CASE i = n
    BY <1>5, <2>2, <2>3
  <2>4. CASE i # n
    <3>1. i \in 1 .. n - 1
      BY <1>3, <2>4
    <3> QED
      BY <2>1, <2>2, <2>4, <3>1
  <2> QED
    BY <2>3, <2>4
<1>9. Flat(seqs, n, g)
  <2>1. g = [i \in 1 .. n |-> g[i]]
    OBVIOUS
  <2> HIDE DEF g
  <2> QED
    BY <1>8, <2>1 DEF Flat
<1> QED
  BY <1>1, <1>7, <1>9

LEMMA FlatUnique ==
  ASSUME NEW S, NEW seqs \in Seq(Seq(S)), NEW n \in 0 .. Len(seqs), NEW f, Flat(seqs, n, f)
  PROVE  f \in [1 .. n -> Seq(S)]
<1> DEFINE Bad == {i \in 1 .. n : f[i] \notin Seq(S)}
<1>0. \A i \in 1 .. n : f[i] = IF i = 1 THEN seqs[i] ELSE f[i - 1] \o seqs[i]
  BY DEF Flat
<1>1. ASSUME Bad # {} PROVE FALSE
  <2>1. PICK i \in Bad : \A m \in Bad : i <= m
    <3>1. Bad \in SUBSET Nat
      OBVIOUS
    <3> HIDE DEF Bad
    <3> QED
      BY <1>1, <3>1, LeastNat
  <2>2. seqs[i] \in Seq(S)
    OBVIOUS
  <2>3. i \in 1 .. n /\ f[i] \notin Seq(S)
    OBVIOUS
  <2>4. i # 1 /\ i - 1 \in 1 .. n
    BY <1>0, <2>2, <2>3
  <2>5. i - 1 \notin Bad
    <3>1. ~(i <= i - 1)
      BY <2>3
    <3> QED
      BY <2>1, <3>1
  <2>6. f[i - 1] \in Seq(S)
    BY <2>4, <2>5
  <2>7. f[i] = f[i - 1] \o seqs[i]
    BY <1>0, <2>3, <2>4
  <2> QED
    BY <2>2, <2>3, <2>6, <2>7
<1>2. f = [i \in 1 .. n |-> f[i]]
  BY DEF Flat
<1> QED
  BY <1>1, <1>2

\* The concatenation of sequences over a set is a sequence over that set.
LEMMA FlattenType ==
  ASSUME NEW S, NEW seqs \in Seq(Seq(S))
  PROVE  FlattenSeq(seqs) \in Seq(S)
<1>1. CASE Len(seqs) = 0
  BY <1>1 DEF FlattenSeq
<1>2. CASE Len(seqs) # 0
  <2> DEFINE n == Len(seqs)
             Is(f) == Flat(seqs, n, f)
  <2>1. Is(CHOOSE f : Is(f))
    BY FlatExists
  <2>2. FlattenSeq(seqs) = (CHOOSE f : Is(f))[n]
    BY <1>2 DEF FlattenSeq, Flat
  <2> HIDE DEF Is
  <2>3. PICK f : Is(f) /\ FlattenSeq(seqs) = f[n]
    BY <2>1, <2>2
  <2>4. f \in [1 .. n -> Seq(S)] /\ n \in 1 .. n
    BY <1>2, <2>3, FlatUnique DEF Is
  <2> QED
    BY <2>3, <2>4
<1> QED
  BY <1>1, <1>2

\* A function on the positions of a sequence is a sequence as long.
LEMMA AlongSequence ==
  ASSUME NEW S, NEW X, NEW t \in Seq(X), NEW f \in [DOMAIN t -> S]
  PROVE  f \in Seq(S) /\ Len(f) = Len(t)
<1>1. DOMAIN t = 1 .. Len(t) /\ Len(t) \in Nat
  OBVIOUS
<1> QED
  BY <1>1

LEMMA ElementOf ==
  ASSUME NEW S, NEW s \in Seq(S), NEW k \in DOMAIN s
  PROVE  s[k] \in S
<1>1. DOMAIN s = 1 .. Len(s)
  OBVIOUS
<1> QED
  BY <1>1

-----------------------------------------------------------------------------
\* The copies of gen_phi are between values and phis of the function.
-----------------------------------------------------------------------------
(***************************************************************************)
(* The frame.  Offsets only grow: the invariant orders the items by the    *)
(* depth at which their parts end, and what is placed next starts below    *)
(* all of them.                                                            *)
(***************************************************************************)
ShapeRight ==
  /\ items \in Seq(Layout!Item)
  /\ offset_map \in Seq(Nat)
  /\ Len(offset_map) <= Len(items)
  /\ offset \in Nat /\ Layout!ProloguePart <= offset
  /\ frame_size \in Nat

\* an item with a slot reaches from here to there
StartOf(k) == offset_map[k] - items[k].size
EndOf(k)   == Layout!AreaEnd(offset_map[k], items[k])

InUse ==
  \A k \in Layout!Placed : Layout!HasSlot(k) => Layout!ProloguePart <= StartOf(k) /\ EndOf(k) <= offset

InOrder ==
  \A k, l \in Layout!Placed : k < l /\ Layout!HasSlot(k) /\ Layout!HasSlot(l) => EndOf(k) <= StartOf(l)

WholeFrame == frame_size # 0 => ~Layout!More /\ offset <= frame_size

FrameInv == ShapeRight /\ InUse /\ InOrder /\ WholeFrame

-----------------------------------------------------------------------------
LEMMA AlignBounds ==
  ASSUME NEW x \in Nat, NEW a \in Layout!Sizes \cup {16}
  PROVE  Layout!Align(x, a) \in Nat /\ x <= Layout!Align(x, a)
<1>1. CASE a = 1
  BY <1>1 DEF Layout!Align
<1>2. CASE a = 4
  BY <1>2 DEF Layout!Align
<1>3. CASE a = 8
  BY <1>3 DEF Layout!Align
<1>4. CASE a = 16
  BY <1>4 DEF Layout!Align
<1> QED
  BY <1>1, <1>2, <1>3, <1>4 DEF Layout!Sizes

LEMMA AreaBounds ==
  ASSUME NEW o \in Nat, NEW i \in Layout!Item
  PROVE  /\ Layout!AreaEnd(o, i) \in Nat /\ o <= Layout!AreaEnd(o, i)
         /\ i.kind \in {"scalar", "array"} => o <= Layout!AreaEnd(o, i) - Layout!AreaSize(i)
<1>1. i.elem \in Layout!Sizes /\ i.elem \in Nat /\ i.area \in Nat
  BY DEF Layout!Item, Layout!Sizes
<1>2. Layout!Align(o + i.elem, i.elem) \in Nat /\ o + i.elem <= Layout!Align(o + i.elem, i.elem)
  BY <1>1, AlignBounds
<1>3. CASE i.kind = "array"
  BY <1>1, <1>2, <1>3 DEF Layout!AreaEnd, Layout!AreaSize
<1>4. CASE i.kind = "scalar"
  BY <1>1, <1>2, <1>4 DEF Layout!AreaEnd, Layout!AreaSize
<1>5. CASE i.kind \notin {"scalar", "array"}
  BY <1>5 DEF Layout!AreaEnd
<1> QED
  BY <1>3, <1>4, <1>5

\* What the invariant says of an item, said again of the next state when its slot
\* and the list of items stay.
LEMMA ItemStays ==
  ASSUME NEW k \in Nat, items' = items, offset_map'[k] = offset_map[k]
  PROVE  /\ StartOf(k)' = StartOf(k) /\ EndOf(k)' = EndOf(k)
         /\ Layout!HasSlot(k)' = Layout!HasSlot(k)
BY DEF StartOf, EndOf, Layout!HasSlot, Layout!AreaEnd, Layout!Align

LEMMA FrameInitHolds == items \in Seq(Layout!Item) /\ Layout!FrameInit => FrameInv
BY DEF Layout!FrameInit, FrameInv, ShapeRight, InUse, InOrder, WholeFrame, Layout!Placed,
       Layout!More, Layout!ProloguePart

-----------------------------------------------------------------------------
LEMMA SkipKeeps == FrameInv /\ Layout!SkipVoid => FrameInv'
<1> SUFFICES ASSUME FrameInv, Layout!SkipVoid PROVE FrameInv'
  OBVIOUS
<1>0. PICK n \in Nat : n = Len(offset_map) + 1
  BY DEF FrameInv, ShapeRight
<1>1. /\ n <= Len(items) /\ items' = items /\ offset' = offset
      /\ frame_size' = frame_size /\ items[n].kind = "void"
      /\ offset_map' = Append(offset_map, 0)
  BY <1>0 DEF FrameInv, ShapeRight, Layout!SkipVoid, Layout!More, Layout!Current
<1>2. /\ offset_map' \in Seq(Nat) /\ Len(offset_map') = n
      /\ \A k \in Layout!Placed : offset_map'[k] = offset_map[k]
  BY <1>0, <1>1 DEF FrameInv, ShapeRight, Layout!Placed
<1>3. Layout!Placed' = Layout!Placed \cup {n} /\ Layout!Placed \subseteq Nat
  BY <1>0, <1>2 DEF Layout!Placed, FrameInv, ShapeRight
<1>4. ~Layout!HasSlot(n)'
  BY <1>1 DEF Layout!HasSlot
<1>5. ShapeRight'
  BY <1>1, <1>2 DEF FrameInv, ShapeRight
<1>6. InUse'
  BY <1>1, <1>2, <1>3, <1>4, ItemStays DEF FrameInv, InUse
<1>7. InOrder'
  <2> SUFFICES ASSUME NEW k \in Layout!Placed', NEW l \in Layout!Placed', k < l,
                      Layout!HasSlot(k)', Layout!HasSlot(l)'
               PROVE  EndOf(k)' <= StartOf(l)'
    BY DEF InOrder
  <2>1. k \in Layout!Placed /\ l \in Layout!Placed
    BY <1>3, <1>4
  <2> QED
    BY <2>1, <1>1, <1>2, <1>3, ItemStays DEF FrameInv, InOrder
<1>8. WholeFrame'
  BY <1>1, <1>2 DEF FrameInv, ShapeRight, WholeFrame, Layout!More
<1> QED
  BY <1>5, <1>6, <1>7, <1>8 DEF FrameInv

LEMMA PlaceKeeps == FrameInv /\ Layout!Place => FrameInv'
<1> SUFFICES ASSUME FrameInv, Layout!Place PROVE FrameInv'
  OBVIOUS
<1>0. PICK n \in Nat : n = Len(offset_map) + 1
  BY DEF FrameInv, ShapeRight
<1>a. PICK i : i = items[n]
  OBVIOUS
<1>b. PICK o : o = Layout!Align(offset + i.size, i.size)
  OBVIOUS
<1>1. /\ n <= Len(items) /\ items' = items /\ frame_size' = frame_size
      /\ offset_map' = Append(offset_map, o) /\ offset' = Layout!AreaEnd(o, i)
  BY <1>0, <1>a, <1>b DEF FrameInv, ShapeRight, Layout!Place, Layout!More, Layout!Current
<1>2. i \in Layout!Item /\ i.size \in Layout!Sizes /\ i.size \in Nat
  <2>1. i \in Layout!Item
    BY <1>0, <1>1, <1>a DEF FrameInv, ShapeRight
  <2> QED
    BY <2>1 DEF Layout!Item, Layout!Sizes
<1>3. o \in Nat /\ offset + i.size <= o
  BY <1>2, <1>b, AlignBounds DEF FrameInv, ShapeRight
<1>4. Layout!AreaEnd(o, i) \in Nat /\ o <= Layout!AreaEnd(o, i)
  BY <1>2, <1>3, AreaBounds
<1>5. /\ offset_map' \in Seq(Nat) /\ Len(offset_map') = n /\ offset_map'[n] = o
      /\ \A k \in Layout!Placed : offset_map'[k] = offset_map[k]
  BY <1>0, <1>1, <1>3 DEF FrameInv, ShapeRight, Layout!Placed
<1>6. /\ Layout!Placed' = Layout!Placed \cup {n} /\ Layout!Placed \subseteq Nat
      /\ \A k \in Layout!Placed : k < n
  BY <1>0, <1>5 DEF Layout!Placed, FrameInv, ShapeRight
<1>7. offset <= offset' /\ offset' \in Nat /\ offset \in Nat
  BY <1>1, <1>2, <1>3, <1>4 DEF FrameInv, ShapeRight
<1>8. StartOf(n)' = o - i.size /\ EndOf(n)' = offset'
  BY <1>1, <1>5, <1>a DEF StartOf, EndOf, Layout!AreaEnd, Layout!Align
<1>9. offset <= StartOf(n)'
  BY <1>8, <1>2, <1>3, <1>7
<1>10. \A k \in Layout!Placed : Layout!HasSlot(k) => EndOf(k) <= offset
  BY DEF FrameInv, InUse
<1>11. \A k \in Layout!Placed : /\ StartOf(k)' = StartOf(k) /\ EndOf(k)' = EndOf(k)
                         /\ Layout!HasSlot(k)' = Layout!HasSlot(k)
  BY <1>1, <1>5, <1>6, ItemStays
<1>12. \A k \in Layout!Placed : Layout!HasSlot(k) => StartOf(k) \in Int /\ EndOf(k) \in Int
  <2> SUFFICES ASSUME NEW k \in Layout!Placed PROVE StartOf(k) \in Int /\ EndOf(k) \in Int
    OBVIOUS
  <2>1. offset_map[k] \in Nat /\ items[k] \in Layout!Item
    BY DEF FrameInv, ShapeRight, Layout!Placed
  <2>2. items[k].size \in Int
    BY <2>1 DEF Layout!Item, Layout!Sizes
  <2> QED
    BY <2>1, <2>2, AreaBounds DEF StartOf, EndOf
<1>13. ShapeRight'
  BY <1>1, <1>5, <1>7 DEF FrameInv, ShapeRight, Layout!ProloguePart
<1>14. InUse'
  <2> SUFFICES ASSUME NEW k \in Layout!Placed', Layout!HasSlot(k)'
               PROVE  Layout!ProloguePart <= StartOf(k)' /\ EndOf(k)' <= offset'
    BY DEF InUse
  <2>1. CASE k \in Layout!Placed
    <3>1. Layout!HasSlot(k) /\ Layout!ProloguePart <= StartOf(k) /\ EndOf(k) <= offset
      BY <2>1, <1>11 DEF FrameInv, InUse
    <3> QED
      BY <3>1, <2>1, <1>11, <1>12, <1>7
  <2>2. CASE k = n
    BY <2>2, <1>8, <1>9, <1>7, <1>2, <1>3 DEF FrameInv, ShapeRight, Layout!ProloguePart
  <2> QED
    BY <2>1, <2>2, <1>6
<1>15. InOrder'
  <2> SUFFICES ASSUME NEW k \in Layout!Placed', NEW l \in Layout!Placed', k < l,
                      Layout!HasSlot(k)', Layout!HasSlot(l)'
               PROVE  EndOf(k)' <= StartOf(l)'
    BY DEF InOrder
  <2>1. k \in Layout!Placed
    BY <1>6, <1>1
  <2>2. CASE l \in Layout!Placed
    BY <2>1, <2>2, <1>11 DEF FrameInv, InOrder
  <2>3. CASE l = n
    <3>1. EndOf(k)' <= offset /\ EndOf(k)' \in Int
      BY <2>1, <1>10, <1>11, <1>12
    <3> QED
      BY <3>1, <2>3, <1>9, <1>8, <1>7, <1>2, <1>3
  <2> QED
    BY <2>2, <2>3, <1>6
<1>16. WholeFrame'
  BY <1>1 DEF FrameInv, WholeFrame, Layout!Place, Layout!More
<1> QED
  BY <1>13, <1>14, <1>15, <1>16 DEF FrameInv

LEMMA FinishKeeps == FrameInv /\ Layout!FinishFrame => FrameInv'
<1> SUFFICES ASSUME FrameInv, Layout!FinishFrame PROVE FrameInv'
  OBVIOUS
<1>1. /\ items' = items /\ offset' = offset /\ offset_map' = offset_map
      /\ frame_size' = Layout!Align(offset, 16) /\ ~Layout!More
  BY DEF Layout!FinishFrame, Layout!PrologueAlign
<1>2. frame_size' \in Nat /\ offset <= frame_size'
  BY <1>1, AlignBounds DEF FrameInv, ShapeRight
<1>3. Layout!Placed' = Layout!Placed /\ Layout!Placed \subseteq Nat
  BY <1>1 DEF Layout!Placed
<1>4. ShapeRight' /\ WholeFrame'
  BY <1>1, <1>2 DEF FrameInv, ShapeRight, WholeFrame, Layout!More
<1>5. InUse' /\ InOrder'
  BY <1>1, <1>3, ItemStays DEF FrameInv, InUse, InOrder
<1> QED
  BY <1>4, <1>5 DEF FrameInv

LEMMA FrameStepKeeps == FrameInv /\ [Layout!FrameNext]_(Layout!frameVars) => FrameInv'
<1> SUFFICES ASSUME FrameInv, [Layout!FrameNext]_(Layout!frameVars) PROVE FrameInv'
  OBVIOUS
<1>1. CASE Layout!SkipVoid
  BY <1>1, SkipKeeps
<1>2. CASE Layout!Place
  BY <1>2, PlaceKeeps
<1>3. CASE Layout!FinishFrame
  BY <1>3, FinishKeeps
<1>4. CASE UNCHANGED Layout!frameVars
  BY <1>4 DEF Layout!frameVars, FrameInv, ShapeRight, InUse, InOrder, WholeFrame, Layout!Placed, Layout!More,
              StartOf, EndOf, Layout!HasSlot, Layout!AreaEnd, Layout!Align
<1> QED
  BY <1>1, <1>2, <1>3, <1>4 DEF Layout!FrameNext

-----------------------------------------------------------------------------
\* The parts of an item lie between its start and its end, its slot first.
LEMMA PartsBetween ==
  ASSUME FrameInv, NEW k \in Layout!Placed, NEW p \in Layout!Parts(k)
  PROVE  /\ Layout!HasSlot(k) /\ p.from \in Int /\ p.to \in Int
         /\ StartOf(k) <= p.from /\ p.to <= EndOf(k)
         /\ p = Layout!SlotPart(k) \/ (Layout!HasArea(k) /\ p = Layout!AreaPart(k))
<1>1. offset_map[k] \in Nat /\ items[k] \in Layout!Item
  BY DEF FrameInv, ShapeRight, Layout!Placed
<1>2. items[k].size \in Nat /\ Layout!AreaSize(items[k]) \in Nat
  BY <1>1 DEF Layout!Item, Layout!Sizes, Layout!AreaSize
<1>3. Layout!HasSlot(k) /\ (p = Layout!SlotPart(k) \/ (Layout!HasArea(k) /\ p = Layout!AreaPart(k)))
  BY DEF Layout!Parts, Layout!HasArea, Layout!HasSlot
<1>4. EndOf(k) \in Nat /\ offset_map[k] <= EndOf(k)
  BY <1>1, AreaBounds DEF EndOf
<1>5. CASE p = Layout!SlotPart(k)
  BY <1>1, <1>2, <1>3, <1>4, <1>5 DEF Layout!SlotPart, StartOf
<1>6. CASE Layout!HasArea(k) /\ p = Layout!AreaPart(k)
  <2>1. offset_map[k] <= EndOf(k) - Layout!AreaSize(items[k])
    BY <1>1, <1>6, AreaBounds DEF EndOf, Layout!HasArea
  <2>2. p.from = EndOf(k) - Layout!AreaSize(items[k]) /\ p.to = EndOf(k)
    BY <1>6 DEF Layout!AreaPart, EndOf
  <2> QED
    BY <1>1, <1>2, <1>3, <1>4, <2>1, <2>2 DEF StartOf
<1> QED
  BY <1>3, <1>5, <1>6

LEMMA SlotBeforeArea ==
  ASSUME FrameInv, NEW k \in Layout!Placed, Layout!HasArea(k)
  PROVE  Layout!SlotPart(k).to <= Layout!AreaPart(k).from
<1>1. offset_map[k] \in Nat /\ items[k] \in Layout!Item
  BY DEF FrameInv, ShapeRight, Layout!Placed
<1> QED
  BY <1>1, AreaBounds DEF Layout!SlotPart, Layout!AreaPart, Layout!HasArea

LEMMA FrameFromInv == FrameInv => Layout!FrameDisjoint
<1> SUFFICES ASSUME FrameInv, NEW k \in Layout!Placed, NEW l \in Layout!Placed,
                    NEW p \in Layout!Parts(k), NEW q \in Layout!Parts(l)
             PROVE  /\ p # q => Layout!Apart(p, q)
                    /\ Layout!ProloguePart <= p.from
                    /\ frame_size # 0 => p.to <= frame_size
  BY DEF Layout!FrameDisjoint
<1>1. /\ Layout!HasSlot(k) /\ p.from \in Int /\ p.to \in Int
      /\ StartOf(k) <= p.from /\ p.to <= EndOf(k)
      /\ p = Layout!SlotPart(k) \/ (Layout!HasArea(k) /\ p = Layout!AreaPart(k))
  BY PartsBetween
<1>2. /\ Layout!HasSlot(l) /\ q.from \in Int /\ q.to \in Int
      /\ StartOf(l) <= q.from /\ q.to <= EndOf(l)
      /\ q = Layout!SlotPart(l) \/ (Layout!HasArea(l) /\ q = Layout!AreaPart(l))
  BY PartsBetween
<1>3. \A m \in Layout!Placed : Layout!HasSlot(m) => StartOf(m) \in Int /\ EndOf(m) \in Int
  <2> SUFFICES ASSUME NEW m \in Layout!Placed PROVE StartOf(m) \in Int /\ EndOf(m) \in Int
    OBVIOUS
  <2>1. offset_map[m] \in Nat /\ items[m] \in Layout!Item
    BY DEF FrameInv, ShapeRight, Layout!Placed
  <2>2. items[m].size \in Int
    BY <2>1 DEF Layout!Item, Layout!Sizes
  <2> QED
    BY <2>1, <2>2, AreaBounds DEF StartOf, EndOf
<1>4. p # q => Layout!Apart(p, q)
  <2>1. CASE k = l
    BY <2>1, <1>1, <1>2, SlotBeforeArea DEF Layout!Apart
  <2>2. CASE k < l
    <3>1. EndOf(k) <= StartOf(l)
      BY <2>2, <1>1, <1>2 DEF FrameInv, InOrder
    <3> QED
      BY <3>1, <1>1, <1>2, <1>3 DEF Layout!Apart
  <2>3. CASE l < k
    <3>1. EndOf(l) <= StartOf(k)
      BY <2>3, <1>1, <1>2 DEF FrameInv, InOrder
    <3> QED
      BY <3>1, <1>1, <1>2, <1>3 DEF Layout!Apart
  <2> QED
    BY <2>1, <2>2, <2>3 DEF Layout!Placed
<1>5. Layout!ProloguePart <= StartOf(k) /\ EndOf(k) <= offset
  BY <1>1 DEF FrameInv, InUse
<1>6. offset \in Int /\ frame_size \in Int /\ (frame_size # 0 => offset <= frame_size)
  BY DEF FrameInv, ShapeRight, WholeFrame
<1> QED
  BY <1>1, <1>3, <1>4, <1>5, <1>6 DEF Layout!ProloguePart

\* No two slots or areas of a frame share a byte, none reaches into the saved $ra and
\* $fp or below $sp, whatever the arguments and the instructions of the function are.
THEOREM FrameSafe == Layout!FrameSpec => []Layout!FrameDisjoint
<1>1. items \in Seq(Layout!Item) /\ Layout!FrameInit => FrameInv
  BY FrameInitHolds
<1>2. FrameInv /\ [Layout!FrameNext]_(Layout!frameVars) => FrameInv'
  BY FrameStepKeeps
<1>3. FrameInv => Layout!FrameDisjoint
  BY FrameFromInv
<1> QED
  BY <1>1, <1>2, <1>3, PTL DEF Layout!FrameSpec

-----------------------------------------------------------------------------
(***************************************************************************)
(* What the walk over the blocks and the handler keep.  Nothing ties a pin *)
(* to the request it is meant to secure but the order of the steps, so the *)
(* invariant speaks of the steps that are left: every register obtained is *)
(* pinned, or about to be used, or of a file that no step left asks for.   *)
(***************************************************************************)
CodeTyped == body \in [Blocks -> Seq(Instruction)] /\ succ \in [Blocks -> Seq(Blocks)]

Frames == [bb : Blocks, at : Nat]

WalkTyped ==
  /\ calls \in Seq(Frames) /\ bb_order \in Seq(Blocks)
  /\ current_bb_num \in 0 .. Len(bb_order) /\ ins \in Nat

Requests == {"get", "claim"}
Uses     == {"pin", "phi", "pass", "take"}   \* steps on the register obtained last

Registers == UNION {{f} \X Regs(f) : f \in Files}

Step == ((Requests \cup {"make"}) \X Values) \cup ({"phi"} \X Instrs) \cup ({"pass"} \X Nat)
          \cup ({"pin", "take", "exec", "enter", "savelive", "saveall", "reloadall"} \X {Null})

\* a float constant goes through an integer register
Touches(step, f) ==
  \/ step[1] \in Requests /\ (File(step[2]) = f \/ (f = "g" /\ step[2] \in Consts \cap Floats))
  \/ step[1] = "make" /\ f = "g"

Leaves(steps, f) == \A m \in DOMAIN steps : ~Touches(steps[m], f)

\* the register obtained by step j is secured by the next step, or no later one asks
\* for a register of its file
Secured(steps, j) ==
  \/ j + 1 \in DOMAIN steps /\ steps[j + 1][1] \in Uses \ {"take"}
  \/ \A m \in DOMAIN steps : j < m => ~Touches(steps[m], File(steps[j][2]))

\* a list of steps a handler can be left with
Schedule(steps) ==
  /\ steps \in Seq(Step)
  /\ \A j \in DOMAIN steps :
       /\ steps[j][1] \in Requests => Secured(steps, j)
       /\ steps[j][1] \in Uses /\ j # 1 => steps[j - 1][1] \in Requests \cup {"make"}
       /\ steps[j][1] = "make" => j = 1

Obtained == {g \in Registers \X Values : g[1][1] = File(g[2])}

\* the register obtained last is about to be used
UsedNext ==
  \/ todo # << >> /\ todo[1][1] \in Uses \ {"take"}
  \/ Len(todo) > 1 /\ todo[1][1] = "make" /\ todo[2][1] \in Uses \ {"take"}

GotSafe(n) ==
  \/ got[n][1] \in pins
  \/ n = Len(got) /\ UsedNext
  \/ Leaves(todo, got[n][1][1])

\* Every register obtained still holds what it was obtained for, so does every
\* pinned one hold something, and the steps left keep it so.
HandlerInv ==
  /\ Schedule(todo)
  /\ got \in Seq(Obtained)
  /\ \A n \in DOMAIN got : HeldIn(got[n][1]) = got[n][2] /\ GotSafe(n)
  /\ todo # << >> /\ todo[1][1] \in Uses \cup {"make"} => got # << >>
  /\ todo # << >> /\ todo[1][1] = "make" => got[Len(got)][1][1] = "f"
  /\ \A r \in pins : r \in Registers /\ HeldIn(r) # Null

-----------------------------------------------------------------------------
\* A list of steps that serves every request with the step after it.
Served(steps) ==
  /\ steps \in Seq(Step)
  /\ \A j \in DOMAIN steps :
       /\ steps[j][1] \in Requests => j + 1 \in DOMAIN steps /\ steps[j + 1][1] \in Uses \ {"take"}
       /\ steps[j][1] \in Uses => j # 1 /\ steps[j - 1][1] \in Requests
       /\ steps[j][1] # "make"

\* a schedule that can come after other steps
Starts(steps) ==
  /\ Schedule(steps)
  /\ steps # << >> => steps[1][1] \notin Uses
  /\ \A j \in DOMAIN steps : steps[j][1] # "make"

\* Steps that serve their requests can be followed by such steps, and by a schedule;
\* what is left of a schedule after a step is one.
LEMMA ServedConcat ==
  ASSUME NEW s, NEW t, Served(s), Served(t)
  PROVE  Served(s \o t)
<1> DEFINE u == s \o t
<1>1. s \in Seq(Step) /\ t \in Seq(Step) /\ u \in Seq(Step)
  BY DEF Served
<1>2. /\ DOMAIN s = 1 .. Len(s) /\ DOMAIN t = 1 .. Len(t) /\ DOMAIN u = 1 .. Len(s) + Len(t)
      /\ \A j \in DOMAIN s : u[j] = s[j]
      /\ \A j \in DOMAIN t : u[j + Len(s)] = t[j]
  BY <1>1
<1>3. \A j \in DOMAIN u : j \in DOMAIN s \/ (j - Len(s) \in DOMAIN t /\ u[j] = t[j - Len(s)])
  BY <1>1, <1>2
<1> HIDE DEF u
<1>4. ASSUME NEW j \in DOMAIN u
      PROVE  /\ u[j][1] \in Requests => j + 1 \in DOMAIN u /\ u[j + 1][1] \in Uses \ {"take"}
             /\ u[j][1] \in Uses => j # 1 /\ u[j - 1][1] \in Requests
             /\ u[j][1] # "make"
  <2>1. CASE j \in DOMAIN s
    <3>1. /\ s[j][1] \in Requests => j + 1 \in DOMAIN s /\ s[j + 1][1] \in Uses \ {"take"}
          /\ s[j][1] \in Uses => j # 1 /\ s[j - 1][1] \in Requests
          /\ s[j][1] # "make"
      BY <2>1 DEF Served
    <3>2. j # 1 => j - 1 \in DOMAIN s
      BY <1>2, <2>1
    <3>3. \A m \in DOMAIN s : m \in DOMAIN u
      BY <1>1, <1>2
    <3> QED
      BY <1>2, <2>1, <3>1, <3>2, <3>3
  <2>2. CASE j \notin DOMAIN s
    <3>0. PICK m \in DOMAIN t : m = j - Len(s) /\ u[j] = t[m]
      BY <1>3, <2>2
    <3>1. /\ t[m][1] \in Requests => m + 1 \in DOMAIN t /\ t[m + 1][1] \in Uses \ {"take"}
          /\ t[m][1] \in Uses => m # 1 /\ t[m - 1][1] \in Requests
          /\ t[m][1] # "make"
      BY <3>0 DEF Served
    <3>2. m + 1 \in DOMAIN t => j + 1 \in DOMAIN u /\ u[j + 1] = t[m + 1]
      <4>1. (m + 1) + Len(s) = j + 1
        BY <1>1, <1>2, <3>0
      <4> QED
        BY <1>1, <1>2, <4>1
    <3>3. m # 1 => m - 1 \in DOMAIN t /\ j # 1 /\ u[j - 1] = t[m - 1]
      <4>1. (m - 1) + Len(s) = j - 1 /\ (m # 1 => m - 1 \in DOMAIN t /\ j # 1)
        BY <1>1, <1>2, <3>0
      <4> QED
        BY <1>2, <4>1
    <3> QED
      BY <3>0, <3>1, <3>2, <3>3
  <2> QED
    BY <2>1, <2>2
<1> QED
  BY <1>1, <1>4 DEF Served, u

LEMMA ServeThen ==
  ASSUME NEW s, NEW t, Served(s), Starts(t)
  PROVE  Starts(s \o t)
<1> DEFINE u == s \o t
<1>1. s \in Seq(Step) /\ t \in Seq(Step) /\ u \in Seq(Step)
  BY DEF Served, Starts, Schedule
<1>2. /\ DOMAIN s = 1 .. Len(s) /\ DOMAIN t = 1 .. Len(t) /\ DOMAIN u = 1 .. Len(s) + Len(t)
      /\ \A j \in DOMAIN s : u[j] = s[j]
      /\ \A j \in DOMAIN t : u[j + Len(s)] = t[j]
  BY <1>1
<1>3. \A j \in DOMAIN u : j \in DOMAIN s \/ (j - Len(s) \in DOMAIN t /\ u[j] = t[j - Len(s)])
  BY <1>1, <1>2
<1> HIDE DEF u
<1>4. ASSUME NEW j \in DOMAIN u
      PROVE  /\ u[j][1] \in Requests => Secured(u, j)
             /\ u[j][1] \in Uses => j # 1 /\ u[j - 1][1] \in Requests \cup {"make"}
             /\ u[j][1] # "make"
  <2>1. CASE j \in DOMAIN s
    <3>1. /\ s[j][1] \in Requests => j + 1 \in DOMAIN s /\ s[j + 1][1] \in Uses \ {"take"}
          /\ s[j][1] \in Uses => j # 1 /\ s[j - 1][1] \in Requests
          /\ s[j][1] # "make"
      BY <2>1 DEF Served
    <3>2. j # 1 => j - 1 \in DOMAIN s
      BY <1>2, <2>1
    <3>3. \A m \in DOMAIN s : m \in DOMAIN u
      BY <1>1, <1>2
    <3> QED
      BY <1>2, <2>1, <3>1, <3>2, <3>3 DEF Secured
  <2>2. CASE j \notin DOMAIN s
    <3>0. PICK m \in DOMAIN t : m = j - Len(s) /\ u[j] = t[m]
      BY <1>3, <2>2
    <3>1. /\ t[m][1] \in Requests => Secured(t, m)
          /\ t[m][1] \in Uses /\ m # 1 => t[m - 1][1] \in Requests \cup {"make"}
          /\ t[m][1] \in Uses => m # 1
          /\ t[m][1] # "make"
      <4>1. t # << >>
        BY <1>1, <1>2, <3>0
      <4> QED
        BY <3>0, <4>1 DEF Starts, Schedule
    <3>2. m + 1 \in DOMAIN t => j + 1 \in DOMAIN u /\ u[j + 1] = t[m + 1]
      <4>1. (m + 1) + Len(s) = j + 1
        BY <1>1, <1>2, <3>0
      <4> QED
        BY <1>1, <1>2, <4>1
    <3>3. m # 1 => m - 1 \in DOMAIN t /\ j # 1 /\ u[j - 1] = t[m - 1]
      <4>1. (m - 1) + Len(s) = j - 1 /\ (m # 1 => m - 1 \in DOMAIN t /\ j # 1)
        BY <1>1, <1>2, <3>0
      <4> QED
        BY <1>2, <4>1
    <3>4. ASSUME Secured(t, m) PROVE Secured(u, j)
      <4>1. CASE m + 1 \in DOMAIN t /\ t[m + 1][1] \in Uses \ {"take"}
        BY <3>2, <4>1 DEF Secured
      <4>2. CASE \A n \in DOMAIN t : m < n => ~Touches(t[n], File(t[m][2]))
        <5>1. ASSUME NEW n \in DOMAIN u, j < n PROVE ~Touches(u[n], File(u[j][2]))
          <6>1. n - Len(s) \in DOMAIN t /\ u[n] = t[n - Len(s)] /\ m < n - Len(s)
            <7>1. n \notin DOMAIN s
              BY <1>1, <1>2, <2>2, <5>1
            <7> QED
              BY <1>1, <1>2, <1>3, <3>0, <5>1, <7>1
          <6> QED
            BY <3>0, <4>2, <6>1
        <5> QED
          BY <5>1 DEF Secured
      <4> QED
        BY <3>4, <4>1, <4>2 DEF Secured
    <3> QED
      BY <3>0, <3>1, <3>3, <3>4
  <2> QED
    BY <2>1, <2>2
<1>5. u # << >> => 1 \in DOMAIN u
  BY <1>1
<1> QED
  BY <1>1, <1>4, <1>5 DEF Starts, Schedule, u

LEMMA ScheduleTail ==
  ASSUME NEW s, Schedule(s), s # << >>
  PROVE  Schedule(Tail(s)) /\ \A f : Leaves(s, f) => Leaves(Tail(s), f)
<1> DEFINE u == Tail(s)
<1>1. s \in Seq(Step) /\ u \in Seq(Step)
  BY DEF Schedule
<1>2. /\ DOMAIN s = 1 .. Len(s) /\ DOMAIN u = 1 .. Len(s) - 1
      /\ \A j \in DOMAIN u : j + 1 \in DOMAIN s /\ u[j] = s[j + 1]
  BY <1>1
<1> HIDE DEF u
<1>3. ASSUME NEW j \in DOMAIN u
      PROVE  /\ u[j][1] \in Requests => Secured(u, j)
             /\ u[j][1] \in Uses /\ j # 1 => u[j - 1][1] \in Requests \cup {"make"}
             /\ u[j][1] # "make"
  <2>0. PICK m \in DOMAIN s : m = j + 1 /\ u[j] = s[m] /\ m # 1 /\ m - 1 = j
    BY <1>2
  <2>1. /\ s[m][1] \in Requests => Secured(s, m)
        /\ s[m][1] \in Uses => s[m - 1][1] \in Requests \cup {"make"}
        /\ s[m][1] # "make"
    BY <2>0 DEF Schedule
  <2>2. j # 1 => u[j - 1] = s[m - 1]
    <3>1. j # 1 => j - 1 \in DOMAIN u /\ (j - 1) + 1 = m - 1
      BY <1>2, <2>0
    <3> QED
      BY <1>2, <3>1
  <2>3. m + 1 \in DOMAIN s => j + 1 \in DOMAIN u /\ u[j + 1] = s[m + 1]
    <3>1. m + 1 \in DOMAIN s => j + 1 \in DOMAIN u /\ (j + 1) + 1 = m + 1
      BY <1>1, <1>2, <2>0
    <3> QED
      BY <1>2, <3>1
  <2>4. ASSUME Secured(s, m) PROVE Secured(u, j)
    <3>1. CASE m + 1 \in DOMAIN s /\ s[m + 1][1] \in Uses \ {"take"}
      BY <2>3, <3>1 DEF Secured
    <3>2. CASE \A n \in DOMAIN s : m < n => ~Touches(s[n], File(s[m][2]))
      <4>1. \A n \in DOMAIN u : j < n => n + 1 \in DOMAIN s /\ u[n] = s[n + 1] /\ m < n + 1
        BY <1>2, <2>0
      <4> QED
        BY <2>0, <3>2, <4>1 DEF Secured
    <3> QED
      BY <2>4, <3>1, <3>2 DEF Secured
  <2> QED
    BY <2>0, <2>1, <2>2, <2>4
<1>4. \A f : Leaves(s, f) => Leaves(u, f)
  BY <1>2 DEF Leaves
<1> QED
  BY <1>1, <1>3, <1>4 DEF Schedule, u

LEMMA StepTypes ==
  /\ Requests \X Values \subseteq Step
  /\ Pin \in Step /\ Exec \in Step
  /\ \A v \in Values : Get(v) \in Requests \X Values
  /\ \A v \in Instrs : <<"claim", v>> \in Requests \X Values
  /\ \A v \in Homed : v \in Values
  /\ \A v \in Instrs : v \in Values
BY DEF Step, Requests, Pin, Exec, Get, Values, Homed

\* The lists the handlers are made of.
LEMMA OneRequest ==
  ASSUME NEW r \in Requests \X Values
  PROVE  Starts(<<r, Exec>>)
<1>1. <<r, Exec>> \in Seq(Step)
  BY StepTypes
<1> QED
  BY <1>1 DEF Starts, Schedule, Secured, Touches, Exec, Requests, Uses

LEMMA PinnedThen ==
  ASSUME NEW a \in Values, NEW t, Starts(t)
  PROVE  Starts(<<Get(a), Pin>> \o t)
<1>1. Served(<<Get(a), Pin>>)
  <2>1. <<Get(a), Pin>> \in Seq(Step)
    BY StepTypes
  <2> QED
    BY <2>1 DEF Served, Get, Pin, Requests, Uses
<1> QED
  BY <1>1, ServeThen

LEMMA OnePinned ==
  ASSUME NEW a \in Values, NEW r \in Requests \X Values
  PROVE  Starts(<<Get(a), Pin, r, Exec>>)
<1>1. <<Get(a), Pin, r, Exec>> = <<Get(a), Pin>> \o <<r, Exec>>
  OBVIOUS
<1> QED
  BY <1>1, OneRequest, PinnedThen

LEMMA TwoPinned ==
  ASSUME NEW a \in Values, NEW b \in Values, NEW r \in Requests \X Values
  PROVE  Starts(<<Get(a), Pin, Get(b), Pin, r, Exec>>)
<1>1. <<Get(a), Pin, Get(b), Pin, r, Exec>> = <<Get(a), Pin>> \o <<Get(b), Pin, r, Exec>>
  OBVIOUS
<1> QED
  BY <1>1, OnePinned, PinnedThen

\* the register of an operand is safe from a result of the other file
LEMMA OtherFile ==
  ASSUME NEW a \in Values, NEW c \in Instrs, File(a) # File(c)
  PROVE  Starts(<<Get(a), Get(c), Exec>>)
<1>1. <<Get(a), Get(c), Exec>> \in Seq(Step)
  BY StepTypes
<1>2. c \notin Consts
  BY KindsAssumption
<1> QED
  BY <1>1, <1>2 DEF Starts, Schedule, Secured, Touches, Get, Exec, Requests, Uses

LEMMA NothingStarts == Starts(<< >>) /\ Served(<< >>)
BY DEF Starts, Schedule, Served

\* gen_phi and gen_call use every value as soon as it is in a register.
LEMMA InTurnServed ==
  ASSUME NEW ops \in Seq(Values), NEW uses \in Seq(({"phi"} \X Instrs) \cup ({"pass"} \X Nat)),
         Len(uses) = Len(ops)
  PROVE  Served(InTurn(ops, uses))
<1> DEFINE s == InTurn(ops, uses)
<1>0. ASSUME NEW n \in Nat, NEW j \in 1 .. 2 * n
      PROVE  /\ j % 2 = 1 => /\ (j + 1) \div 2 \in 1 .. n
                             /\ j + 1 \in 1 .. 2 * n /\ (j + 1) % 2 # 1
             /\ j % 2 # 1 => j \div 2 \in 1 .. n /\ j # 1 /\ j - 1 \in 1 .. 2 * n /\ (j - 1) % 2 = 1
  OBVIOUS
<1>1. /\ \A j \in 1 .. 2 * Len(ops) : j % 2 = 1 => s[j] = Get(ops[(j + 1) \div 2])
                                                 /\ (j + 1) \div 2 \in 1 .. Len(ops)
                                                 /\ j + 1 \in 1 .. 2 * Len(ops) /\ (j + 1) % 2 # 1
      /\ \A j \in 1 .. 2 * Len(ops) : j % 2 # 1 => s[j] = uses[j \div 2] /\ j \div 2 \in 1 .. Len(uses)
                                                 /\ j # 1 /\ j - 1 \in 1 .. 2 * Len(ops) /\ (j - 1) % 2 = 1
  <2>1. \A j \in 1 .. 2 * Len(ops) : /\ j % 2 = 1 => s[j] = Get(ops[(j + 1) \div 2])
                                     /\ j % 2 # 1 => s[j] = uses[j \div 2]
    BY Zenon DEF InTurn
  <2>2. Len(ops) \in Nat
    OBVIOUS
  <2> HIDE DEF s
  <2> QED
    BY <1>0, <2>1, <2>2
<1>2. \A n \in 1 .. Len(ops) : Get(ops[n]) \in Step /\ Get(ops[n])[1] \in Requests
                               /\ Get(ops[n])[1] \notin Uses /\ Get(ops[n])[1] # "make"
  <2>1. \A n \in 1 .. Len(ops) : ops[n] \in Values
    OBVIOUS
  <2> QED
    BY <2>1, StepTypes DEF Get, Requests, Uses
<1>3. \A n \in 1 .. Len(uses) : uses[n] \in Step /\ uses[n][1] \in Uses \ {"take"}
                                /\ uses[n][1] \notin Requests /\ uses[n][1] # "make"
  <2>1. \A n \in 1 .. Len(uses) : uses[n] \in ({"phi"} \X Instrs) \cup ({"pass"} \X Nat)
    OBVIOUS
  <2> QED
    BY <2>1 DEF Step, Requests, Uses
<1>4. DOMAIN s = 1 .. 2 * Len(ops) /\ 2 * Len(ops) \in Nat
  BY DEF InTurn
<1>5. s = [j \in 1 .. 2 * Len(ops) |-> s[j]]
  BY DEF InTurn
<1> HIDE DEF s
<1>6. \A j \in 1 .. 2 * Len(ops) : s[j] \in Step
  BY <1>1, <1>2, <1>3
<1>7. s \in Seq(Step)
  BY <1>4, <1>5, <1>6
<1>8. ASSUME NEW j \in DOMAIN s
      PROVE  /\ s[j][1] \in Requests => j + 1 \in DOMAIN s /\ s[j + 1][1] \in Uses \ {"take"}
             /\ s[j][1] \in Uses => j # 1 /\ s[j - 1][1] \in Requests
             /\ s[j][1] # "make"
  <2>1. CASE j % 2 = 1
    <3>1. s[j][1] \in Requests /\ s[j][1] \notin Uses /\ s[j][1] # "make" /\ j + 1 \in DOMAIN s
      BY <1>1, <1>2, <1>4, <2>1
    <3>2. s[j + 1][1] \in Uses \ {"take"}
      BY <1>1, <1>3, <1>4, <2>1
    <3> QED
      BY <3>1, <3>2
  <2>2. CASE j % 2 # 1
    <3>1. s[j][1] \notin Requests /\ s[j][1] # "make" /\ j # 1
      BY <1>1, <1>3, <1>4, <2>2
    <3>2. s[j - 1][1] \in Requests
      BY <1>1, <1>2, <1>4, <2>2
    <3> QED
      BY <3>1, <3>2
  <2> QED
    BY <2>1, <2>2
<1> QED
  BY <1>7, <1>8 DEF Served, s

LEMMA PairsTyped ==
  ASSUME CodeTyped, NEW b \in Blocks
  PROVE  PhiPairs(b) \in Seq([op : Values, phi : Instrs])
<1> DEFINE Pair == [op : Values, phi : Instrs]
           of(p) == [j \in DOMAIN p.ops |-> IF p.op = "phi" /\ p.from[j] = b
                                            THEN <<[op |-> p.ops[j], phi |-> p.id]>> ELSE << >>]
           into(s) == [k \in DOMAIN body[s] |-> FlattenSeq(of(body[s][k]))]
           all == [k \in DOMAIN succ[b] |-> FlattenSeq(into(succ[b][k]))]
<1>1. ASSUME NEW i \in Instruction PROVE FlattenSeq(of(i)) \in Seq(Pair)
  <2>1. i.ops \in Seq(Values) /\ i.id \in Instrs
    BY DEF Instruction
  <2>2. ASSUME NEW j \in DOMAIN i.ops
        PROVE  (IF i.op = "phi" /\ i.from[j] = b THEN <<[op |-> i.ops[j], phi |-> i.id]>> ELSE << >>) \in Seq(Pair)
    <3>1. i.ops[j] \in Values
      BY <2>1, <2>2, ElementOf
    <3>2. [op |-> i.ops[j], phi |-> i.id] \in Pair
      BY <2>1, <3>1
    <3> HIDE DEF Pair
    <3> QED
      BY <3>2
  <2>3. of(i) \in [DOMAIN i.ops -> Seq(Pair)]
    BY <2>2
  <2> HIDE DEF of, Pair
  <2>4. of(i) \in Seq(Seq(Pair))
    BY <2>1, <2>3, AlongSequence
  <2> QED
    BY <2>4, FlattenType
<1> HIDE DEF of, Pair
<1>2. ASSUME NEW s \in Blocks PROVE FlattenSeq(into(s)) \in Seq(Pair)
  <2>1. body[s] \in Seq(Instruction)
    BY DEF CodeTyped
  <2>2. into(s) \in [DOMAIN body[s] -> Seq(Pair)]
    BY <1>1, <2>1, ElementOf
  <2> HIDE DEF into
  <2>3. into(s) \in Seq(Seq(Pair))
    BY <2>1, <2>2, AlongSequence
  <2> QED
    BY <2>3, FlattenType
<1> HIDE DEF into
<1>3. all \in Seq(Seq(Pair))
  <2>1. succ[b] \in Seq(Blocks)
    BY DEF CodeTyped
  <2>2. all \in [DOMAIN succ[b] -> Seq(Pair)]
    BY <1>2, <2>1, ElementOf
  <2> HIDE DEF all
  <2> QED
    BY <2>1, <2>2, AlongSequence
<1>4. PhiPairs(b) = FlattenSeq(all)
  BY DEF PhiPairs, into, of
<1> HIDE DEF all
<1>5. FlattenSeq(all) \in Seq(Pair)
  BY <1>3, FlattenType
<1> QED
  BY <1>4, <1>5 DEF Pair

LEMMA PhiCopiesServed ==
  ASSUME CodeTyped, NEW b \in Blocks
  PROVE  Served(PhiCopies(b))
<1> DEFINE pairs == PhiPairs(b)
           ops   == [j \in DOMAIN pairs |-> pairs[j].op]
           uses  == [j \in DOMAIN pairs |-> <<"phi", pairs[j].phi>>]
<1>1. pairs \in Seq([op : Values, phi : Instrs])
  BY PairsTyped
<1>2. PhiCopies(b) = InTurn(ops, uses)
  BY DEF PhiCopies
<1> HIDE DEF pairs
<1>3. /\ ops \in Seq(Values) /\ uses \in Seq(({"phi"} \X Instrs) \cup ({"pass"} \X Nat))
      /\ Len(uses) = Len(ops)
  <2> DEFINE Use == ({"phi"} \X Instrs) \cup ({"pass"} \X Nat)
  <2>1. ASSUME NEW j \in DOMAIN pairs PROVE pairs[j].op \in Values /\ <<"phi", pairs[j].phi>> \in Use
    <3>1. pairs[j] \in [op : Values, phi : Instrs]
      BY <1>1, ElementOf
    <3> QED
      BY <3>1
  <2>2. ops \in [DOMAIN pairs -> Values] /\ uses \in [DOMAIN pairs -> Use]
    BY <2>1
  <2> HIDE DEF ops, uses, Use
  <2>3. ops \in Seq(Values) /\ Len(ops) = Len(pairs) /\ uses \in Seq(Use) /\ Len(uses) = Len(pairs)
    BY <1>1, <2>2, AlongSequence
  <2> QED
    BY <2>3 DEF Use
<1> HIDE DEF ops, uses
<1> QED
  BY <1>2, <1>3, InTurnServed

LEMMA PassArgsServed ==
  ASSUME NEW args \in Seq(Values)
  PROVE  Served(PassArgs(args))
<1> DEFINE uses == [j \in DOMAIN args |-> <<"pass", j>>]
<1>1. /\ uses \in Seq(({"phi"} \X Instrs) \cup ({"pass"} \X Nat))
      /\ Len(uses) = Len(args)
  OBVIOUS
<1>2. PassArgs(args) = InTurn(args, uses)
  BY DEF PassArgs
<1> HIDE DEF uses
<1> QED
  BY <1>1, <1>2, InTurnServed

\* steps that ask for nothing
LEMMA QuietServed ==
  ASSUME NEW s \in Seq({"exec", "savelive", "saveall", "reloadall"} \X {Null})
  PROVE  Served(s) /\ Starts(s)
<1>1. s \in Seq(Step)
  BY DEF Step
<1>2. \A j \in DOMAIN s : s[j][1] \notin Requests /\ s[j][1] \notin Uses /\ s[j][1] # "make"
  BY DEF Requests, Uses
<1> QED
  BY <1>1, <1>2 DEF Served, Starts, Schedule

LEMMA AtMostOne ==
  ASSUME NEW ops \in Seq(Values), Len(ops) <= 1
  PROVE  \/ Gets(ops) = << >>
         \/ \E v \in Values : Gets(ops) = <<Get(v)>>
<1>1. CASE Len(ops) = 0
  BY <1>1 DEF Gets
<1>2. CASE Len(ops) = 1
  <2>1. DOMAIN ops = {1} /\ ops[1] \in Values
    BY <1>2
  <2>2. Gets(ops) = [j \in {1} |-> Get(ops[1])]
    BY <2>1 DEF Gets
  <2>3. Gets(ops) = <<Get(ops[1])>>
    BY <2>2
  <2> QED
    BY <2>1, <2>3
<1>3. Len(ops) \in Nat
  OBVIOUS
<1> QED
  BY <1>1, <1>2, <1>3

LEMMA PairOf ==
  ASSUME NEW x, NEW y
  PROVE  <<x>> \o <<y>> = <<x, y>>
<1> DEFINE s == <<x>>
           t == <<y>>
           u == <<x, y>>
<1>1. Len(s) = 1 /\ Len(t) = 1 /\ s[1] = x /\ t[1] = y /\ u[1] = x /\ u[2] = y /\ Len(u) = 2
  OBVIOUS
<1>2. s \in Seq({x, y}) /\ t \in Seq({x, y}) /\ u \in Seq({x, y})
  OBVIOUS
<1> HIDE DEF s, t, u
<1>3. s \o t \in Seq({x, y}) /\ Len(s \o t) = 2
  BY <1>1, <1>2
<1>4. (s \o t)[1] = x
  BY <1>1, <1>2
<1>5. (s \o t)[2] = y
  <2>1. \A i \in 1 .. Len(s) + Len(t) :
          (s \o t)[i] = IF i <= Len(s) THEN s[i] ELSE t[i - Len(s)]
    BY <1>2, ConcatProperties
  <2>2. 2 \in 1 .. Len(s) + Len(t) /\ ~(2 <= Len(s)) /\ 2 - Len(s) = 1
    BY <1>1
  <2> QED
    BY <1>1, <2>1, <2>2
<1>6. s \o t = u
  BY <1>1, <1>2, <1>3, <1>4, <1>5
<1> QED
  BY <1>6 DEF s, t, u

LEMMA LastAsked ==
  ASSUME NEW ops \in Seq(Values), Len(ops) <= 1
  PROVE  Gets(ops) \in Seq(Step) /\ Starts(Gets(ops) \o <<Exec>>)
<1>1. CASE Gets(ops) = << >>
  <2>1. << >> \o <<Exec>> = <<Exec>>
    OBVIOUS
  <2>2. <<Exec>> \in Seq({"exec", "savelive", "saveall", "reloadall"} \X {Null})
    BY DEF Exec
  <2> QED
    BY <1>1, <2>1, <2>2, QuietServed
<1>2. CASE \E v \in Values : Gets(ops) = <<Get(v)>>
  <2>1. PICK v \in Values : Gets(ops) = <<Get(v)>>
    BY <1>2
  <2>2. <<Get(v)>> \o <<Exec>> = <<Get(v), Exec>>
    BY PairOf
  <2>3. Get(v) \in Requests \X Values /\ Get(v) \in Step
    BY StepTypes
  <2>4. <<Get(v)>> \in Seq(Step)
    BY <2>3
  <2>5. Starts(<<Get(v), Exec>>)
    BY <2>3, OneRequest
  <2> QED
    BY <2>1, <2>2, <2>4, <2>5
<1> QED
  BY <1>1, <1>2, AtMostOne

LEMMA BrStarts ==
  ASSUME CodeTyped, BB \in Blocks, NEW i \in Instruction, i.op = "br"
  PROVE  Starts(GenBr(i))
<1>1. i.ops \in Seq(Values) /\ Len(i.ops) <= 1
  BY DEF Instruction, Constructed
<1> DEFINE copies == PhiCopies(BB)
           save   == << <<"savelive", Null>> >>
           asks   == Gets(i.ops)
<1>2. Served(copies)
  BY PhiCopiesServed
<1>3. Served(save)
  <2>1. save \in Seq({"exec", "savelive", "saveall", "reloadall"} \X {Null})
    OBVIOUS
  <2> HIDE DEF save
  <2> QED
    BY <2>1, QuietServed
<1>4. Served(copies \o save)
  BY <1>2, <1>3, ServedConcat
<1>5. asks \in Seq(Step) /\ Starts(asks \o <<Exec>>)
  BY <1>1, LastAsked
<1>7. <<Exec>> \in Seq(Step) /\ copies \o save \in Seq(Step)
  BY <1>4, StepTypes DEF Served
<1>8. GenBr(i) = (copies \o save) \o asks \o <<Exec>>
  BY DEF GenBr
<1> HIDE DEF copies, save, asks
<1>9. Starts((copies \o save) \o (asks \o <<Exec>>))
  BY <1>4, <1>5, ServeThen
<1> QED
  <2> DEFINE quiet == copies \o save
  <2>1. quiet \in Seq(Step) /\ GenBr(i) = (quiet \o asks) \o <<Exec>> /\ Starts(quiet \o (asks \o <<Exec>>))
    BY <1>7, <1>8, <1>9
  <2> HIDE DEF quiet
  <2>2. (quiet \o asks) \o <<Exec>> = quiet \o (asks \o <<Exec>>)
    <3> DEFINE exec == <<Exec>>
    <3>1. exec \in Seq(Step)
      BY <1>7
    <3> HIDE DEF exec, Step
    <3>2. (quiet \o asks) \o exec = quiet \o (asks \o exec)
      BY <1>5, <2>1, <3>1, ConcatAssociative
    <3> QED
      BY <3>2 DEF exec
  <2> QED
    BY <2>1, <2>2

LEMMA CallStarts ==
  ASSUME NEW i \in Instruction
  PROVE  Starts(GenCall(i))
<1>1. i.ops \in Seq(Values) /\ i.id \in Instrs
  BY DEF Instruction
<1> DEFINE save   == << <<"saveall", Null>> >>
           area   == IF Len(i.ops) <= ArgRegs THEN << >> ELSE <<Get(Zero), Pin>>
           pass   == PassArgs(i.ops)
           call   == <<Exec, <<"reloadall", Null>> >>
           result == IF IsVoid(i) THEN << >> ELSE <<Get(i.id), <<"take", Null>> >>
<1>2. Served(save) /\ Served(call)
  <2>1. /\ save \in Seq({"exec", "savelive", "saveall", "reloadall"} \X {Null})
        /\ call \in Seq({"exec", "savelive", "saveall", "reloadall"} \X {Null})
    BY DEF Exec
  <2> HIDE DEF save, call
  <2> QED
    BY <2>1, QuietServed
<1>3. Served(area)
  <2>1. Zero \in Values
    BY KindsAssumption DEF Values
  <2>2. <<Get(Zero), Pin>> \in Seq(Step)
    BY <2>1, StepTypes
  <2>3. Served(<<Get(Zero), Pin>>)
    BY <2>2 DEF Served, Get, Pin, Requests, Uses
  <2> QED
    BY <2>3, NothingStarts
<1>4. Served(pass)
  BY <1>1, PassArgsServed
<1>5. Starts(result)
  <2>1. <<Get(i.id), <<"take", Null>> >> \in Seq(Step)
    BY <1>1, StepTypes DEF Step
  <2>2. Starts(<<Get(i.id), <<"take", Null>> >>)
    BY <2>1 DEF Starts, Schedule, Secured, Touches, Get, Requests, Uses
  <2> QED
    BY <2>2, NothingStarts
<1>6. GenCall(i) = (((save \o area) \o pass) \o call) \o result
  BY DEF GenCall
<1> HIDE DEF save, area, pass, call, result
<1>7. Served(save \o area)
  BY <1>2, <1>3, ServedConcat
<1>8. Served((save \o area) \o pass)
  BY <1>4, <1>7, ServedConcat
<1>9. Served(((save \o area) \o pass) \o call)
  BY <1>2, <1>8, ServedConcat
<1> QED
  BY <1>5, <1>6, <1>9, ServeThen

\* The steps of every handler are a schedule.
LEMMA StepsStart ==
  ASSUME CodeTyped, BB \in Blocks, NEW i \in Instruction
  PROVE  Starts(Steps(i))
<1>1. /\ i.ops \in Seq(Values) /\ i.id \in Instrs /\ i.op \in Opcodes /\ Constructed(i)
      /\ \A j \in 1 .. Len(i.ops) : i.ops[j] \in Values
  BY DEF Instruction
<1>2. /\ Get(i.id) \in Requests \X Values /\ <<"claim", i.id>> \in Requests \X Values
      /\ \A v \in Values : Get(v) \in Requests \X Values
  BY <1>1, StepTypes
<1>3. CASE i.op = "ret"
  <2>1. Steps(i) = GenRet(i)
    BY <1>3 DEF Steps
  <2>2. Len(i.ops) <= 1
    BY <1>1, <1>3 DEF Constructed
  <2> QED
    BY <1>1, <2>1, <2>2, LastAsked DEF GenRet
<1>4. CASE i.op = "br"
  <2>1. Steps(i) = GenBr(i)
    BY <1>4 DEF Steps
  <2> QED
    BY <1>4, <2>1, BrStarts
<1>5. CASE i.op \in {"binary", "icmp"}
  <2>1. i.ops[1] \in Values /\ i.ops[2] \in Values
    BY <1>1, <1>5 DEF Constructed
  <2>2. PICK r \in Requests \X Values : Steps(i) = <<Get(i.ops[1]), Pin, Get(i.ops[2]), Pin, r, Exec>>
    <3>1. CASE i.op = "binary" /\ i.id \in Floats
      BY <1>2, <3>1 DEF Steps, GenFloatBinary
    <3>2. CASE ~(i.op = "binary" /\ i.id \in Floats)
      BY <1>2, <1>5, <3>2 DEF Steps, GenBinary, GenIcmp
    <3> QED
      BY <3>1, <3>2
  <2> QED
    BY <2>1, <2>2, TwoPinned
<1>6. CASE i.op = "fcmp"
  <2>1. i.ops[1] \in Values /\ i.ops[2] \in Values /\ i.ops[2] \in Floats /\ i.id \notin Floats
    BY <1>1, <1>6 DEF Constructed
  <2>2. Steps(i) = <<Get(i.ops[1]), Pin>> \o <<Get(i.ops[2]), Get(i.id), Exec>>
    BY <1>6 DEF Steps, GenFcmp
  <2>3. File(i.ops[2]) # File(i.id)
    BY <2>1 DEF File
  <2>4. Starts(<<Get(i.ops[2]), Get(i.id), Exec>>)
    BY <1>1, <2>1, <2>3, OtherFile
  <2> QED
    BY <2>1, <2>2, <2>4, PinnedThen
<1>7. CASE i.op = "alloca"
  <2>1. Steps(i) = <<Get(i.id), Exec>>
    BY <1>7 DEF Steps, GenAlloca
  <2> QED
    BY <1>2, <2>1, OneRequest
<1>8. CASE i.op \in {"load", "zext"}
  <2>1. i.ops[1] \in Values
    BY <1>1, <1>8 DEF Constructed
  <2>2. Steps(i) = <<Get(i.ops[1]), Pin, Get(i.id), Exec>>
    BY <1>8 DEF Steps, GenLoad, GenZext
  <2> QED
    BY <1>2, <2>1, <2>2, OnePinned
<1>9. CASE i.op = "store"
  <2>1. i.ops[1] \in Values /\ i.ops[2] \in Values
    BY <1>1, <1>9 DEF Constructed
  <2>2. Steps(i) = <<Get(i.ops[2]), Pin, Get(i.ops[1]), Exec>>
    BY <1>9 DEF Steps, GenStore
  <2> QED
    BY <1>2, <2>1, <2>2, OnePinned
<1>10. CASE i.op \in {"sitofp", "fptosi"}
  <2>1. i.ops[1] \in Values /\ File(i.ops[1]) # File(i.id)
    BY <1>1, <1>10 DEF Constructed, File
  <2>2. Steps(i) = <<Get(i.ops[1]), Get(i.id), Exec>>
    BY <1>10 DEF Steps, GenConvert
  <2> QED
    BY <1>1, <2>1, <2>2, OtherFile
<1>11. CASE i.op = "gep"
  <2>1. i.ops[1] \in Values /\ Last(i.ops) \in Values
    BY <1>1, <1>11 DEF Constructed, Last
  <2>2. Steps(i) = <<Get(i.id), Pin, Get(i.ops[1]), Pin, Get(Last(i.ops)), Exec>>
    BY <1>11 DEF Steps, GenGep
  <2>3. i.id \in Values
    BY <1>1, StepTypes
  <2> QED
    BY <1>2, <2>1, <2>2, <2>3, TwoPinned
<1>12. CASE i.op \in {"call", "voidcall"}
  <2>1. Steps(i) = GenCall(i)
    BY <1>12 DEF Steps
  <2> QED
    BY <2>1, CallStarts
<1>13. CASE i.op = "phi"
  <2>1. Steps(i) = << >>
    BY <1>13 DEF Steps
  <2> QED
    BY <2>1, NothingStarts
<1> QED
  BY <1>1, <1>3, <1>4, <1>5, <1>6, <1>7, <1>8, <1>9, <1>10, <1>11, <1>12, <1>13 DEF Opcodes

-----------------------------------------------------------------------------
\* The maps have an entry for every register and for every value that can be in one.
CacheShape ==
  /\ DOMAIN reg_map = Files
  /\ \A f \in Files : DOMAIN reg_map[f] = Regs(f)
  /\ DOMAIN value_reg = Homed
  /\ \A v \in Homed : value_reg[v] # None => value_reg[v] \in Regs(File(v))

CacheInv == CacheShape /\ HitsBacked

\* A refresh of a register of the file of the value keeps the maps in agreement: the
\* value the register held loses it, and no other value was recorded there.
LEMMA RefreshKeeps ==
  ASSUME CacheInv, NEW v, NEW k \in Regs(File(v)), Refresh(File(v), k, v)
  PROVE  CacheInv'
<1> DEFINE f == File(v)
<1>1. f \in Files
  BY DEF File, Files
<1>2. CacheShape'
  <2>1. DOMAIN reg_map' = Files
    BY <1>1 DEF Refresh, CacheInv, CacheShape
  <2>2. \A h \in Files : DOMAIN reg_map'[h] = Regs(h)
    BY <1>1 DEF Refresh, CacheInv, CacheShape
  <2>3. DOMAIN value_reg' = Homed
    BY DEF Refresh
  <2>4. ASSUME NEW u \in Homed, value_reg'[u] # None PROVE value_reg'[u] \in Regs(File(u))
    <3>1. (value_reg'[u] = k /\ u = v) \/ value_reg'[u] = value_reg[u]
      BY <2>4 DEF Refresh
    <3> QED
      BY <2>4, <3>1 DEF CacheInv, CacheShape
  <2> QED
    BY <2>1, <2>2, <2>3, <2>4 DEF CacheShape, Homed
<1>3. HitsBacked'
  <2> SUFFICES ASSUME NEW u \in Homed, value_reg'[u] # None
               PROVE  reg_map'[File(u)][value_reg'[u]] = u
    BY DEF HitsBacked, Homed
  <2>1. u # reg_map[f][k]
    BY DEF Refresh
  <2>2. CASE u = v
    <3>1. value_reg'[u] = k
      BY <2>1, <2>2 DEF Refresh
    <3>2. reg_map'[f][k] = v
      BY <1>1 DEF Refresh, CacheInv, CacheShape
    <3> QED
      BY <2>2, <3>1, <3>2
  <2>3. CASE u # v
    <3>1. value_reg'[u] = value_reg[u]
      BY <2>1, <2>3 DEF Refresh
    <3>2. reg_map[File(u)][value_reg[u]] = u
      BY <3>1 DEF CacheInv, HitsBacked
    <3>3. <<File(u), value_reg[u]>> # <<f, k>>
      BY <2>1, <3>2
    <3>4. reg_map'[File(u)][value_reg[u]] = reg_map[File(u)][value_reg[u]]
      BY <1>1, <3>3 DEF Refresh, CacheInv, CacheShape
    <3> QED
      BY <3>1, <3>2, <3>4
  <2> QED
    BY <2>2, <2>3
<1> QED
  BY <1>2, <1>3 DEF CacheInv

\* What a refresh does to the registers.
LEMMA RefreshOne ==
  ASSUME CacheInv, NEW f \in Files, NEW k \in Regs(f), NEW v, Refresh(f, k, v)
  PROVE  /\ reg_map'[f][k] = v
         /\ \A r \in Registers : r # <<f, k>> => reg_map'[r[1]][r[2]] = reg_map[r[1]][r[2]]
<1>1. reg_map'[f][k] = v
  BY DEF Refresh, CacheInv, CacheShape
<1>2. ASSUME NEW r \in Registers, r # <<f, k>> PROVE reg_map'[r[1]][r[2]] = reg_map[r[1]][r[2]]
  <2>1. PICK h \in Files : r \in {h} \X Regs(h)
    BY <1>2 DEF Registers
  <2>2. r[1] = h /\ r[2] \in Regs(h) /\ (h # f \/ r[2] # k)
    BY <1>2, <2>1
  <2> QED
    BY <2>2 DEF Refresh, CacheInv, CacheShape
<1> QED
  BY <1>1, <1>2

LEMMA CacheUnchanged == CacheInv /\ UNCHANGED cache => CacheInv'
BY DEF CacheInv, CacheShape, HitsBacked, cache

LEMMA VictimIsRegister == \A f : \A k \in Victim(f) : k \in Regs(f)
BY DEF Victim

\* A pinned register that holds something is taken by no request.
LEMMA VictimNotPinned ==
  ASSUME NEW f, NEW k \in Victim(f), \A r \in pins : HeldIn(r) # Null
  PROVE  <<f, k>> \notin pins
<1>1. PICK n \in 1 .. 4 : k \in Tiers(f)[n]
  BY DEF Victim
<1>2. CASE n = 1
  <2>1. reg_map[f][k] = Null
    BY <1>1, <1>2 DEF Tiers
  <2> QED
    BY <2>1 DEF HeldIn
<1>3. CASE n # 1
  <2>1. k \in Loose(f)
    <3>1. n = 2 \/ n = 3 \/ n = 4
      BY <1>3
    <3> QED
      BY <1>1, <3>1 DEF Tiers
  <2> QED
    BY <2>1 DEF Loose
<1> QED
  BY <1>2, <1>3

\* Only a request that misses, and the scratch register of a float constant, change
\* the cache.
LEMMA QuietSteps ==
  ASSUME [Next]_allocVars, ~Miss, ~Make
  PROVE  UNCHANGED cache
<1>1. CASE RunLiveVar \/ Number
  BY <1>1 DEF RunLiveVar, Number, StartNumbers, NumberInstr, Descend, Return, cache
<1>2. CASE NextBlock \/ EnterBlock \/ NextInstr
  BY <1>2 DEF NextBlock, EnterBlock, NextInstr, Emit, cache
<1>3. CASE Hit \/ PinLast \/ Pass \/ PhiCopy
  BY <1>3 DEF Hit, PinLast, Pass, PhiCopy, Emit, cache
<1>4. CASE SaveLive \/ SaveAll \/ ReloadAll \/ Take \/ Execute
  BY <1>4 DEF SaveLive, SaveAll, ReloadAll, Take, Execute, Emit, cache
<1>5. CASE UNCHANGED allocVars
  BY <1>5 DEF allocVars
<1> QED
  BY <1>1, <1>2, <1>3, <1>4, <1>5 DEF Next, Handle

LEMMA CacheStep == CacheInv /\ [Next]_allocVars => CacheInv'
<1> SUFFICES ASSUME CacheInv, [Next]_allocVars PROVE CacheInv'
  OBVIOUS
<1>1. CASE Miss
  <2>1. PICK v \in {Operand} : \E f \in {File(v)} : \E k \in Victim(f) : Refresh(f, k, v)
    BY <1>1 DEF Miss
  <2>2. PICK k \in Victim(File(v)) : Refresh(File(v), k, v)
    BY <2>1
  <2> QED
    BY <2>2, VictimIsRegister, RefreshKeeps
<1>2. CASE Make
  <2>1. File(Zero) = "g"
    BY KindsAssumption DEF File
  <2>2. PICK k \in Victim("g") : Refresh("g", k, Zero)
    BY <1>2 DEF Make
  <2> QED
    BY <2>1, <2>2, VictimIsRegister, RefreshKeeps
<1>3. CASE ~Miss /\ ~Make
  BY <1>3, QuietSteps, CacheUnchanged
<1> QED
  BY <1>1, <1>2, <1>3

\* No request for a register takes a pinned one.
LEMMA PinsStep ==
  ASSUME CacheInv, HandlerInv, [Next]_allocVars
  PROVE  \A r \in pins : reg_map'[r[1]][r[2]] = reg_map[r[1]][r[2]]
<1>1. \A r \in pins : r \in Registers /\ HeldIn(r) # Null
  BY DEF HandlerInv
<1>2. CASE Miss
  <2>1. PICK v \in {Operand} : \E f \in {File(v)} : \E k \in Victim(f) : Refresh(f, k, v)
    BY <1>2 DEF Miss
  <2>2. PICK k \in Victim(File(v)) : Refresh(File(v), k, v)
    BY <2>1
  <2>3. File(v) \in Files
    BY DEF File, Files
  <2> QED
    BY <1>1, <2>2, <2>3, VictimIsRegister, VictimNotPinned, RefreshOne
<1>3. CASE Make
  <2>1. "g" \in Files
    BY DEF Files
  <2>2. PICK k \in Victim("g") : Refresh("g", k, Zero)
    BY <1>3 DEF Make
  <2> QED
    BY <1>1, <2>1, <2>2, VictimIsRegister, VictimNotPinned, RefreshOne
<1>4. CASE ~Miss /\ ~Make
  BY <1>4, QuietSteps DEF cache
<1> QED
  BY <1>2, <1>3, <1>4

-----------------------------------------------------------------------------
\* What is left after a step that obtains a register or needs none.
LEMMA StepsAhead ==
  ASSUME Schedule(todo), todo # << >>, todo' = Tail(todo)
  PROVE  /\ Schedule(todo')
         /\ \A f : Leaves(todo, f) => Leaves(todo', f)
         /\ todo' # << >> => /\ todo'[1] = todo[2] /\ 2 \in DOMAIN todo
                             /\ todo'[1][1] # "make"
                             /\ todo'[1][1] \in Uses => todo[1][1] \in Requests \cup {"make"}
<1>1. todo \in Seq(Step) /\ todo' \in Seq(Step) /\ Len(todo') = Len(todo) - 1 /\ Head(todo) = todo[1]
  BY DEF Schedule
<1>2. todo' # << >> => todo'[1] = todo[2] /\ 2 \in DOMAIN todo
  BY <1>1
<1>3. 2 \in DOMAIN todo => todo[2][1] # "make" /\ (todo[2][1] \in Uses => todo[2 - 1][1] \in Requests \cup {"make"})
  BY DEF Schedule
<1>4. 2 - 1 = 1
  OBVIOUS
<1> QED
  BY <1>2, <1>3, <1>4, ScheduleTail

LEMMA HeadIsFirst ==
  Schedule(todo) /\ todo # << >> =>
    Head(todo) = todo[1] /\ 1 \in DOMAIN todo /\ todo[1] \in Step
BY DEF Schedule

\* A step that asks for no register and uses none leaves the handler as it should be.
LEMMA OtherStep ==
  ASSUME HandlerInv, todo # << >>, todo' = Tail(todo), UNCHANGED <<reg_map, pins, got>>,
         todo[1][1] \notin Requests \cup {"make", "pin", "pass", "phi"}
  PROVE  HandlerInv'
<1>1. /\ Schedule(todo) /\ got \in Seq(Obtained)
      /\ \A n \in DOMAIN got : HeldIn(got[n][1]) = got[n][2] /\ GotSafe(n)
      /\ \A r \in pins : r \in Registers /\ HeldIn(r) # Null
  BY DEF HandlerInv
<1>2. /\ Schedule(todo') /\ \A f : Leaves(todo, f) => Leaves(todo', f)
      /\ todo' # << >> => todo'[1][1] \notin Uses \cup {"make"}
  BY <1>1, StepsAhead
<1>3. ~UsedNext
  BY DEF UsedNext, Uses
<1>4. \A n \in DOMAIN got : got[n][1] \in pins \/ Leaves(todo', got[n][1][1])
  BY <1>1, <1>2, <1>3 DEF GotSafe
<1> QED
  BY <1>1, <1>2, <1>4 DEF HandlerInv, HeldIn, GotSafe

\* The register obtained last is pinned with what it holds.
LEMMA PinStep ==
  ASSUME HandlerInv, PinLast
  PROVE  HandlerInv'
<1>1. /\ Schedule(todo) /\ got \in Seq(Obtained)
      /\ \A n \in DOMAIN got : HeldIn(got[n][1]) = got[n][2] /\ GotSafe(n)
      /\ \A r \in pins : r \in Registers /\ HeldIn(r) # Null
  BY DEF HandlerInv
<1>2. /\ todo # << >> /\ todo' = Tail(todo) /\ todo[1][1] = "pin"
      /\ pins' = pins \cup {Last(got)[1]} /\ reg_map' = reg_map /\ got' = got
  BY <1>1, HeadIsFirst DEF PinLast, Done, Waiting, cache
<1>3. got # << >>
  BY <1>2 DEF HandlerInv, Uses
<1>4. Len(got) \in DOMAIN got /\ Last(got) = got[Len(got)] /\ got[Len(got)] \in Obtained
  BY <1>1, <1>3 DEF Last
<1>5. /\ Schedule(todo') /\ \A f : Leaves(todo, f) => Leaves(todo', f)
      /\ todo' # << >> => todo'[1][1] \notin Uses \cup {"make"}
  BY <1>1, <1>2, StepsAhead DEF Requests
<1>6. \A n \in DOMAIN got : got[n][1] \in pins' \/ Leaves(todo', got[n][1][1])
  BY <1>1, <1>2, <1>4, <1>5 DEF GotSafe
<1>7. Last(got)[1] \in Registers /\ HeldIn(Last(got)[1]) # Null
  <2>1. Last(got)[1] \in Registers /\ Last(got)[2] \in Values
    BY <1>4 DEF Obtained
  <2>2. Null \notin Values
    BY KindsAssumption DEF Values, Homed
  <2> QED
    BY <1>1, <1>4, <2>1, <2>2
<1> QED
  BY <1>1, <1>2, <1>5, <1>6, <1>7 DEF HandlerInv, HeldIn, GotSafe

\* The register used is not kept.
LEMMA UseStep ==
  ASSUME HandlerInv, Pass \/ PhiCopy
  PROVE  HandlerInv'
<1>1. /\ Schedule(todo) /\ got \in Seq(Obtained)
      /\ \A n \in DOMAIN got : HeldIn(got[n][1]) = got[n][2] /\ GotSafe(n)
      /\ \A r \in pins : r \in Registers /\ HeldIn(r) # Null
  BY DEF HandlerInv
<1>2. /\ todo # << >> /\ todo' = Tail(todo) /\ todo[1][1] \in {"pass", "phi"}
      /\ pins' = pins /\ reg_map' = reg_map /\ got' = Front(got)
  BY <1>1, HeadIsFirst DEF Pass, PhiCopy, Emit, Done, Waiting, cache
<1>3. got # << >>
  BY <1>2 DEF HandlerInv, Uses
<1>4. /\ got' \in Seq(Obtained) /\ Len(got') = Len(got) - 1
      /\ \A n \in DOMAIN got' : n \in DOMAIN got /\ got'[n] = got[n] /\ n # Len(got)
  <2> DEFINE n == Len(got) - 1
  <2>1. n \in Nat /\ n < Len(got) /\ \A m \in 1 .. n : got[m] \in Obtained /\ m \in DOMAIN got
    BY <1>1, <1>3
  <2>2. got' = SubSeq(got, 1, n)
    BY <1>2 DEF Front
  <2> HIDE DEF n
  <2>3. got' \in Seq(Obtained) /\ Len(got') = n /\ \A m \in 1 .. n : got'[m] = got[m]
    BY <2>1, <2>2, SubSeqProperties
  <2> QED
    BY <2>1, <2>3 DEF n
<1>5. /\ Schedule(todo') /\ \A f : Leaves(todo, f) => Leaves(todo', f)
      /\ todo' # << >> => todo'[1][1] \notin Uses \cup {"make"}
  BY <1>1, <1>2, StepsAhead DEF Requests
<1>6. \A n \in DOMAIN got' : got'[n][1] \in pins' \/ Leaves(todo', got'[n][1][1])
  BY <1>1, <1>2, <1>4, <1>5 DEF GotSafe
<1>7. \A n \in DOMAIN got' : reg_map'[got'[n][1][1]][got'[n][1][2]] = got'[n][2]
  BY <1>1, <1>2, <1>4 DEF HeldIn
<1> QED
  BY <1>1, <1>2, <1>4, <1>5, <1>6, <1>7 DEF HandlerInv, HeldIn, GotSafe

\* The handler of the next instruction starts afresh.
LEMMA FreshStep ==
  ASSUME Schedule(todo'), got' = << >>, pins' = {},
         todo' # << >> => todo'[1][1] \notin Uses \cup {"make"}
  PROVE  HandlerInv'
BY DEF HandlerInv

\* An operand or a result that comes with no register lost: the request is in todo
\* first, what comes after it is all that is left.
LEMMA HitStep ==
  ASSUME CacheInv, HandlerInv, Hit
  PROVE  HandlerInv'
<1> DEFINE v == Operand
           g == <<<<File(v), value_reg[v]>>, v>>
<1>1. /\ Schedule(todo) /\ got \in Seq(Obtained)
      /\ \A n \in DOMAIN got : HeldIn(got[n][1]) = got[n][2] /\ GotSafe(n)
      /\ \A r \in pins : r \in Registers /\ HeldIn(r) # Null
  BY DEF HandlerInv
<1>2. /\ todo # << >> /\ todo' = Tail(todo) /\ todo[1][1] = "get" /\ v = todo[1][2] /\ v \in InRegister
      /\ pins' = pins /\ reg_map' = reg_map /\ got' = Append(got, g)
  BY <1>1, HeadIsFirst DEF Hit, Waiting, cache, Operand
<1>3. v \in Homed /\ value_reg[v] \in Regs(File(v)) /\ reg_map[File(v)][value_reg[v]] = v
  BY <1>2 DEF InRegister, CacheInv, CacheShape, HitsBacked
<1>4. g \in Obtained
  <2>1. File(v) \in Files /\ v \in Values
    BY <1>3 DEF File, Files, Values
  <2>2. <<File(v), value_reg[v]>> \in Registers
    BY <1>3, <2>1 DEF Registers
  <2> QED
    BY <2>1, <2>2 DEF Obtained
<1>5. /\ Schedule(todo') /\ \A f : Leaves(todo, f) => Leaves(todo', f)
      /\ todo' # << >> => todo'[1][1] # "make" /\ todo'[1] = todo[2] /\ 2 \in DOMAIN todo
  BY <1>1, <1>2, StepsAhead
<1> HIDE DEF g
<1>6. /\ got' \in Seq(Obtained) /\ Len(got') = Len(got) + 1 /\ Len(got) \in Nat /\ got'[Len(got')] = g
      /\ \A n \in DOMAIN got' : n # Len(got') => n \in DOMAIN got /\ got'[n] = got[n]
  BY <1>1, <1>2, <1>4
<1>7. \A n \in DOMAIN got : got[n][1] \in pins \/ Leaves(todo', got[n][1][1])
  BY <1>1, <1>2, <1>5 DEF GotSafe, UsedNext, Uses
<1>8. \/ todo' # << >> /\ todo'[1][1] \in Uses \ {"take"}
      \/ Leaves(todo', File(v))
  <2>1. Secured(todo, 1)
    BY <1>1, <1>2, HeadIsFirst DEF Schedule, Requests
  <2>2. todo \in Seq(Step) /\ DOMAIN todo = 1 .. Len(todo)
    BY <1>1 DEF Schedule
  <2>3. CASE 2 \in DOMAIN todo /\ todo[2][1] \in Uses \ {"take"}
    <3>1. todo' # << >>
      BY <1>2, <2>2, <2>3
    <3> QED
      BY <1>5, <2>3, <3>1
  <2>4. CASE \A m \in DOMAIN todo : 1 < m => ~Touches(todo[m], File(v))
    <3>1. \A m \in DOMAIN todo' : m + 1 \in DOMAIN todo /\ 1 < m + 1 /\ todo'[m] = todo[m + 1]
      BY <1>2, <2>2
    <3> QED
      BY <2>4, <3>1 DEF Leaves
  <2> QED
    BY <1>2, <2>1, <2>3, <2>4 DEF Secured
<1>9. g[1] = <<File(v), value_reg[v]>> /\ g[2] = v /\ g[1][1] = File(v)
  BY DEF g
<1>10. \A n \in DOMAIN got' : GotSafe(n)'
  <2> SUFFICES ASSUME NEW n \in DOMAIN got' PROVE GotSafe(n)'
    OBVIOUS
  <2>1. CASE n = Len(got')
    BY <1>6, <1>8, <1>9, <2>1 DEF GotSafe, UsedNext
  <2>2. CASE n # Len(got')
    BY <1>2, <1>6, <1>7, <2>2 DEF GotSafe
  <2> QED
    BY <2>1, <2>2
<1>11. \A n \in DOMAIN got' : reg_map'[got'[n][1][1]][got'[n][1][2]] = got'[n][2]
  <2> SUFFICES ASSUME NEW n \in DOMAIN got' PROVE reg_map'[got'[n][1][1]][got'[n][1][2]] = got'[n][2]
    OBVIOUS
  <2>1. CASE n = Len(got')
    BY <1>2, <1>3, <1>6, <1>9, <2>1
  <2>2. CASE n # Len(got')
    BY <1>1, <1>2, <1>6, <2>2 DEF HeldIn
  <2> QED
    BY <2>1, <2>2
<1>12. got' # << >>
  BY <1>6
<1>13. \A r \in pins' : r \in Registers /\ reg_map'[r[1]][r[2]] # Null
  BY <1>1, <1>2 DEF HeldIn
<1> QED
  BY <1>5, <1>6, <1>10, <1>11, <1>12, <1>13 DEF HandlerInv, HeldIn

\* A register is taken: nothing else that was obtained and is still needed was in it.
LEMMA OthersStay ==
  ASSUME CacheInv, HandlerInv, todo # << >>, NEW f \in Files, NEW k \in Victim(f), NEW v, Refresh(f, k, v),
         Touches(todo[1], f), NEW n \in DOMAIN got,
         got[n][1] \in pins \/ Leaves(todo, got[n][1][1]) \/ got[n][1][1] # f
  PROVE  reg_map'[got[n][1][1]][got[n][1][2]] = got[n][2]
<1>1. /\ Schedule(todo) /\ got \in Seq(Obtained) /\ HeldIn(got[n][1]) = got[n][2]
      /\ \A r \in pins : r \in Registers /\ HeldIn(r) # Null
  BY DEF HandlerInv
<1>2. got[n][1] \in Registers
  BY <1>1 DEF Obtained
<1>3. k \in Regs(f)
  BY VictimIsRegister
<1>4. got[n][1] # <<f, k>>
  <2>1. CASE got[n][1] \in pins
    BY <1>1, <2>1, VictimNotPinned
  <2>2. CASE Leaves(todo, got[n][1][1])
    <3>1. ~Touches(todo[1], got[n][1][1])
      BY <1>1, <2>2, HeadIsFirst DEF Leaves
    <3> QED
      BY <3>1
  <2>3. CASE got[n][1][1] # f
    BY <2>3
  <2> QED
    BY <2>1, <2>2, <2>3
<1>5. reg_map'[got[n][1][1]][got[n][1][2]] = HeldIn(got[n][1])
  BY <1>2, <1>3, <1>4, RefreshOne DEF HeldIn
<1> QED
  BY <1>1, <1>5

\* The scratch register is an integer one, the constant is in one for floats.
LEMMA MakeStep ==
  ASSUME CacheInv, HandlerInv, Make
  PROVE  HandlerInv'
<1>1. /\ Schedule(todo) /\ got \in Seq(Obtained)
      /\ \A n \in DOMAIN got : GotSafe(n)
      /\ \A r \in pins : r \in Registers /\ HeldIn(r) # Null
  BY DEF HandlerInv
<1>2. /\ todo # << >> /\ todo' = Tail(todo) /\ todo[1][1] = "make" /\ UNCHANGED <<pins, got>>
  BY <1>1, HeadIsFirst DEF Make, Done, Waiting
<1>3. PICK k \in Victim("g") : Refresh("g", k, Zero)
  BY DEF Make
<1>4. /\ Schedule(todo') /\ \A f : Leaves(todo, f) => Leaves(todo', f)
      /\ todo' # << >> => todo'[1][1] # "make" /\ todo'[1] = todo[2] /\ 2 \in DOMAIN todo
  BY <1>1, <1>2, StepsAhead
<1>5. got # << >> /\ got[Len(got)][1][1] = "f"
  BY <1>2 DEF HandlerInv
<1>6. ASSUME NEW n \in DOMAIN got PROVE reg_map'[got[n][1][1]][got[n][1][2]] = got[n][2]
  <2>1. got[n][1] \in pins \/ Leaves(todo, got[n][1][1]) \/ got[n][1][1] # "g"
    BY <1>1, <1>5 DEF GotSafe
  <2>2. "g" \in Files /\ Touches(todo[1], "g")
    BY <1>2 DEF Files, Touches
  <2> QED
    BY <1>2, <1>3, <2>1, <2>2, OthersStay
<1>7. ASSUME NEW n \in DOMAIN got PROVE GotSafe(n)'
  <2>1. CASE got[n][1] \in pins \/ Leaves(todo, got[n][1][1])
    BY <1>2, <1>4, <2>1 DEF GotSafe
  <2>2. CASE n = Len(got) /\ UsedNext
    <3>1. todo[2][1] \in Uses \ {"take"} /\ Len(todo) > 1
      BY <1>2, <2>2 DEF UsedNext, Uses
    <3>2. todo' # << >>
      <4>1. todo \in Seq(Step)
        BY <1>1 DEF Schedule
      <4>2. Len(todo') = Len(todo) - 1 /\ Len(todo) \in Nat
        BY <1>2, <4>1
      <4> QED
        BY <3>1, <4>2
    <3> QED
      BY <1>2, <1>4, <2>2, <3>1, <3>2 DEF GotSafe, UsedNext
  <2> QED
    BY <1>1, <2>1, <2>2 DEF GotSafe
<1>8. \A r \in pins' : r \in Registers /\ reg_map'[r[1]][r[2]] # Null
  <2>1. Make => [Next]_allocVars
    BY DEF Next, Handle
  <2> QED
    BY <1>1, <1>2, <2>1, PinsStep DEF HeldIn
<1> QED
  BY <1>1, <1>2, <1>4, <1>5, <1>6, <1>7, <1>8 DEF HandlerInv, HeldIn

\* A request that misses: the register taken held nothing that is still needed, and
\* the next step secures it or no later one asks for its file.  For a float constant a
\* step "make" comes first.
LEMMA MissStep ==
  ASSUME CacheInv, HandlerInv, Miss
  PROVE  HandlerInv'
<1>1. /\ Schedule(todo) /\ got \in Seq(Obtained)
      /\ \A n \in DOMAIN got : GotSafe(n)
      /\ \A r \in pins : r \in Registers /\ HeldIn(r) # Null
  BY DEF HandlerInv
<1>2. todo # << >> /\ todo[1][1] \in Requests /\ Operand = todo[1][2]
  BY <1>1, HeadIsFirst DEF Miss, Waiting, Operand, Requests
<1>3. PICK v \in Values : v = Operand
  BY <1>1, <1>2, HeadIsFirst DEF Step, Requests
<1>4. PICK f \in Files : f = File(v)
  BY DEF File, Files
<1>5. PICK float \in BOOLEAN : float <=> v \in Consts \cap Floats
  <2>1. CASE v \in Consts \cap Floats
    BY <2>1
  <2>2. CASE v \notin Consts \cap Floats
    BY <2>2
  <2> QED
    BY <2>1, <2>2
<1>6. PICK k \in Victim(f) :
        /\ Refresh(f, k, v) /\ got' = Append(got, <<<<f, k>>, v>>) /\ pins' = pins
        /\ todo' = (IF float THEN << <<"make", v>> >> ELSE << >>) \o Tail(todo)
  BY <1>3, <1>4, <1>5 DEF Miss
<1>7. PICK g : g = <<<<f, k>>, v>>
  OBVIOUS
<1>8. k \in Regs(f)
  BY VictimIsRegister
<1>9. g \in Obtained /\ g[1] = <<f, k>> /\ g[1][1] = f /\ g[1][2] = k /\ g[2] = v
  BY <1>4, <1>7, <1>8 DEF Obtained, Registers
<1>10. /\ got' \in Seq(Obtained) /\ Len(got') = Len(got) + 1 /\ Len(got) \in Nat /\ got'[Len(got')] = g
       /\ \A n \in DOMAIN got' : n # Len(got') => n \in DOMAIN got /\ got'[n] = got[n]
  BY <1>1, <1>6, <1>7, <1>9
<1>11. Touches(todo[1], f)
  BY <1>2, <1>3, <1>4 DEF Touches
<1>12. \A n \in DOMAIN got : got[n][1] \in pins \/ Leaves(todo, got[n][1][1])
  <2>1. ~UsedNext
    BY <1>2 DEF UsedNext, Requests, Uses
  <2> QED
    BY <1>1, <2>1 DEF GotSafe
<1>13. ASSUME NEW n \in DOMAIN got' PROVE reg_map'[got'[n][1][1]][got'[n][1][2]] = got'[n][2]
  <2>1. CASE n = Len(got')
    BY <1>6, <1>8, <1>9, <1>10, <2>1, RefreshOne
  <2>2. CASE n # Len(got')
    BY <1>2, <1>6, <1>10, <1>11, <1>12, <2>2, OthersStay
  <2> QED
    BY <2>1, <2>2
<1>14. \A r \in pins' : r \in Registers /\ reg_map'[r[1]][r[2]] # Null
  <2>1. Miss => [Next]_allocVars
    BY DEF Next, Handle
  <2> QED
    BY <1>1, <1>6, <2>1, PinsStep DEF HeldIn
<1>15. PICK rest : rest = Tail(todo)
  OBVIOUS
<1>16. /\ Schedule(rest) /\ \A h : Leaves(todo, h) => Leaves(rest, h)
       /\ rest \in Seq(Step) /\ Len(rest) = Len(todo) - 1
       /\ \A m \in DOMAIN rest : rest[m] = todo[m + 1] /\ m + 1 \in DOMAIN todo
  BY <1>1, <1>2, <1>15, ScheduleTail DEF Schedule
<1>17. \A m \in DOMAIN rest : rest[m][1] # "make"
  <2>1. \A m \in DOMAIN rest : m + 1 # 1
    BY <1>16
  <2> QED
    BY <1>1, <1>16, <2>1 DEF Schedule
<1>18. \/ 1 \in DOMAIN rest /\ rest[1][1] \in Uses \ {"take"}
       \/ Leaves(rest, f)
  <2>1. Secured(todo, 1)
    BY <1>1, <1>2, HeadIsFirst DEF Schedule
  <2>2. todo \in Seq(Step) /\ DOMAIN todo = 1 .. Len(todo)
    BY <1>1 DEF Schedule
  <2>3. CASE 2 \in DOMAIN todo /\ todo[2][1] \in Uses \ {"take"}
    <3>1. 1 \in DOMAIN rest /\ 1 + 1 = 2
      BY <1>16, <2>2, <2>3
    <3> QED
      BY <1>16, <2>3, <3>1
  <2>4. CASE \A m \in DOMAIN todo : 1 < m => ~Touches(todo[m], f)
    <3>1. \A m \in DOMAIN rest : m + 1 \in DOMAIN todo /\ 1 < m + 1 /\ rest[m] = todo[m + 1]
      BY <1>16, <2>2
    <3> QED
      BY <2>4, <3>1 DEF Leaves
  <2> QED
    BY <1>2, <1>3, <1>4, <2>1, <2>3, <2>4 DEF Secured
<1>19. CASE ~float
  <2>1. todo' = rest
    BY <1>6, <1>15, <1>16, <1>19
  <2>2. \A n \in DOMAIN got' : GotSafe(n)'
    <3> SUFFICES ASSUME NEW n \in DOMAIN got' PROVE GotSafe(n)'
      OBVIOUS
    <3>1. CASE n = Len(got')
      <4>1. 1 \in DOMAIN rest => rest # << >>
        BY <1>16
      <4> QED
        BY <1>9, <1>10, <1>18, <2>1, <3>1, <4>1 DEF GotSafe, UsedNext
    <3>2. CASE n # Len(got')
      BY <1>6, <1>10, <1>12, <1>16, <2>1, <3>2 DEF GotSafe
    <3> QED
      BY <3>1, <3>2
  <2>3. todo' # << >> => todo'[1][1] # "make"
    BY <1>16, <1>17, <2>1
  <2>4. got' # << >>
    BY <1>10
  <2> QED
    BY <1>10, <1>13, <1>14, <1>16, <2>1, <2>2, <2>3, <2>4 DEF HandlerInv, HeldIn
<1>20. CASE float
  <2>1. f = "f" /\ <<"make", v>> \in Step
    BY <1>3, <1>4, <1>5, <1>20 DEF File, Step
  <2>2. todo' = << <<"make", v>> >> \o rest
    BY <1>6, <1>15, <1>20
  <2>3. PICK mk : mk = <<"make", v>>
    OBVIOUS
  <2>4. /\ todo' \in Seq(Step) /\ Len(todo') = Len(rest) + 1 /\ todo'[1] = mk
        /\ \A m \in DOMAIN todo' : m # 1 => m - 1 \in DOMAIN rest /\ todo'[m] = rest[m - 1]
        /\ \A m \in DOMAIN rest : m + 1 \in DOMAIN todo' /\ todo'[m + 1] = rest[m]
        /\ DOMAIN todo' = 1 .. Len(rest) + 1
    <3>1. mk \in Step /\ todo' = <<mk>> \o rest
      BY <2>1, <2>2, <2>3
    <3> QED
      BY <1>16, <3>1
  <2>5. mk[1] = "make" /\ mk[1] \notin Requests /\ mk[1] \notin Uses
    BY <2>3 DEF Requests, Uses
  <2>6. ASSUME NEW j \in DOMAIN todo'
        PROVE  /\ todo'[j][1] \in Requests => Secured(todo', j)
               /\ todo'[j][1] \in Uses /\ j # 1 => todo'[j - 1][1] \in Requests \cup {"make"}
               /\ todo'[j][1] = "make" => j = 1
    <3>1. CASE j = 1
      BY <2>4, <2>5, <3>1
    <3>2. CASE j # 1
      <4>1. PICK m \in DOMAIN rest : m = j - 1 /\ todo'[j] = rest[m]
        BY <2>4, <3>2
      <4>2. /\ rest[m][1] \in Requests => Secured(rest, m)
            /\ rest[m][1] \in Uses /\ m # 1 => rest[m - 1][1] \in Requests \cup {"make"}
        BY <1>16 DEF Schedule
      <4>3. m # 1 => m - 1 \in DOMAIN rest /\ (m - 1) + 1 = j - 1
        BY <1>16, <4>1
      <4>4. m # 1 => todo'[j - 1] = rest[m - 1]
        BY <2>4, <4>3
      <4>5. m = 1 => todo'[j - 1][1] = "make"
        BY <2>4, <2>5, <4>1
      <4>6. ASSUME Secured(rest, m) PROVE Secured(todo', j)
        <5>1. CASE m + 1 \in DOMAIN rest /\ rest[m + 1][1] \in Uses \ {"take"}
          <6>1. (m + 1) + 1 = j + 1
            BY <1>16, <2>4, <4>1
          <6>2. j + 1 \in DOMAIN todo' /\ todo'[j + 1] = rest[m + 1]
            BY <2>4, <5>1, <6>1
          <6> QED
            BY <5>1, <6>2 DEF Secured
        <5>2. CASE \A n \in DOMAIN rest : m < n => ~Touches(rest[n], File(rest[m][2]))
          <6>1. \A n \in DOMAIN todo' : j < n => n - 1 \in DOMAIN rest /\ todo'[n] = rest[n - 1] /\ m < n - 1
            BY <1>16, <2>4, <4>1
          <6> QED
            BY <4>1, <5>2, <6>1 DEF Secured
        <5> QED
          BY <4>6, <5>1, <5>2 DEF Secured
      <4> QED
        BY <1>17, <4>1, <4>2, <4>4, <4>5, <4>6
    <3> QED
      BY <3>1, <3>2
  <2>7. Schedule(todo')
    BY <2>4, <2>6 DEF Schedule
  <2>8. \A h : Leaves(todo, h) => Leaves(todo', h)
    <3> SUFFICES ASSUME NEW h, Leaves(todo, h), NEW m \in DOMAIN todo' PROVE ~Touches(todo'[m], h)
      BY DEF Leaves
    <3>1. CASE m = 1
      <4>1. ~Touches(todo[1], h)
        BY <1>1, <1>2, HeadIsFirst DEF Leaves
      <4>2. h # "g"
        BY <1>2, <1>3, <1>5, <1>20, <4>1 DEF Touches
      <4> QED
        BY <2>4, <2>5, <3>1, <4>2 DEF Touches
    <3>2. CASE m # 1
      BY <1>16, <2>4, <3>2 DEF Leaves
    <3> QED
      BY <3>1, <3>2
  <2>9. \/ Len(todo') > 1 /\ todo'[1][1] = "make" /\ todo'[2][1] \in Uses \ {"take"}
        \/ Leaves(todo', f)
    <3>1. CASE 1 \in DOMAIN rest /\ rest[1][1] \in Uses \ {"take"}
      <4>1. todo'[2] = rest[1] /\ Len(todo') > 1
        <5>1. 1 + 1 = 2 /\ DOMAIN rest = 1 .. Len(rest)
          BY <1>16
        <5> QED
          BY <2>4, <3>1, <5>1
      <4> QED
        BY <2>4, <2>5, <3>1, <4>1
    <3>2. CASE Leaves(rest, f)
      <4> SUFFICES ASSUME NEW m \in DOMAIN todo' PROVE ~Touches(todo'[m], f)
        BY DEF Leaves
      <4>1. CASE m = 1
        BY <2>1, <2>4, <2>5, <4>1 DEF Touches
      <4>2. CASE m # 1
        BY <2>4, <3>2, <4>2 DEF Leaves
      <4> QED
        BY <4>1, <4>2
    <3> QED
      BY <1>18, <3>1, <3>2
  <2>10. \A n \in DOMAIN got' : GotSafe(n)'
    <3> SUFFICES ASSUME NEW n \in DOMAIN got' PROVE GotSafe(n)'
      OBVIOUS
    <3>1. CASE n = Len(got')
      BY <1>9, <1>10, <2>9, <3>1 DEF GotSafe, UsedNext
    <3>2. CASE n # Len(got')
      BY <1>6, <1>10, <1>12, <2>8, <3>2 DEF GotSafe
    <3> QED
      BY <3>1, <3>2
  <2>11. got' # << >> /\ got'[Len(got')][1][1] = "f"
    BY <1>9, <1>10, <2>1
  <2> QED
    BY <1>10, <1>13, <1>14, <2>7, <2>10, <2>11 DEF HandlerInv, HeldIn
<1> QED
  BY <1>19, <1>20

-----------------------------------------------------------------------------
LEMMA NextBlocksTyped ==
  ASSUME CodeTyped, NEW b \in Blocks
  PROVE  NextBlocks(b) \subseteq Blocks
<1>1. succ[b] \in Seq(Blocks)
  BY DEF CodeTyped
<1>2. \A k \in DOMAIN succ[b] : succ[b][k] \in Blocks
  BY <1>1, ElementOf
<1>3. Succs(b) \subseteq Blocks
  BY <1>2 DEF Succs, Range
<1> QED
  BY <1>2, <1>3 DEF NextBlocks

LEMMA CallTyped ==
  ASSUME WalkTyped, calls # << >>
  PROVE  Frame \in Frames /\ Frame = calls[Len(calls)] /\ Len(calls) \in DOMAIN calls
BY DEF WalkTyped, Frame, Last

\* The walk over the blocks stays in the function, and so does the code generator.
LEMMA WalkStep ==
  ASSUME CodeTyped, WalkTyped, [Next]_allocVars
  PROVE  CodeTyped' /\ WalkTyped'
<1>1. CodeTyped'
  <2>1. UNCHANGED input
    <3>1. CASE RunLiveVar \/ Number
      BY <3>1 DEF RunLiveVar, Number, StartNumbers, NumberInstr, Descend, Return, input
    <3>2. CASE NextBlock \/ EnterBlock \/ NextInstr
      BY <3>2 DEF NextBlock, EnterBlock, NextInstr, Emit, input
    <3>3. CASE Hit \/ Miss \/ Make \/ PinLast \/ Pass \/ PhiCopy
      BY <3>3 DEF Hit, Miss, Make, PinLast, Pass, PhiCopy, Emit, input
    <3>4. CASE SaveLive \/ SaveAll \/ ReloadAll \/ Take \/ Execute
      BY <3>4 DEF SaveLive, SaveAll, ReloadAll, Take, Execute, Emit, input
    <3>5. CASE UNCHANGED allocVars
      BY <3>5 DEF allocVars, input
    <3> QED
      BY <3>1, <3>2, <3>3, <3>4, <3>5 DEF Next, Handle
  <2> QED
    BY <2>1 DEF CodeTyped, input
<1> SUFFICES WalkTyped'
  BY <1>1
<1>2. /\ calls \in Seq(Frames) /\ bb_order \in Seq(Blocks)
      /\ current_bb_num \in 0 .. Len(bb_order) /\ ins \in Nat
  BY DEF WalkTyped
<1>3. CASE StartNumbers
  <2>1. 1 \in Blocks
    BY BlocksAssumption DEF Blocks
  <2>2. <<1>> \in Seq(Blocks) /\ Len(<<1>>) = 1 /\ <<[bb |-> 1, at |-> 1]>> \in Seq(Frames)
    BY <2>1 DEF Frames
  <2>3. current_bb_num = 0
    BY <1>2, <1>3 DEF StartNumbers
  <2> QED
    BY <1>2, <1>3, <2>2, <2>3 DEF StartNumbers, WalkTyped, handler
<1>4. CASE NumberInstr
  <2>1. calls' = [calls EXCEPT ![Len(calls)].at = @ + 1] /\ calls # << >>
        /\ UNCHANGED <<bb_order, current_bb_num, ins>>
    BY <1>4 DEF NumberInstr, handler
  <2>2. calls[Len(calls)] \in Frames /\ Len(calls) \in DOMAIN calls
    BY <2>1, CallTyped
  <2>3. [calls[Len(calls)] EXCEPT !.at = @ + 1] \in Frames
    BY <2>2 DEF Frames
  <2>4. calls' = [calls EXCEPT ![Len(calls)] = [calls[Len(calls)] EXCEPT !.at = @ + 1]]
    BY <2>1, <2>2
  <2>5. calls' \in Seq(Frames)
    BY <1>2, <2>2, <2>3, <2>4
  <2> QED
    BY <1>2, <2>1, <2>5 DEF WalkTyped
<1>5. CASE Descend
  <2>1. calls # << >> /\ UNCHANGED <<current_bb_num, ins>>
    BY <1>5 DEF Descend, handler
  <2>2. Frame.bb \in Blocks
    BY <2>1, CallTyped DEF Frames
  <2>3. PICK s \in NextBlocks(Frame.bb) : /\ bb_order' = Append(bb_order, s)
                                          /\ calls' = Append(calls, [bb |-> s, at |-> 1])
    BY <1>5 DEF Descend
  <2>4. s \in Blocks
    BY <2>2, <2>3, NextBlocksTyped
  <2>5. [bb |-> s, at |-> 1] \in Frames
    BY <2>4 DEF Frames
  <2>6. calls' \in Seq(Frames) /\ bb_order' \in Seq(Blocks) /\ Len(bb_order') = Len(bb_order) + 1
    BY <1>2, <2>3, <2>4, <2>5
  <2> QED
    BY <1>2, <2>1, <2>6 DEF WalkTyped
<1>6. CASE Return
  <2>1. calls # << >> /\ calls' = Front(calls) /\ UNCHANGED <<bb_order, current_bb_num, ins>>
    BY <1>6 DEF Return, handler
  <2>2. calls' \in Seq(Frames)
    BY <1>2, <2>1, SubSeqProperties DEF Front
  <2> QED
    BY <1>2, <2>1, <2>2 DEF WalkTyped
<1>7. CASE NextBlock
  <2>1. /\ current_bb_num < Len(bb_order) /\ current_bb_num' = current_bb_num + 1 /\ ins' = 0
        /\ UNCHANGED <<calls, bb_order>>
    BY <1>7 DEF NextBlock, numbers
  <2> QED
    BY <1>2, <2>1 DEF WalkTyped
<1>8. CASE NextInstr
  BY <1>2, <1>8 DEF NextInstr, numbers, WalkTyped
<1>9. CASE RunLiveVar \/ EnterBlock
  BY <1>2, <1>9 DEF RunLiveVar, EnterBlock, Emit, numbers, handler, WalkTyped
<1>10. CASE Hit \/ Miss \/ Make \/ PinLast \/ Pass \/ PhiCopy
  BY <1>2, <1>10 DEF Hit, Miss, Make, PinLast, Pass, PhiCopy, Emit, numbers, WalkTyped
<1>11. CASE SaveLive \/ SaveAll \/ ReloadAll \/ Take \/ Execute
  BY <1>2, <1>11 DEF SaveLive, SaveAll, ReloadAll, Take, Execute, Emit, numbers, WalkTyped
<1>12. CASE UNCHANGED allocVars
  BY <1>2, <1>12 DEF allocVars, numbers, handler, WalkTyped
<1> QED
  BY <1>1, <1>3, <1>4, <1>5, <1>6, <1>7, <1>8, <1>9, <1>10, <1>11, <1>12 DEF Next, Number, Handle

LEMMA HandlerUnchanged == HandlerInv /\ UNCHANGED <<reg_map, pins, todo, got>> => HandlerInv'
BY DEF HandlerInv, HeldIn, GotSafe, UsedNext

\* The handler keeps its invariant, step by step.
LEMMA HandlerStep ==
  ASSUME CacheInv, CodeTyped, WalkTyped, HandlerInv, [Next]_allocVars
  PROVE  HandlerInv'
<1>1. CASE RunLiveVar \/ Number \/ UNCHANGED allocVars
  <2>1. UNCHANGED <<reg_map, pins, todo, got>>
    BY <1>1 DEF RunLiveVar, Number, StartNumbers, NumberInstr, Descend, Return, cache, handler, allocVars
  <2> QED
    BY <2>1, HandlerUnchanged
<1>2. CASE NextBlock
  <2>1. todo' = << <<"enter", Null>> >> /\ got' = << >> /\ pins' = {}
    BY <1>2 DEF NextBlock
  <2>2. <<"enter", Null>> \in Step
    BY DEF Step
  <2>3. todo' \in Seq(Step) /\ \A j \in DOMAIN todo' : todo'[j][1] = "enter"
    BY <2>1, <2>2
  <2>4. Schedule(todo')
    BY <2>3 DEF Schedule, Requests, Uses
  <2>5. todo'[1][1] = "enter"
    BY <2>1
  <2> QED
    BY <2>1, <2>4, <2>5, FreshStep DEF Uses
<1>3. CASE NextInstr
  <2>1. /\ todo' = Steps(body[BB][ins + 1]) /\ got' = << >> /\ pins' = {}
        /\ current_bb_num > 0 /\ ins < Len(body[BB])
    BY <1>3 DEF NextInstr
  <2>2. BB \in Blocks
    BY <2>1 DEF WalkTyped, BB
  <2>3. body[BB] \in Seq(Instruction) /\ ins \in Nat
    BY <2>2 DEF CodeTyped, WalkTyped
  <2>4. body[BB][ins + 1] \in Instruction
    <3>1. ins + 1 \in 1 .. Len(body[BB])
      BY <2>1, <2>3
    <3> QED
      BY <2>3, <3>1
  <2>5. Starts(todo')
    BY <2>1, <2>2, <2>4, StepsStart
  <2>6. todo' # << >> => 1 \in DOMAIN todo'
    BY <2>5 DEF Starts, Schedule
  <2>7. Schedule(todo') /\ (todo' # << >> => todo'[1][1] \notin Uses \cup {"make"})
    BY <2>5, <2>6 DEF Starts
  <2> QED
    BY <2>1, <2>7, FreshStep
<1>4. CASE Hit
  BY <1>4, HitStep
<1>5. CASE Miss
  BY <1>5, MissStep
<1>6. CASE Make
  BY <1>6, MakeStep
<1>7. CASE PinLast
  BY <1>7, PinStep
<1>8. CASE Pass \/ PhiCopy
  BY <1>8, UseStep
<1>9. CASE EnterBlock \/ SaveLive \/ SaveAll \/ ReloadAll \/ Take \/ Execute
  <2>1. Schedule(todo)
    BY DEF HandlerInv
  <2>2. /\ todo # << >> /\ todo' = Tail(todo) /\ UNCHANGED <<reg_map, pins, got>>
        /\ Head(todo)[1] \in {"enter", "savelive", "saveall", "reloadall", "take", "exec"}
    BY <1>9 DEF EnterBlock, SaveLive, SaveAll, ReloadAll, Take, Execute, Emit, Done, Waiting, cache
  <2>3. todo[1][1] \notin Requests \cup {"make", "pin", "pass", "phi"}
    BY <2>1, <2>2, HeadIsFirst DEF Requests
  <2> QED
    BY <2>2, <2>3, OtherStep
<1> QED
  BY <1>1, <1>2, <1>3, <1>4, <1>5, <1>6, <1>7, <1>8, <1>9 DEF Next, Handle

\* the inductive invariant of the allocator
AllocInv == CacheInv /\ HandlerInv /\ CodeTyped /\ WalkTyped

LEMMA AllocInit == Init => AllocInv
<1> SUFFICES ASSUME Init PROVE AllocInv
  OBVIOUS
<1>1. CacheInv
  BY DEF Init, CacheInv, CacheShape, HitsBacked, None
<1>2. HandlerInv
  BY DEF Init, HandlerInv, Schedule
<1>3. CodeTyped
  BY FunctionsAssumption DEF Init, CodeTyped
<1>4. WalkTyped
  BY DEF Init, WalkTyped
<1> QED
  BY <1>1, <1>2, <1>3, <1>4 DEF AllocInv

LEMMA AllocStep == AllocInv /\ [Next]_allocVars => AllocInv'
BY CacheStep, HandlerStep, WalkStep DEF AllocInv

\* A register that get_value_reg_freg finds for a value is one reg_map has for it.
THEOREM HitsBackedHolds == Spec => []HitsBacked
<1>1. AllocInv => HitsBacked
  BY DEF AllocInv, CacheInv
<1> QED
  BY AllocInit, AllocStep, <1>1, PTL DEF Spec

LEMMA HeldFromInv == HandlerInv => OperandsHeld
<1> SUFFICES ASSUME HandlerInv, NEW g \in Range(got) PROVE HeldIn(g[1]) = g[2]
  BY DEF OperandsHeld
<1> QED
  BY DEF HandlerInv, Range

-----------------------------------------------------------------------------
(***************************************************************************)
(* A function compiled by one of the two generators.  The allocator that   *)
(* -o0 and -o1 do not use stays as it was at first.                        *)
(***************************************************************************)
\* the inductive invariant of the machine
MachineInv == FrameInv /\ CacheInv /\ HandlerInv /\ CodeTyped /\ (regalloca => WalkTyped)

LEMMA ItemTyped ==
  ASSUME NEW i \in Instruction
  PROVE  ItemOf(i) \in Layout!Item
<1>1. /\ SizeOf(i.id) \in Layout!Sizes
      /\ i.id \in Instrs
      /\ Elem[i.id] \in Layout!Sizes /\ Elem[i.id] \in Nat
  <2>1. i.id \in Instrs
    BY DEF Instruction
  <2> QED
    BY <2>1, LengthAssumption DEF SizeOf, Layout!Sizes
<1>2. (IF i.id \in DOMAIN Length THEN Elem[i.id] * Length[i.id] ELSE 0) \in Nat
  <2>1. CASE i.id \in DOMAIN Length
    <3>1. Length[i.id] \in Nat
      BY <2>1, LengthAssumption
    <3>2. PICK e \in Nat, l \in Nat : e = Elem[i.id] /\ l = Length[i.id]
      BY <1>1, <3>1
    <3>3. e * l \in Nat
      OBVIOUS
    <3> QED
      BY <3>2, <3>3
  <2> QED
    BY <2>1
<1>3. ItemOf(i).kind \in {"void", "value", "scalar", "array"}
  BY DEF ItemOf
<1> QED
  BY <1>1, <1>2, <1>3 DEF ItemOf, Layout!Item

\* The frame is laid out for the arguments and for every instruction of the function.
LEMMA ItemsTyped ==
  ASSUME CodeTyped
  PROVE  FrameItems \in Seq(Layout!Item)
<1> DEFINE args  == [k \in DOMAIN Params |-> ParamItem(Params[k])]
           of(b) == [k \in DOMAIN body[b] |-> ItemOf(body[b][k])]
           all   == [b \in Blocks |-> of(b)]
<1>1. args \in Seq(Layout!Item)
  <2>1. ASSUME NEW v PROVE ParamItem(v) \in Layout!Item
    BY DEF ParamItem, SizeOf, Layout!Item, Layout!Sizes
  <2>2. Params \in Seq(Args)
    BY TypesAssumption
  <2>3. args \in [DOMAIN Params -> Layout!Item]
    BY <2>1
  <2> HIDE DEF args
  <2> QED
    BY <2>2, <2>3, AlongSequence
<1>2. ASSUME NEW b \in Blocks PROVE of(b) \in Seq(Layout!Item)
  <2>1. body[b] \in Seq(Instruction)
    BY DEF CodeTyped
  <2>2. of(b) \in [DOMAIN body[b] -> Layout!Item]
    BY <2>1, ElementOf, ItemTyped
  <2> HIDE DEF of
  <2> QED
    BY <2>1, <2>2, AlongSequence
<1> HIDE DEF of
<1>3. all \in Seq(Seq(Layout!Item))
  <2>1. NumBlocks \in Nat
    BY BlocksAssumption
  <2> QED
    BY <1>2, <2>1 DEF Blocks
<1>4. FrameItems = args \o FlattenSeq(all)
  BY DEF FrameItems, of
<1> HIDE DEF all, args
<1>5. FlattenSeq(all) \in Seq(Layout!Item)
  BY <1>3, FlattenType
<1> QED
  BY <1>1, <1>4, <1>5

LEMMA MachineInitHolds == MachineInit => MachineInv
<1> SUFFICES ASSUME MachineInit PROVE MachineInv
  OBVIOUS
<1>1. Init /\ items = FrameItems /\ Layout!FrameInit
  BY DEF MachineInit
<1>2. CacheInv /\ HandlerInv /\ CodeTyped /\ WalkTyped
  BY <1>1, AllocInit DEF AllocInv
<1>3. items \in Seq(Layout!Item)
  BY <1>1, <1>2, ItemsTyped
<1> QED
  BY <1>1, <1>2, <1>3, FrameInitHolds DEF MachineInv

\* Of the code generators, only the one with the allocator changes what it works on.
LEMMA MachineSteps ==
  ASSUME [MachineNext]_vars
  PROVE  /\ [Layout!FrameNext]_(Layout!frameVars)
         /\ regalloca' = regalloca
         /\ \/ regalloca /\ [Next]_allocVars
            \/ UNCHANGED <<input, cache, pins, todo, got>> /\ (regalloca => UNCHANGED allocVars)
<1>1. CASE Allocate
  BY <1>1 DEF Allocate, allocVars, handler
<1>2. CASE Generate
  <2>1. UNCHANGED Layout!frameVars /\ regalloca' = regalloca
    BY <1>2 DEF Generate, frame, Layout!frameVars
  <2>2. CASE regalloca
    BY <1>2, <2>1, <2>2 DEF Generate
  <2>3. CASE ~regalloca
    <3>1. SlotNext
      BY <1>2, <2>3 DEF Generate
    <3>2. UNCHANGED <<input, cache, pins, todo, got>>
      BY <3>1 DEF SlotNext, SlotBlock, SlotInstr
    <3> QED
      BY <2>1, <2>3, <3>2
  <2> QED
    BY <2>2, <2>3
<1>3. CASE CallFunction \/ RunMove \/ RunInstr \/ RunBranch
  <2>1. UNCHANGED <<allocVars, regalloca, frame>>
    BY <1>3 DEF CallFunction, RunMove, RunInstr, RunBranch
  <2> QED
    BY <2>1 DEF allocVars, handler, frame, Layout!frameVars
<1>4. CASE UNCHANGED vars
  BY <1>4 DEF vars, allocVars, handler, frame, Layout!frameVars
<1> QED
  BY <1>1, <1>2, <1>3, <1>4 DEF MachineNext

LEMMA MachineStepKeeps == MachineInv /\ [MachineNext]_vars => MachineInv'
<1> SUFFICES ASSUME MachineInv, [MachineNext]_vars PROVE MachineInv'
  OBVIOUS
<1>1. FrameInv'
  BY MachineSteps, FrameStepKeeps DEF MachineInv
<1>2. regalloca' = regalloca
  BY MachineSteps
<1>3. CASE regalloca /\ [Next]_allocVars
  <2>1. AllocInv'
    BY <1>3, AllocStep DEF MachineInv, AllocInv
  <2> QED
    BY <1>1, <2>1 DEF MachineInv, AllocInv
<1>4. CASE UNCHANGED <<input, cache, pins, todo, got>> /\ (regalloca => UNCHANGED allocVars)
  <2>1. CacheInv'
    BY <1>4, CacheUnchanged DEF MachineInv
  <2>2. HandlerInv'
    BY <1>4, HandlerUnchanged DEF MachineInv, cache
  <2>3. CodeTyped'
    BY <1>4 DEF MachineInv, CodeTyped, input
  <2>4. regalloca => WalkTyped'
    BY <1>4 DEF MachineInv, WalkTyped, allocVars, numbers, handler
  <2> QED
    BY <1>1, <1>2, <2>1, <2>2, <2>3, <2>4 DEF MachineInv
<1> QED
  BY <1>3, <1>4, MachineSteps

\* No two slots or areas of a frame share a byte, nor with the saved $ra and $fp, in
\* either code generator, for every function with arguments and results of any type:
\* while allocate lays the frame out, while code is generated and while it runs.
THEOREM FrameAlwaysDisjoint == MachineSpec => []Layout!FrameDisjoint
<1>1. MachineInv => Layout!FrameDisjoint
  BY FrameFromInv DEF MachineInv
<1> QED
  BY MachineInitHolds, MachineStepKeeps, <1>1, PTL DEF MachineSpec

\* What allocate adds to the frame is apart from what is there.
THEOREM FrameDisjointHolds == MachineSpec => FrameDisjoint
<1>1. Layout!FrameDisjoint' => [frame' # frame => Layout!FrameDisjoint']_vars
  OBVIOUS
<1> QED
  BY FrameAlwaysDisjoint, <1>1, PTL DEF FrameDisjoint

\* The same agreement of the maps of the cache while the compiled code runs.
THEOREM CacheAgrees == MachineSpec => []HitsBacked
<1>1. MachineInv => HitsBacked
  BY DEF MachineInv, CacheInv
<1> QED
  BY MachineInitHolds, MachineStepKeeps, <1>1, PTL DEF MachineSpec

\* Every register that a gen_* handler was given for an operand or for the result
\* still holds it when the instruction is emitted, whatever get_register took for the
\* requests in between: the pins of the handlers cover all of them.
THEOREM OperandsHeldHolds == MachineSpec => []OperandsHeld
<1>1. MachineInv => OperandsHeld
  BY HeldFromInv DEF MachineInv
<1> QED
  BY MachineInitHolds, MachineStepKeeps, <1>1, PTL DEF MachineSpec

\* get_register and get_fregister, which search the pinned registers too for a free
\* one, never take a register that the instruction has pinned.
THEOREM PinnedKeptHolds == MachineSpec => PinnedKept
<1>1. MachineInv /\ [MachineNext]_vars
        => [\A r \in pins : reg_map'[r[1]][r[2]] = reg_map[r[1]][r[2]]]_allocVars
  <2> SUFFICES ASSUME MachineInv, [MachineNext]_vars
               PROVE  \A r \in pins : reg_map'[r[1]][r[2]] = reg_map[r[1]][r[2]]
    OBVIOUS
  <2>1. CASE regalloca /\ [Next]_allocVars
    BY <2>1, PinsStep DEF MachineInv
  <2>2. CASE UNCHANGED cache
    BY <2>2 DEF cache
  <2> QED
    BY <2>1, <2>2, MachineSteps
<1> QED
  BY MachineInitHolds, MachineStepKeeps, <1>1, PTL DEF MachineSpec, PinnedKept
=============================================================================
