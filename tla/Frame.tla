-------------------------------- MODULE Frame --------------------------------
(***************************************************************************)
(* allocate() of both code generators: the stack frame of one function.    *)
(* Every argument and every instruction with a value gets a slot, and an   *)
(* alloca also the area it names; gen_alloca later computes the address of *)
(* that area again from the slot.  Offsets are distances below $fp: a part *)
(* that ends at offset o and has s bytes is at $fp-o .. $fp-o+s-1.         *)
(***************************************************************************)
EXTENDS Integers, Sequences

VARIABLES
  items,        \* arguments, then instructions, never changed
  offset,       \* bytes below $fp in use
  offset_map,   \* where the slots of the items placed end; 0 for a void one
  frame_size    \* 0 until allocate returns

frameVars == <<items, offset, offset_map, frame_size>>

ProloguePart  == 16           \* PROLOGUE_OFFSET_BASE: $ra and $fp
PrologueAlign == 16
Sizes == {1, 4, 8}            \* i1, i32 and float, pointers

\* size: of the value; elem: of what an alloca holds, for an array of an element;
\* area: of a whole array
Item == [kind : {"void", "value", "scalar", "array"}, size : Sizes, elem : Sizes, area : Nat]

\* ALIGN: x rounded up to a multiple of a
Align(x, a) == (x \div a + (IF x % a = 0 THEN 0 ELSE 1)) * a

-----------------------------------------------------------------------------
\* mutant: an array is given the room of one element
AreaEndElement(o, i) ==
  CASE i.kind = "array"  -> Align(o + i.elem, i.elem)
    [] i.kind = "scalar" -> Align(o + i.elem, i.elem)
    [] OTHER             -> o

\* the end of the area of an alloca whose slot ends at o, in allocate and in gen_alloca
AreaEnd(o, i) ==
  CASE i.kind = "array"  -> Align(o + i.elem, i.elem) + i.area
    [] i.kind = "scalar" -> Align(o + i.elem, i.elem)
    [] OTHER             -> o

Placed  == 1 .. Len(offset_map)
Current == items[Len(offset_map) + 1]
More    == Len(offset_map) < Len(items)

FrameInit == offset = ProloguePart /\ offset_map = << >> /\ frame_size = 0

SkipVoid ==
  /\ More /\ Current.kind = "void"
  /\ offset_map' = Append(offset_map, 0)
  /\ UNCHANGED <<items, offset, frame_size>>

Place ==
  /\ More /\ Current.kind # "void"
  /\ offset_map' = Append(offset_map, Align(offset + Current.size, Current.size))
  /\ offset' = AreaEnd(Align(offset + Current.size, Current.size), Current)
  /\ UNCHANGED <<items, frame_size>>

FinishFrame ==
  /\ ~More /\ frame_size = 0
  /\ frame_size' = Align(offset, PrologueAlign)
  /\ UNCHANGED <<items, offset, offset_map>>

FrameNext == SkipVoid \/ Place \/ FinishFrame

FrameSpec == items \in Seq(Item) /\ FrameInit /\ [][FrameNext]_frameVars

-----------------------------------------------------------------------------
HasSlot(k) == items[k].kind # "void"
HasArea(k) == items[k].kind \in {"scalar", "array"}

AreaSize(i) == IF i.kind = "array" THEN i.area ELSE i.elem

SlotPart(k) == [of |-> k, area |-> FALSE, from |-> offset_map[k] - items[k].size, to |-> offset_map[k]]

\* where gen_alloca says it is
AreaPart(k) ==
  [of |-> k, area |-> TRUE, from |-> AreaEnd(offset_map[k], items[k]) - AreaSize(items[k]),
   to |-> AreaEnd(offset_map[k], items[k])]

\* from the byte nearest to $fp
Parts(k) ==
  IF HasArea(k) THEN {SlotPart(k), AreaPart(k)} ELSE IF HasSlot(k) THEN {SlotPart(k)} ELSE {}

Apart(p, q) == p.to <= q.from \/ q.to <= p.from

\* No two parts of the frame share a byte, and all of them are below the saved $ra
\* and $fp and, once the frame is set up, above $sp.
FrameDisjoint ==
  \A k, l \in Placed : \A p \in Parts(k), q \in Parts(l) :
     /\ p # q => Apart(p, q)
     /\ ProloguePart <= p.from
     /\ frame_size # 0 => p.to <= frame_size
=============================================================================
