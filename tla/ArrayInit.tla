------------------------------ MODULE ArrayInit ------------------------------
(***************************************************************************)
(* The initialiser of one array of ints, from the source to the data.  The *)
(* AST flattens the nested braces into one list of elements.  For a local  *)
(* array SysYBuilder stores the elements one by one; for a global one it   *)
(* builds nested constant arrays level by level, rows first, where an      *)
(* array of no elements stands for zeros, and CodeGen writes them out.     *)
(*                                                                         *)
(* A node of the initialiser is <<"val", n>> or <<"list", nodes>>.  Floats *)
(* take the same way with other types.                                     *)
(***************************************************************************)
EXTENDS Integers, SequencesExt

CONSTANTS
  Programs,   \* the declarations: [const, global, dims, init]
  Junk,       \* what a stack slot holds before it is written
  MAX         \* local arrays shorter than this are stored whole (10000 in the code)

ASSUME ProgramsAssumption ==
  \A p \in Programs : p.dims # << >> /\ \A d \in Range(p.dims) : d > 0

VARIABLES
  prog,                              \* the declaration
  pc,
  todo, step, initvals,              \* of Getinitarray: nodes left, next element, constinitvals or varinitvals
  num,                               \* elements or rows taken from the list
  val, rel_val, array_val, next_array_val, div_num,
  mem, data                          \* what the array holds: on the stack, in the data segment

scan  == <<todo, step, initvals>>
build == <<num, val, rel_val, array_val, next_array_val, div_num>>
vars  == <<prog, pc, scan, build, mem, data>>

Product(s) == FoldLeft(LAMBDA acc, d : acc * d, 1, s)

\* elements below one step of dimension k, in the whole array for k = 0
Below(k)  == Product(SubSeq(prog.dims, k + 1, Len(prog.dims)))
NumElems  == Below(0)

-----------------------------------------------------------------------------
(***************************************************************************)
(* Getinitarray_const and Getinitarray_var, with the calls in todo: a node *)
(* to visit at a depth of braces, or the step to go to after a list.       *)
(***************************************************************************)
Visit(node, div) == [node |-> node, div |-> div, next |-> 0]
GoTo(s)          == [node |-> <<"end", << >> >>, div |-> 0, next |-> s]
At(kind)         == pc = "scan" /\ todo # << >> /\ Head(todo).node[1] = kind
Payload          == Head(todo).node[2]

ScanValue ==
  /\ At("val")
  /\ initvals' = [initvals EXCEPT ![step] = [is_exp |-> ~prog.const /\ ~prog.global, val |-> Payload]]
  /\ step' = step + 1
  /\ todo' = Tail(todo)
  /\ UNCHANGED <<prog, pc, build, mem, data>>

ScanEmpty ==
  /\ At("list") /\ Payload = << >>
  /\ step' = step + Below(Head(todo).div)
  /\ todo' = Tail(todo)
  /\ UNCHANGED <<prog, pc, initvals, build, mem, data>>

\* mutant: the elements after a nested list follow its last one
ScanListPacked ==
  /\ At("list") /\ Payload # << >>
  /\ todo' = [k \in DOMAIN Payload |-> Visit(Payload[k], Head(todo).div + 1)] \o Tail(todo)
  /\ UNCHANGED <<prog, pc, step, initvals, build, mem, data>>

ScanList ==
  /\ At("list") /\ Payload # << >>
  /\ todo' = [k \in DOMAIN Payload |-> Visit(Payload[k], Head(todo).div + 1)]
               \o <<GoTo(step + Below(Head(todo).div))>> \o Tail(todo)
  /\ UNCHANGED <<prog, pc, step, initvals, build, mem, data>>

EndList ==
  /\ At("end")
  /\ step' = Head(todo).next
  /\ todo' = Tail(todo)
  /\ UNCHANGED <<prog, pc, initvals, build, mem, data>>

EndScan ==
  /\ pc = "scan" /\ todo = << >>
  /\ pc' = IF prog.global THEN "rows" ELSE "store"
  /\ UNCHANGED <<prog, scan, build, mem, data>>

-----------------------------------------------------------------------------
(***************************************************************************)
(* visit(ASTConstdef) and visit(ASTVardef) of a local array: a chain of    *)
(* geps leads to element num + 1.                                          *)
(***************************************************************************)
Gep(acc, size) ==
  [at |-> acc.at + (acc.next \div size) * size, next |-> acc.next % size]

\* each gep adds its index times the size of what it selects
Address ==
  FoldLeft(Gep, [at |-> 0, next |-> num], [k \in DOMAIN prog.dims |-> Below(k)]).at

Stored(e) == e.val # 0 \/ (~prog.const /\ (e.is_exp \/ NumElems + 1 < MAX))

StoreElement ==
  /\ pc = "store" /\ num < NumElems
  /\ mem' = IF Stored(initvals[num + 1]) THEN [mem EXCEPT ![Address] = initvals[num + 1].val] ELSE mem
  /\ num' = num + 1
  /\ UNCHANGED <<prog, pc, scan, val, rel_val, array_val, next_array_val, div_num, data>>

EndStore ==
  /\ pc = "store" /\ num = NumElems
  /\ pc' = "done"
  /\ UNCHANGED <<prog, scan, build, mem, data>>

-----------------------------------------------------------------------------
(***************************************************************************)
(* The same for a global array.  words is the size of a constant's type.   *)
(***************************************************************************)
ConstantInt(v) == [of |-> "int", words |-> 1, elems |-> << >>, val |-> v]
ConstantZero   == [of |-> "zero", words |-> 1, elems |-> << >>, val |-> 0]
ConstantArray(words, elems) == [of |-> "array", words |-> words, elems |-> elems, val |-> 0]

zero_array == <<ConstantZero>>
Empty(c)   == c.elems = << >>

\* only visit(ASTVardef) clears val after a row that is not zero
LeftOfRow(row, zero) == IF zero \/ ~prog.const THEN << >> ELSE row

CloseRow(row) ==
  LET zero == \A j \in 1 .. Last(prog.dims) : row[j].val = 0
  IN /\ array_val' = Append(array_val, ConstantArray(Last(prog.dims), IF zero THEN rel_val ELSE row))
     /\ val' = LeftOfRow(row, zero)
     /\ rel_val' = << >>

TakeElement ==
  /\ pc = "rows" /\ num < NumElems
  /\ LET row == Append(val, ConstantInt(initvals[num + 1].val))
     IN IF (num + 1) % Last(prog.dims) = 0
        THEN CloseRow(row)
        ELSE val' = row /\ UNCHANGED <<rel_val, array_val>>
  /\ num' = num + 1
  /\ UNCHANGED <<prog, pc, scan, next_array_val, div_num, mem, data>>

EndRows ==
  /\ pc = "rows" /\ num = NumElems
  /\ pc' = "levels"
  /\ num' = 0 /\ val' = << >> /\ rel_val' = << >>
  /\ array_val' = IF div_num = << >> /\ Empty(array_val[1])
                  THEN [array_val EXCEPT ![1] = ConstantArray(NumElems, zero_array)]
                  ELSE array_val
  /\ UNCHANGED <<prog, scan, next_array_val, div_num, mem, data>>

\* in a group that has elements, a member of none becomes zeros of its type
Filled(group) ==
  [j \in DOMAIN group |->
     IF Empty(group[j]) THEN ConstantArray(Below(Len(div_num)), zero_array) ELSE group[j]]

CloseGroup(group) ==
  LET zero == \A j \in 1 .. Last(div_num) : Empty(group[j])
  IN /\ rel_val' = IF ~zero THEN Filled(group) ELSE IF prog.const THEN group ELSE rel_val
     /\ next_array_val' = Append(next_array_val, ConstantArray(Below(Len(div_num) - 1), rel_val'))
     /\ val' = << >>

TakeRow ==
  /\ pc = "levels" /\ div_num # << >> /\ num < Len(array_val)
  /\ LET group == Append(val, array_val[num + 1])
     IN IF (num + 1) % Last(div_num) = 0
        THEN CloseGroup(group)
        ELSE val' = group /\ UNCHANGED <<rel_val, next_array_val>>
  /\ num' = num + 1
  /\ UNCHANGED <<prog, pc, scan, array_val, div_num, mem, data>>

\* mutant: the arrays of a level stay in the list of the next
EndLevelKeepsNext ==
  /\ pc = "levels" /\ div_num # << >> /\ num = Len(array_val)
  /\ array_val' = next_array_val
  /\ div_num' = Front(div_num)
  /\ num' = 0 /\ val' = << >> /\ rel_val' = << >>
  /\ UNCHANGED <<prog, pc, scan, next_array_val, mem, data>>

EndLevel ==
  /\ pc = "levels" /\ div_num # << >> /\ num = Len(array_val)
  /\ array_val' = next_array_val
  /\ div_num' = Front(div_num)
  /\ num' = 0 /\ val' = << >> /\ rel_val' = << >> /\ next_array_val' = << >>
  /\ UNCHANGED <<prog, pc, scan, mem, data>>

\* the assertion that one constant is left
OneConstant == Len(array_val) = 1

EndLevels ==
  /\ pc = "levels" /\ div_num = << >> /\ OneConstant
  /\ pc' = "emit"
  /\ array_val' = IF ~prog.const /\ Empty(array_val[1])
                  THEN <<ConstantArray(NumElems, zero_array)>> ELSE array_val
  /\ UNCHANGED <<prog, scan, num, val, rel_val, next_array_val, div_num, mem, data>>

Zeros(n) == [k \in 1 .. n |-> 0]

\* gen_global_array_init: .word for a number, .space for zeros and for an array of one element
RECURSIVE Words(_)
Words(c) ==
  CASE c.of = "int" -> <<c.val>>
    [] c.of = "zero" \/ Len(c.elems) = 1 -> Zeros(c.words)
    [] OTHER -> FlattenSeq([k \in DOMAIN c.elems |-> Words(c.elems[k])])

Emit ==
  /\ pc = "emit"
  /\ data' = Words(array_val[1])
  /\ pc' = "done"
  /\ UNCHANGED <<prog, scan, build, mem>>

-----------------------------------------------------------------------------
Init ==
  /\ prog \in Programs
  /\ pc = "scan"
  /\ todo = <<Visit(prog.init, 0)>> /\ step = 1
  /\ initvals = [k \in 1 .. NumElems |-> [is_exp |-> FALSE, val |-> 0]]
  /\ num = 0 /\ val = << >> /\ rel_val = << >> /\ array_val = << >> /\ next_array_val = << >>
  /\ div_num = Front(prog.dims)
  /\ mem = [a \in 0 .. NumElems - 1 |-> Junk]
  /\ data = << >>

Next ==
  \/ ScanValue \/ ScanEmpty \/ ScanList \/ EndList \/ EndScan
  \/ StoreElement \/ EndStore
  \/ TakeElement \/ EndRows \/ TakeRow \/ EndLevel \/ EndLevels \/ Emit

Spec == Init /\ [][Next]_vars

-----------------------------------------------------------------------------
(***************************************************************************)
(* What the language says a list of nodes gives an aggregate of n          *)
(* elements: a value takes the next element, a list takes the largest      *)
(* subaggregate that starts at the next element, the rest is zero.         *)
(***************************************************************************)
Sub(dims, n, at) ==
  Max({s \in {Product(SubSeq(dims, k + 1, Len(dims))) : k \in DOMAIN dims} :
         (s < n \/ n = 1) /\ at % s = 0})

RECURSIVE Elements(_, _, _)
Elements(dims, nodes, n) ==
  LET Add(acc, node) == IF node[1] = "val" THEN Append(acc, node[2])
                        ELSE acc \o Elements(dims, node[2], Sub(dims, n, Len(acc)))
      given == FoldLeft(Add, << >>, nodes)
  IN given \o Zeros(n - Len(given))

Meant(p) == Elements(p.dims, p.init[2], Product(p.dims))

\* Once the declaration is compiled, the array holds what its initialiser
\* says: each element of every brace level, zero where nothing is given.
\* This is what getinitarray, the building of the constants and their
\* printing have to agree on, with rows and groups of zeros left implicit.
InitialValues ==
  pc = "done" =>
    IF prog.global THEN data = Meant(prog) ELSE mem = [a \in DOMAIN mem |-> Meant(prog)[a + 1]]

\* The levels of a global array always reduce to one constant: the
\* assertion that ends both visits never fails.
OneConstantLeft == pc = "levels" /\ div_num = << >> => OneConstant
=============================================================================
