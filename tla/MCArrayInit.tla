----------------------------- MODULE MCArrayInit -----------------------------
(***************************************************************************)
(* Declarations for ArrayInit: braces at every level, rows and groups left *)
(* out, cut short or zero, flat lists, and values before braces.           *)
(***************************************************************************)
EXTENDS ArrayInit, FiniteSets

Val(v)  == <<"val", v>>
List(s) == <<"list", s>>

\* what one element is given
Values == {Val(0), Val(7), Val(8)}

\* lists of at most n of the nodes in S, in braces
Lists(S, n) == {List(s) : s \in SeqOf(S, n)}

Flat(n) == {List(s) : s \in SeqOf({Val(0), Val(7)}, n)}

\* n values written without their braces, then at most one list of rows
Mixed(n, rows) ==
  {List([k \in 1 .. n |-> Val((k % 2) + 7)] \o s) : s \in SeqOf(rows, 1)}

SomeRows == {List(<< >>), List(<<Val(7)>>), List(<<Val(0), Val(8)>>), List(<<Val(7), Val(0)>>)}

Inits(dims) ==
  CASE Len(dims) = 1 -> Lists(Values, dims[1])
    [] dims = <<2, 2>> -> Lists(Lists(Values, 2), 2) \cup Flat(4) \cup Mixed(2, SomeRows)
    [] Len(dims) = 2 -> Lists(SomeRows, dims[1]) \cup Mixed(dims[2], SomeRows)
    [] OTHER -> Lists(Lists(SomeRows, 2), 2) \cup Lists(Flat(4), 1) \cup Mixed(4, Lists(SomeRows, 2))
                  \cup Mixed(2, SomeRows) \cup Lists(Mixed(2, SomeRows), 2)
                  \cup {List(s) : s \in [1 .. 8 -> {Val(0), Val(7)}]}

Declarations(shapes) ==
  UNION {[const : BOOLEAN, global : BOOLEAN, dims : {dims}, init : Inits(dims)] : dims \in shapes}

\* rows and groups of zeros in what a declaration should give
Zero(p, size, k) == LET m == Meant(p) IN \A j \in size * (k - 1) + 1 .. size * k : m[j] = 0
Rows(p)   == 1 .. (Len(Meant(p)) \div Last(p.dims))

(***************************************************************************)
(* The declarations that are known to go wrong, each described in the      *)
(* README: a global table of constants with values before its last row,    *)
(* or of zeros alone, or of three dimensions; a group of zeros after       *)
(* another in a global array of three dimensions; a zero in a local array  *)
(* of constants, or not given a value in a long local array.  Values that  *)
(* fill no group and braces before further nodes, which go wrong for every *)
(* kind of array, are among the initialisers of PartGroups only.           *)
(***************************************************************************)
KnownToFail(p) ==
  CASE p.global /\ p.const ->
         \/ Len(p.dims) = 3
         \/ Len(p.dims) = 2 /\ (\E k \in Rows(p) : Zero(p, Last(p.dims), k) <=> k = Cardinality(Rows(p)))
    [] p.global /\ ~p.const ->
         Len(p.dims) = 3 /\ ~Zero(p, 4, 1) /\ Zero(p, 4, 2)
    [] OTHER ->
         /\ p.const \/ (Len(Meant(p)) + 1 >= MAX /\ Len(p.init[2]) < Len(Meant(p)))
         /\ \E j \in DOMAIN Meant(p) : Meant(p)[j] = 0

MCPrograms ==
  {p \in Declarations({<<1>>, <<3>>, <<2, 2>>, <<2, 3>>, <<3, 2>>, <<2, 2, 2>>}) :
     (p.global => 1 \notin Range(p.dims)) /\ ~KnownToFail(p)}

\* a table of constants with a value in each of its rows
FullRows == {List(<<Val(7), Val(8)>>), List(<<Val(8), Val(7)>>), List(<<Val(7)>>)}

ConstTables ==
  [const : {TRUE}, global : {TRUE}, dims : {<<2, 2>>}, init : {List(<<a, b>>) : a, b \in FullRows}]

\* a row without its braces, a row in braces, and one node more
PartGroups ==
  [const : {FALSE}, global : {FALSE}, dims : {<<2, 2, 2>>},
   init : {List(<<Val(7), Val(8), row, node>>) : row \in SomeRows, node \in {Val(8), List(<<Val(7)>>)}}]
=============================================================================
