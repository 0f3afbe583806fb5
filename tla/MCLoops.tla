------------------------------- MODULE MCLoops -------------------------------
(***************************************************************************)
(* Functions for Loops: loops in a loop, two loops one after the other, a  *)
(* loop with an if, a block that is never reached, each with every choice  *)
(* of some instructions, and loops with a continue.                        *)
(***************************************************************************)
EXTENDS Loops

V(x) == <<"v", x>>
I(x, op, ops) == [id |-> V(x), op |-> op, ops |-> ops]
Goto(x, b) == I(x, "br", <<BB(b)>>)
If(x, c, b, d) == I(x, "br", <<V(c), BB(b), BB(d)>>)
Ret(v) == I("ret", "ret", <<v>>)

MCFixed   == {V("one"), V("arg")}
MCGlobals == {V("glob")}

Count(x, from, next, entry, latch) ==
  I(x, "phi", <<from, BB(entry), V(next), BB(latch)>>)

\* chains of instructions: all fixed, from a value that changes, or through a global
Chain(v) ==
  {<< I("m1", "binary", <<V("arg"), V("one")>>), I("m2", "convert", <<V("m1")>>) >>,
   << I("m1", "binary", <<V("arg"), v>>), I("m2", "binary", <<V("m1"), V("one")>>) >>,
   << I("m0", "binary", <<V("one"), V("arg")>>), I("m1", "gep", <<V("glob"), V("m0")>>),
      I("m2", "load", <<V("m1")>>) >>,
   << I("m1", "alloca", << >>), I("m2", "gep", <<V("m1"), v>>) >>}

Test(x, v) == I(x, "cmp", <<v, V("arg")>>)

\* 2 and 3 are the headers; 5 closes the inner loop, 6 the outer one
NestedLoops(inner, outer) ==
  [succ |-> << <<2>>, <<3, 7>>, <<4, 6>>, <<5>>, <<3>>, <<2>>, << >> >>,
   code |-> <<
     << Goto("b1", 2) >>,
     << Count("i", V("one"), "i2", 1, 6), Test("c", V("i")), If("b2", "c", 3, 7) >>,
     << Count("j", V("i"), "j2", 2, 5), Test("d", V("j")), If("b3", "d", 4, 6) >>,
     inner \o << Goto("b4", 5) >>,
     << I("k1", "binary", <<V("m1"), V("arg")>>), I("j2", "binary", <<V("j"), V("k1")>>), Goto("b5", 3) >>,
     << I("o1", "binary", <<outer, V("one")>>), I("i2", "binary", <<V("i"), V("o1")>>), Goto("b6", 2) >>,
     << Ret(V("i")) >> >>]

\* 4 is the header of the second loop and the exit of the first
TwoLoops(first, second) ==
  [succ |-> << <<2>>, <<3, 4>>, <<2>>, <<5>>, <<6, 7>>, <<5>>, << >> >>,
   code |-> <<
     << Goto("b1", 2) >>,
     << Count("i", V("one"), "i2", 1, 3), Test("c", V("i")), If("b2", "c", 3, 4) >>,
     first \o << I("i2", "binary", <<V("i"), V("m1")>>), Goto("b3", 2) >>,
     << Goto("b4", 5) >>,
     << Count("j", V("i"), "j2", 4, 6), Test("d", V("j")), If("b5", "d", 6, 7) >>,
     << I("n1", "binary", <<second, V("arg")>>), I("j2", "binary", <<V("j"), V("n1")>>), Goto("b6", 5) >>,
     << Ret(V("j")) >> >>]

\* what is computed on one way through the loop is used on both
LoopWithIf(then) ==
  [succ |-> << <<2>>, <<3, 6>>, <<4, 5>>, <<5>>, <<2>>, << >> >>,
   code |-> <<
     << Goto("b1", 2) >>,
     << Count("i", V("one"), "i2", 1, 5), Test("c", V("i")), If("b2", "c", 3, 6) >>,
     << I("k1", "convert", <<V("arg")>>), Test("d", V("k1")), If("b3", "d", 4, 5) >>,
     then \o << Goto("b4", 5) >>,
     << I("q", "phi", <<V("k1"), BB(3), V("m2"), BB(4)>>),
        I("i2", "binary", <<V("i"), V("q")>>), Goto("b5", 2) >>,
     << Ret(V("i")) >> >>]

\* three loops, each the body of the one around it
ThreeLoops(inner) ==
  [succ |-> << <<2>>, <<3, 8>>, <<4, 7>>, <<5, 6>>, <<4>>, <<3>>, <<2>>, << >> >>,
   code |-> <<
     << Goto("b1", 2) >>,
     << Count("i", V("one"), "i2", 1, 7), Test("c", V("i")), If("b2", "c", 3, 8) >>,
     << Count("j", V("i"), "j2", 2, 6), Test("d", V("j")), If("b3", "d", 4, 7) >>,
     << Count("k", V("j"), "k2", 3, 5), Test("e", V("k")), If("b4", "e", 5, 6) >>,
     inner \o << I("k2", "binary", <<V("k"), V("m1")>>), Goto("b5", 4) >>,
     << I("j2", "binary", <<V("k"), V("one")>>), Goto("b6", 3) >>,
     << I("i2", "binary", <<V("j"), V("one")>>), Goto("b7", 2) >>,
     << Ret(V("i")) >> >>]

\* two loops, one after the other, in the body of a third
SiblingLoops(first, second) ==
  [succ |-> << <<2>>, <<3, 8>>, <<4, 5>>, <<3>>, <<6, 7>>, <<5>>, <<2>>, << >> >>,
   code |-> <<
     << Goto("b1", 2) >>,
     << Count("i", V("one"), "i2", 1, 7), Test("c", V("i")), If("b2", "c", 3, 8) >>,
     << Count("j", V("i"), "j2", 2, 4), Test("d", V("j")), If("b3", "d", 4, 5) >>,
     first \o << I("j2", "binary", <<V("j"), V("m1")>>), Goto("b4", 3) >>,
     << Count("k", V("j"), "k2", 3, 6), Test("e", V("k")), If("b5", "e", 6, 7) >>,
     << I("n1", "binary", <<second, V("arg")>>), I("k2", "binary", <<V("k"), V("n1")>>), Goto("b6", 5) >>,
     << I("i2", "binary", <<V("k"), V("one")>>), Goto("b7", 2) >>,
     << Ret(V("i")) >> >>]

\* while (c) { if (d) continue; else return; }: the block after the if, 6, is not reached
Unreached(inner) ==
  [succ |-> << <<2>>, <<3, 7>>, <<4, 5>>, <<2>>, << >>, <<2>>, << >> >>,
   code |-> <<
     << Goto("b1", 2) >>,
     << Count("i", V("one"), "i2", 1, 4), Test("c", V("i")), If("b2", "c", 3, 7) >>,
     inner \o << I("i2", "binary", <<V("i"), V("m1")>>), Test("d", V("i2")), If("b3", "d", 4, 5) >>,
     << Goto("b4", 2) >>,
     << Ret(V("i2")) >>,
     << Goto("b6", 2) >>,
     << Ret(V("i")) >> >>]

\* a loop and, after it in the same body, a continue; nothing is moved
LoopThenContinue ==
  [succ |-> << <<2>>, <<3, 8>>, <<4, 5>>, <<3>>, <<6, 7>>, <<2>>, <<2>>, << >> >>,
   code |-> <<
     << Goto("b1", 2) >>,
     << I("i", "phi", <<V("one"), BB(1), V("i2"), BB(6), V("i3"), BB(7)>>), Test("c", V("i")),
        If("b2", "c", 3, 8) >>,
     << Count("j", V("i"), "j2", 2, 4), Test("d", V("j")), If("b3", "d", 4, 5) >>,
     << I("j2", "binary", <<V("j"), V("i")>>), Goto("b4", 3) >>,
     << Test("e", V("j")), If("b5", "e", 6, 7) >>,
     << I("i2", "binary", <<V("j"), V("i")>>), Goto("b6", 2) >>,
     << I("i3", "binary", <<V("i"), V("j")>>), Goto("b7", 2) >>,
     << Ret(V("i")) >> >>]

\* no value is fixed: nothing is moved
NothingFixed ==
  [succ |-> << <<2>>, <<3, 4>>, <<2>>, << >> >>,
   code |-> <<
     << Goto("b1", 2) >>,
     << Count("i", V("one"), "i2", 1, 3), Test("c", V("i")), If("b2", "c", 3, 4) >>,
     << I("i2", "binary", <<V("i"), V("i")>>), Goto("b3", 2) >>,
     << Ret(V("i")) >> >>]

MCFunctions ==
  {NestedLoops(c, o) : c \in Chain(V("j")), o \in {V("arg"), V("i")}}
    \cup {TwoLoops(c, s) : c \in Chain(V("i")), s \in {V("one"), V("j"), V("i")}}
    \cup {LoopWithIf(c) : c \in Chain(V("k1"))}
    \cup {ThreeLoops(c) : c \in Chain(V("k"))}
    \cup {SiblingLoops(c, s) : c \in Chain(V("j")), s \in {V("one"), V("k"), V("j")}}
    \cup {Unreached(c) : c \in Chain(V("i"))}
    \cup {NothingFixed, LoopThenContinue}

\* two fixed instructions, the second of which uses the first
MCNested == {NestedLoops(c, V("i")) : c \in Chain(V("j"))}

\* "continue" in the then part: 4 and 5 both branch back to the header
Continue(then, else) ==
  [succ |-> << <<2>>, <<3, 6>>, <<4, 5>>, <<2>>, <<2>>, << >> >>,
   code |-> <<
     << Goto("b1", 2) >>,
     << I("i", "phi", <<V("one"), BB(1), V("i2"), BB(4), V("i2"), BB(5)>>), Test("c", V("i")),
        If("b2", "c", 3, 6) >>,
     << I("i2", "binary", <<V("i"), V("one")>>), Test("d", V("i2")), If("b3", "d", 4, 5) >>,
     then \o << Goto("b4", 2) >>,
     else \o << Goto("b5", 2) >>,
     << Ret(V("i")) >> >>]

MCContinue == {Continue(c, << >>) : c \in Chain(V("i"))}

\* something to move on either way
MCBothWays == {Continue(c, << I("n1", "binary", <<V("arg"), V("arg")>>) >>) : c \in Chain(V("i"))}
=============================================================================
