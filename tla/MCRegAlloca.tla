---------------------------- MODULE MCRegAlloca ----------------------------
(***************************************************************************)
(* Functions for RegMachine: a loop with an if inside, two nested loops    *)
(* and a function on floats and pointers, each for every choice of some of *)
(* its operands.  With three registers of a kind values lose theirs often, *)
(* and with one argument register calls take both paths.                   *)
(***************************************************************************)
EXTENDS RegMachine

I(id, op, ops) == [id |-> id, op |-> op, ops |-> ops, from |-> << >>]
P(id, ops, from) == [id |-> id, op |-> "phi", ops |-> ops, from |-> from]
Br(n, ops) == I(<<"br1", "br2", "br3", "br4", "br5", "br6">>[n], "br", ops)

MCInstrs == {"x0", "y0", "i", "s", "c", "t", "d", "r", "s2", "i2", "e", "z", "j", "j2", "k",
             "p", "q", "f", "h", "f2", "f3", "m", "n", "zx", "w", "st", "ret", "ret2", "vc",
             "px", "py", "pp", "sp", "lp", "dl", "zc",
             "br1", "br2", "br3", "br4", "br5", "br6"}
MCParams  == <<"a", "fa", "pa">>
MCArgs    == Range(MCParams)
MCGlobals == {"g"}
MCConsts  == {"0", "1", "0.5"}
MCFloats  == {"fa", "0.5", "f", "h", "f2", "f3", "m", "w"}
MCBools   == {"c", "d", "zc"}
MCPointers == {"pa", "g", "p", "q", "px", "py", "pp", "lp"}

\* i counts, s accumulates, t goes through a call on one of the ways
IfInLoop(u, v, e) ==
  [succ |-> << <<2>>, <<3, 6>>, <<4, 5>>, <<5>>, <<2>>, << >> >>,
   body |-> <<
     << I("x0", "binary", <<"a", "1">>), I("y0", "load", <<"g">>), Br(1, << >>) >>,
     << P("i", <<"0", "i2">>, <<1, 5>>), P("s", <<"x0", "s2">>, <<1, 5>>),
        I("c", "icmp", <<"i", "a">>), Br(2, <<"c">>) >>,
     << I("t", "binary", <<"s", u>>), I("d", "icmp", <<"t", v>>), Br(3, <<"d">>) >>,
     << I("r", "call", <<"t", "i">>), Br(4, << >>) >>,
     << P("s2", <<"t", "r">>, <<3, 4>>), I("e", "call", <<e>>),
        I("i2", "binary", <<"i", "1">>), Br(5, << >>) >>,
     << I("z", "binary", <<"s", "y0">>), I("ret", "ret", <<"z">>) >> >>]

\* the exit block is laid out after the inner loop, whichever successor comes first
Nested(u, v, order) ==
  [succ |-> << <<2>>, order, <<4, 5>>, <<3>>, <<2>>, << >> >>,
   body |-> <<
     << I("x0", "binary", <<"a", "1">>), I("y0", "load", <<"g">>), I("p", "alloca", << >>),
        I("q", "gep", <<"p", "a">>), Br(1, << >>) >>,
     << P("i", <<"0", "i2">>, <<1, 5>>), I("c", "icmp", <<"i", "a">>), Br(2, <<"c">>) >>,
     << P("j", <<"i", "j2">>, <<2, 4>>), I("d", "icmp", <<"j", u>>), Br(3, <<"d">>) >>,
     << I("j2", "binary", <<"j", v>>), I("st", "store", <<"j2", "g">>), Br(4, << >>) >>,
     << I("i2", "binary", <<"j", "i">>), Br(5, << >>) >>,
     << I("z", "binary", <<"i", "x0">>), I("t", "binary", <<"z", "y0">>), I("vc", "store", <<"1", "q">>),
        I("ret", "ret", <<"t">>) >> >>]

\* f and h stay live across the diamond; m is converted and not used again
OnFloats(u, v) ==
  [succ |-> << <<2, 3>>, <<4>>, <<4>>, <<5, 6>>, << >>, << >> >>,
   body |-> <<
     << I("p", "alloca", << >>), I("q", "gep", <<"p", "a">>), I("st", "store", <<u, "q">>),
        I("f", "load", <<"q">>), I("h", "sitofp", <<"a">>), I("c", "fcmp", <<"f", "h">>),
        Br(1, <<"c">>) >>,
     << I("f2", "binary", <<"f", "0.5">>), Br(2, << >>) >>,
     << I("f3", "binary", <<"h", v>>), Br(3, << >>) >>,
     << P("m", <<"f2", "f3">>, <<2, 3>>), I("n", "fptosi", <<"m">>), I("d", "icmp", <<"n", "a">>),
        I("zx", "zext", <<"d">>), Br(4, <<"d">>) >>,
     << I("vc", "voidcall", <<"zx", "0.5", "q">>), I("w", "binary", <<"fa", "f">>),
        I("ret", "ret", <<"w">>) >>,
     << I("ret2", "ret", <<"f">>) >> >>]

\* A float goes round a loop, with a call on one of the ways.
FloatInLoop(u, v) ==
  [succ |-> << <<2>>, <<3, 6>>, <<4, 5>>, <<5>>, <<2>>, << >> >>,
   body |-> <<
     << Br(1, << >>) >>,
     << P("i", <<"0", "i2">>, <<1, 5>>), P("m", <<"fa", "f3">>, <<1, 5>>),
        I("c", "icmp", <<"i", "a">>), Br(2, <<"c">>) >>,
     << I("f2", "binary", <<"m", u>>), I("d", "fcmp", <<"f2", v>>), Br(3, <<"d">>) >>,
     << I("h", "call", <<"f2">>), Br(4, << >>) >>,
     << P("f3", <<"f2", "h">>, <<3, 4>>), I("vc", "voidcall", <<v>>),
        I("i2", "binary", <<"i", "1">>), Br(5, << >>) >>,
     << I("w", "binary", <<"m", "fa">>), I("ret", "ret", <<"w">>) >> >>]

\* A function as the front end leaves it at -o0: px and py hold scalars, pp the array
\* that is an argument
OnMemory(u, v) ==
  [succ |-> << <<2>>, <<3, 4>>, <<2>>, <<5, 6>>, << >>, << >> >>,
   body |-> <<
     << I("px", "alloca", << >>), I("py", "alloca", << >>), I("pp", "alloca", << >>),
        I("st", "store", <<"a", "px">>), I("vc", "store", <<"fa", "py">>),
        I("sp", "store", <<"pa", "pp">>), Br(1, << >>) >>,
     << I("t", "load", <<"px">>), I("c", "icmp", <<u, "t">>), Br(2, <<"c">>) >>,
     << I("dl", "load", <<"px">>), I("r", "binary", <<"dl", v>>), I("e", "call", <<"r", "dl">>),
        I("k", "store", <<"e", "px">>), Br(3, << >>) >>,
     << I("lp", "load", <<"pp">>), I("q", "gep", <<"lp", "a">>), I("h", "load", <<"q">>),
        I("f", "load", <<"py">>), I("w", "binary", <<"f", "h">>), I("zc", "icmp", <<"a", "1">>),
        Br(4, <<"zc">>) >>,
     << I("ret", "ret", <<"w">>) >>,
     << I("ret2", "ret", <<"0.5">>) >> >>]

MCElem == [v \in MCInstrs |-> IF v = "pp" THEN 8 ELSE 4]
MCLength == [p \in {"p"} |-> 3]

MCFunctions ==
  {IfInLoop(u, v, e) : u \in {"x0", "i", "1", "a"}, v \in {"y0", "a", "s"}, e \in {"i", "t", "s2"}}
    \cup {Nested(u, v, o) : u \in {"i", "a", "x0"}, v \in {"x0", "j", "i"}, o \in {<<3, 6>>, <<6, 3>>}}
    \cup {OnFloats(u, v) : u \in {"fa", "0.5"}, v \in {"f", "fa", "h"}}
    \cup {FloatInLoop(u, v) : u \in {"m", "fa", "0.5"}, v \in {"m", "0.5"}}
    \cup {OnMemory(u, v) : u \in {"a", "1"}, v \in {"a", "t"}}

-----------------------------------------------------------------------------
\* The branch not taken to a name of the source: x = x + b when c, then a = b, b = ...:
\* the phi of a takes the value the phi of b had, and both are in block 2.
Rotated ==
  [succ |-> << <<2>>, <<3, 6>>, <<4, 5>>, <<5>>, <<2>>, << >> >>,
   body |-> <<
     << Br(1, << >>) >>,
     << P("i", <<"0", "i2">>, <<1, 5>>), P("s", <<"a", "j">>, <<1, 5>>), P("j", <<"1", "j2">>, <<1, 5>>),
        I("c", "icmp", <<"i", "a">>), Br(2, <<"c">>) >>,
     << I("d", "icmp", <<"i", "1">>), Br(3, <<"d">>) >>,
     << I("t", "binary", <<"s", "j">>), I("vc", "voidcall", <<"t">>), Br(4, << >>) >>,
     << I("j2", "binary", <<"i", "a">>), I("i2", "binary", <<"i", "1">>), Br(5, << >>) >>,
     << I("ret", "ret", <<"s">>) >> >>]

MCRotated == {Rotated}

\* while (c) { if (d) continue; m = m * 0.5; }: the phi of m is its own operand on the
\* edge of the continue.
Unchanged(u, m, n) ==
  [succ |-> << <<2>>, <<3, 6>>, <<4, 5>>, <<2>>, <<2>>, << >> >>,
   body |-> <<
     << Br(1, << >>) >>,
     << P("i", <<"0", "i2", "i2">>, <<1, 4, 5>>), P(m, <<u, m, n>>, <<1, 4, 5>>),
        I("c", "icmp", <<"i", "a">>), Br(2, <<"c">>) >>,
     << I("i2", "binary", <<"i", "1">>), I("d", "icmp", <<"i2", "a">>), Br(3, <<"d">>) >>,
     << Br(4, << >>) >>,
     << I(n, "binary", <<m, u>>), Br(5, << >>) >>,
     << I("ret", "ret", <<m>>) >> >>]

MCUnchanged == {Unchanged("0.5", "m", "f2")}
=============================================================================
