------------------------------ MODULE MCLiveVar ------------------------------
EXTENDS LiveVar

MCValues == {"x", "y"}

I(val, ops) == [val |-> val, ops |-> ops, from |-> {}]
Phi(val, p) == [val |-> val, ops |-> {}, from |-> {<<"x", p>>}]

\* The sets of different values do not interact, so the bodies are about x only:
\* a block may use it, define it, define it and use it, or have a phi that takes it
\* from one of the predecessors: one that defines x itself, and one that defines y
\* in a block that defines x or does not.
MCBodies ==
  { << >>,
    <<I("void", {"x"})>>,
    <<I("x", {})>>,
    <<I("x", {}), I("void", {"x"})>> }
  \cup UNION { { <<Phi("x", p)>>,
                 <<Phi("y", p)>>,
                 <<Phi("y", p), I("x", {})>> } : p \in 1 .. 3 }
=============================================================================
