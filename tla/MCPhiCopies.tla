---------------------------- MODULE MCPhiCopies ----------------------------
EXTENDS PhiCopies

OneOperand == {<<1>>}

\* a and a && b
SmallShapes == {<<1>>, <<2>>}
=============================================================================
