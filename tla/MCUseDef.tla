------------------------------ MODULE MCUseDef ------------------------------
EXTENDS UseDef

CONSTANTS c, phi, add

MCUsers == {phi, add}
MCValues == {c, phi, add}
=============================================================================
