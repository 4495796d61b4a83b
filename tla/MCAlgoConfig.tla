---------------------------- MODULE MCAlgoConfig ----------------------------
EXTENDS AlgoConfig

CONSTANTS u1, u2, sw, lin

MCUsers == {u1, u2}
MCKinds == {sw, lin}
=============================================================================
