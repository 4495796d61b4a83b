---------------------------- MODULE MCIspParams ----------------------------
EXTENDS IspParams

CONSTANTS goc, awb

MCModules == {goc, awb}
MCFlagged == {awb}
MCForceable == {goc}
MCTerse == {goc}
=============================================================================
