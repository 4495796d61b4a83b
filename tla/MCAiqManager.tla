---------------------------- MODULE MCAiqManager ----------------------------
(* One application thread that makes every call and one that only switches; *)
(* the modes other than Normal are interchangeable.                         *)
EXTENDS AiqManager, TLC

CONSTANTS m1, m2, n, hdr2, hdr3

MCUsers == {m1, m2}
MCModes == {n, hdr2, hdr3}
MCSymmetry == Permutations({hdr2, hdr3})

\* hwPrepare: an application must not start after a prepare that failed half way.
\* hwStart: see README.md, a failed start is not undone.
MCFaults == FaultySteps \ {"hwPrepare", "hwStart"}
MCNone == {}
=============================================================================
