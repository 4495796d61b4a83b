--------------------------- MODULE MCHdrReadback ----------------------------
(* Two buffers per device, three or four frames: buffers are reused, and a  *)
(* pool can starve while frames wait for their pair, the luma or the ISP.   *)
EXTENDS HdrReadback, TLC

CONSTANTS b1, b2

MCBufs2 == {b1, b2}
MCSymmetry2 == Permutations(MCBufs2)
=============================================================================
