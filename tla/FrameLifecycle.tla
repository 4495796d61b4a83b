--------------------------- MODULE FrameLifecycle ---------------------------
(***************************************************************************)
(* What the read-back pipeline promises for the frames of a stream: each   *)
(* is made ready at most once and in order, and the oldest ready one is    *)
(* read or dropped before any later one.  A stop forgets them all.         *)
(***************************************************************************)
EXTENDS Naturals

CONSTANT Frames

VARIABLE stage

Init == stage = [f \in Frames |-> "new"]

Newest(f) == stage[f] = "new" /\ \A g \in Frames : g > f => stage[g] = "new"
Oldest(f) == stage[f] = "ready" /\ \A g \in Frames : g < f => stage[g] # "ready"

Prepare(f) ==
    /\ Newest(f)
    /\ \E s \in {"ready", "dropped"} : stage' = [stage EXCEPT ![f] = s]
Finish(f) ==
    /\ Oldest(f)
    /\ \E s \in {"read", "dropped"} : stage' = [stage EXCEPT ![f] = s]
Reset == stage' = [f \in Frames |-> "new"]

Next == Reset \/ \E f \in Frames : Prepare(f) \/ Finish(f)

Spec == Init /\ [][Next]_stage
=============================================================================
