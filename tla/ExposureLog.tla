---------------------------- MODULE ExposureLog ----------------------------
(***************************************************************************)
(* What the readers of the sensor's exposure record may rely on: the log   *)
(* covers an interval of frames that only moves forward, an entry is final *)
(* once it is in the log, and exposures come in the order they were set.   *)
(***************************************************************************)
EXTENDS Naturals, FiniteSets

CONSTANTS
    Exposures,  \* a set of numbers, in the order in which they are set
    Frames      \* 0..n

VARIABLE log

IsLog(l) ==
    /\ DOMAIN l \subseteq Frames
    /\ \A f \in DOMAIN l : l[f] \in Exposures

Ordered(l) == \A f, g \in DOMAIN l : f <= g => l[f] <= l[g]

Init == log = <<>>

\* A stream begins: one exposure for every frame it answers for.
Open ==
    /\ log = <<>>
    /\ \E e \in Exposures, g, h \in Frames : log' = [f \in g..h |-> e]

\* Frames are added at the new end and forgotten at the old one.
Extend ==
    /\ log # <<>>
    /\ DOMAIN log' # {}
    /\ IsLog(log')
    /\ Ordered(log')
    /\ \A f \in DOMAIN log' :
          \/ f \in DOMAIN log /\ log'[f] = log[f]
          \/ \A g \in DOMAIN log : f > g

Close == log' = <<>>

Next == Open \/ Extend \/ Close

Spec == Init /\ [][Next]_log
=============================================================================
