--------------------------- MODULE WorkerService ---------------------------
(***************************************************************************)
(* What start() and stop() of a worker thread promise to their caller: the *)
(* handler runs for one item at a time, only between a start and the       *)
(* return of the matching stop, and stop returns only when it is idle.     *)
(***************************************************************************)
VARIABLES on, busy

vars == <<on, busy>>

Init == on = FALSE /\ busy = FALSE

TurnOn == ~on /\ ~busy /\ on' = TRUE /\ busy' = busy
Begin == on /\ ~busy /\ busy' = TRUE /\ on' = on
End == busy /\ busy' = FALSE /\ on' = on
TurnOff == on /\ ~busy /\ on' = FALSE /\ busy' = busy

Next == TurnOn \/ Begin \/ End \/ TurnOff

Spec == Init /\ [][Next]_vars
=============================================================================
