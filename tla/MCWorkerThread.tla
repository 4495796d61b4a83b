--------------------------- MODULE MCWorkerThread ---------------------------
(* Two pthread identities are enough for two pthreads to overlap after an  *)
(* early stop(); three cycles let one be stale in the next but one.        *)
EXTENDS WorkerThread

CONSTANTS t1, t2

MCWorkers == {t1, t2}
=============================================================================
