------------------------------ MODULE AlgoConfig ------------------------------
(***************************************************************************)
(* RkAiqAeHandleInt: how an attribute set by an application thread gets to *)
(* the running exposure algorithm.                                         *)
(*   - the handle keeps, for each of six kinds of attributes, the one in   *)
(*     force (mCur), the one to come (mNew) and a mark; mCfgMutex protects *)
(*     them;                                                               *)
(*   - the analyzer thread gives what is marked to the algorithm           *)
(*     (updateConfig) before each frame it runs it on, and signals the     *)
(*     setter, which waits 100 ms at most; before the first statistics the *)
(*     setter does so itself;                                              *)
(*   - RUNNING is set by whichever of the two analyzer threads gets the    *)
(*     first statistics; the handle is of those "isp" runs.                *)
(* Each kind has a set function of its own in the library of the algorithm *)
(* (no source): the model says what each was called with last.  Handles    *)
(* with one attribute (ABLC, ACCM, ADPCC...) are the case of one kind; the *)
(* IQ parameters of ANR and ASHARP, given module by module, are not.       *)
(***************************************************************************)
EXTENDS Integers, FiniteSets

CONSTANTS
    Users,     \* application threads
    Kinds,     \* the attributes: ExpSw, LinExp, HdrExp, their routes, ExpWin
    Values,    \* what an attribute may be
    Memory,    \* what the memory of a new handle, not initialized, may hold
    Default,   \* what the algorithm starts with, before it is given any
    MaxCalls   \* bound: calls of a behaviour that take the mutex

ASSUME AlgoConfigAssumption ==
    /\ IsFiniteSet(Users)
    /\ "nobody" \notin Users
    /\ Kinds # {}
    /\ Memory \subseteq Values
    /\ Default \in Values
    /\ MaxCalls \in Nat

VARIABLES
    mState,              \* RkAiqCore's
    firstStatsReceived,
    enabled,             \* mEnable
    ana,                 \* the two analyzer threads
    ctl,                 \* the application thread in prepare or stop
    mutex,               \* holds mCfgMutex across a step
    upd,                 \* kinds marked: updateExpSwAttr, updateLinExpAttr...
    new, cur,            \* mNew* and mCur*
    ctx,                 \* what the algorithm was last given of each kind
    pc, call,            \* the setters and what they set
    woken,               \* setters signalled
    calls,               \* calls that took the mutex
    sure,                \* history: the frame was begun in RUNNING
    asked,               \* history: the newest call of a kind
    shadowed             \* history: kinds whose newest call found no change
                         \* although the algorithm has, or will have, another

core == <<mState, firstStatsReceived, ctl>>
frames == <<ana, sure>>
handle == <<upd, new, cur, ctx>>
setters == <<pc, call, woken>>
history == <<calls, asked, shadowed>>
vars == <<core, frames, enabled, mutex, handle, setters, history>>

Nobody == "nobody"
Threads == {"isp", "pp"}
Attr == [val : Values, ser : 0..MaxCalls]
Initially(v) == [val |-> v, ser |-> 0]
NoCall == [kind |-> CHOOSE k \in Kinds : TRUE, att |-> Initially(Default)]

TypeOK ==
    /\ mState \in {"inited", "prepared", "started", "running", "stopped"}
    /\ firstStatsReceived \in BOOLEAN
    /\ enabled \in BOOLEAN
    /\ ana \in [Threads -> {"idle", "first", "update", "algos"}]
    /\ ctl \in {"idle", "algos", "joined"}
    /\ mutex \in Users \cup {Nobody}
    /\ upd \subseteq Kinds
    /\ {new, cur, ctx} \subseteq [Kinds -> Attr]
    /\ pc \in [Users -> {"idle", "lock", "check", "apply", "wait"}]
    /\ call \in [Users -> [kind : Kinds, att : Attr]]
    /\ woken \subseteq {u \in Users : pc[u] = "wait"}
    /\ calls \in 0..MaxCalls
    /\ sure \in BOOLEAN
    /\ asked \in [Kinds -> Values]
    /\ shadowed \subseteq Kinds

Init ==
    /\ mState = "inited" /\ firstStatsReceived = FALSE
    /\ enabled \in BOOLEAN
    /\ ana = [t \in Threads |-> "idle"] /\ ctl = "idle"
    /\ mutex = Nobody
    /\ upd = {}
    /\ cur \in [Kinds -> {Initially(v) : v \in Memory}]
    /\ new = cur
    /\ ctx = [k \in Kinds |-> Initially(Default)]
    /\ pc = [u \in Users |-> "idle"]
    /\ call = [u \in Users |-> NoCall]
    /\ woken = {}
    /\ calls = 0
    /\ sure = FALSE
    /\ asked = [k \in Kinds |-> Default]
    /\ shadowed = {}

-----------------------------------------------------------------------------
(* updateConfig, in the mutex. *)

isRunningState == mState = "running"

\* Mutant: only the first of two marked kinds is taken over, both unmarked.
TakeOverFirst ==
    LET ks == IF upd = {} THEN {} ELSE {CHOOSE k \in upd : TRUE}
    IN  /\ cur' = [k \in Kinds |-> IF k \in ks THEN new[k] ELSE cur[k]]
        /\ ctx' = [k \in Kinds |-> IF k \in ks THEN new[k] ELSE ctx[k]]
        /\ upd' = {}

TakeOver ==
    /\ cur' = [k \in Kinds |-> IF k \in upd THEN new[k] ELSE cur[k]]
    /\ ctx' = [k \in Kinds |-> IF k \in upd THEN new[k] ELSE ctx[k]]
    /\ upd' = {}

\* One signal for each kind taken over.
Waiting == {u \in Users : pc[u] = "wait"} \ woken
SendSignals ==
    \E ws \in SUBSET Waiting :
        /\ Cardinality(ws) = IF ~isRunningState THEN 0
                             ELSE IF Cardinality(upd) < Cardinality(Waiting)
                             THEN Cardinality(upd) ELSE Cardinality(Waiting)
        /\ woken' = woken \cup ws

updateConfig == TakeOver /\ SendSignals /\ UNCHANGED new

-----------------------------------------------------------------------------
(* setExpSwAttr and the other five: compare, mark and wait. *)

Call(u) ==
    /\ pc[u] = "idle"
    /\ calls + Cardinality({o \in Users : pc[o] = "lock"}) < MaxCalls
    /\ \E k \in Kinds, v \in Values :
          call' = [call EXCEPT ![u] = [kind |-> k, att |-> Initially(v)]]
    /\ pc' = [pc EXCEPT ![u] = "lock"]
    /\ UNCHANGED <<core, frames, enabled, mutex, handle, woken, history>>

\* if (0 != memcmp(&mCurExpSwAttr, &ExpSwAttr, sizeof(...))), and so on
Changes(u) == call[u].att.val # cur[call[u].kind].val

\* The newest call of a kind: it is lost when it finds no change while another
\* value is marked, or when mCur happens to be equal before anything was given.
Asked(u) ==
    LET k == call[u].kind
        v == call[u].att.val
        will == IF k \in upd THEN new[k].val ELSE ctx[k].val
    IN  /\ calls' = calls + 1
        /\ asked' = [asked EXCEPT ![k] = v]
        /\ shadowed' = IF ~Changes(u) /\ will # v THEN shadowed \cup {k}
                                                      ELSE shadowed \ {k}

Return(u) ==
    /\ pc' = [pc EXCEPT ![u] = "idle"]
    /\ call' = [call EXCEPT ![u] = NoCall]

Mark(u) ==
    /\ pc[u] = "lock"
    /\ mutex = Nobody
    /\ Changes(u)
    /\ Asked(u)
    /\ call' = [call EXCEPT ![u].att.ser = calls + 1]
    /\ new' = [new EXCEPT ![call[u].kind] = call'[u].att]
    /\ upd' = upd \cup {call[u].kind}
    /\ mutex' = u
    /\ pc' = [pc EXCEPT ![u] = "check"]
    /\ UNCHANGED <<core, frames, enabled, cur, ctx, woken>>

NoChange(u) ==
    /\ pc[u] = "lock"
    /\ mutex = Nobody
    /\ ~Changes(u)
    /\ Asked(u)
    /\ Return(u)
    /\ UNCHANGED <<core, frames, enabled, mutex, handle, woken>>

\* Mutant: the mutex is given up before the setter's own updateConfig.
CheckRunningUnlocks(u) ==
    /\ pc[u] = "check"
    /\ pc' = [pc EXCEPT ![u] = IF isRunningState THEN "wait" ELSE "apply"]
    /\ mutex' = Nobody
    /\ UNCHANGED <<core, frames, enabled, handle, call, woken, history>>

\* waitSignal
CheckRunning(u) ==
    /\ pc[u] = "check"
    /\ pc' = [pc EXCEPT ![u] = IF isRunningState THEN "wait" ELSE "apply"]
    /\ mutex' = IF isRunningState THEN Nobody ELSE u
    /\ UNCHANGED <<core, frames, enabled, handle, call, woken, history>>

\* Mutant: the mutex is taken again by the setter that holds it.
ApplyLocks(u) ==
    /\ pc[u] = "apply"
    /\ mutex = Nobody
    /\ updateConfig
    /\ Return(u)
    /\ UNCHANGED <<core, frames, enabled, mutex, history>>

\* updateConfig(false): the setter takes over what is marked.
Apply(u) ==
    /\ pc[u] = "apply"
    /\ updateConfig
    /\ mutex' = Nobody
    /\ Return(u)
    /\ UNCHANGED <<core, frames, enabled, history>>

\* Mutant: the signal stays with the setter for its next call.
WaitEndsKeepsSignal(u) ==
    /\ pc[u] = "wait"
    /\ mutex = Nobody
    /\ Return(u)
    /\ UNCHANGED <<core, frames, enabled, mutex, handle, woken, history>>

\* The wait ends with a signal or after 100 ms, and the call with NO_ERROR.
WaitEnds(u) ==
    /\ pc[u] = "wait"
    /\ mutex = Nobody
    /\ Return(u)
    /\ woken' = woken \ {u}
    /\ UNCHANGED <<core, frames, enabled, mutex, handle, history>>

-----------------------------------------------------------------------------
(* analyze, on the analyzer threads. *)

Streaming == mState \in {"started", "running"} /\ ctl = "idle"

\* Statistics come while the stream is on.  firstStatsReceived is no atomic:
\* the two threads may both find it unset.
Stats(t) ==
    /\ Streaming
    /\ ana[t] = "idle"
    /\ firstStatsReceived' = TRUE
    /\ \E next \in (IF firstStatsReceived THEN {"update"} ELSE {"first"})
                      \cup ({ana[o] : o \in Threads \ {t}} \cap {"first"}) :
          ana' = [ana EXCEPT ![t] = next]
    /\ UNCHANGED <<mState, ctl, sure, enabled, mutex, handle, setters, history>>

SetRunning(t) ==
    /\ ana[t] = "first"
    /\ mState' = "running"
    /\ ana' = [ana EXCEPT ![t] = "update"]
    /\ UNCHANGED <<firstStatsReceived, ctl, sure, enabled, mutex, handle,
                   setters, history>>

\* Mutant: what is marked is left to the next prepare.
UpdateNever ==
    /\ ana["isp"] = "update"
    /\ enabled
    /\ mutex = Nobody
    /\ sure' = isRunningState
    /\ ana' = [ana EXCEPT !["isp"] = "algos"]
    /\ UNCHANGED <<core, enabled, mutex, handle, setters, history>>

\* The handle belongs to the frames of "isp".
Update ==
    /\ ana["isp"] = "update"
    /\ enabled
    /\ mutex = Nobody
    /\ updateConfig
    /\ sure' = isRunningState
    /\ ana' = [ana EXCEPT !["isp"] = "algos"]
    /\ UNCHANGED <<core, enabled, mutex, pc, call, history>>

\* The frame does not get as far as the handle: it is one of "pp", the handle is
\* disabled, the statistics cannot be converted, a pool of results is empty, or
\* an algorithm before it fails.
NoUpdate(t) ==
    /\ ana[t] = "update"
    /\ ana' = [ana EXCEPT ![t] = "idle"]
    /\ UNCHANGED <<core, sure, enabled, mutex, handle, setters, history>>

\* preProcess, processing and postProcess of the handle; they set nothing.
Algos ==
    /\ ana["isp"] = "algos"
    /\ ana' = [ana EXCEPT !["isp"] = "idle"]
    /\ sure' = FALSE
    /\ UNCHANGED <<core, enabled, mutex, handle, setters, history>>

-----------------------------------------------------------------------------
(* prepare, start and stop of the core, and enableAlgo. *)

Prepare ==
    /\ ctl = "idle"
    /\ mState \in {"inited", "prepared", "stopped"}
    /\ mutex = Nobody
    /\ IF enabled THEN updateConfig ELSE UNCHANGED <<handle, woken>>
    /\ ctl' = "algos"
    /\ UNCHANGED <<mState, firstStatsReceived, frames, enabled, mutex, pc,
                   call, history>>

\* The prepare of an algorithm fails.
PrepareFails ==
    /\ ctl = "algos"
    /\ ctl' = "idle"
    /\ UNCHANGED <<mState, firstStatsReceived, frames, enabled, mutex, handle,
                   setters, history>>

\* analyzeInternal, which updates once more if it gets as far as the handle.
Prepared ==
    /\ ctl = "algos"
    /\ \/ enabled /\ mutex = Nobody /\ updateConfig
       \/ UNCHANGED <<handle, woken>>
    /\ mState' = "prepared"
    /\ ctl' = "idle"
    /\ UNCHANGED <<firstStatsReceived, frames, enabled, mutex, pc, call,
                   history>>

Start ==
    /\ ctl = "idle"
    /\ mState \in {"prepared", "stopped"}
    /\ mState' = "started"
    /\ UNCHANGED <<firstStatsReceived, ctl, frames, enabled, mutex, handle,
                   setters, history>>

\* The threads are joined first, and the state follows.
Join ==
    /\ Streaming
    /\ \A t \in Threads : ana[t] = "idle"
    /\ ctl' = "joined"
    /\ UNCHANGED <<mState, firstStatsReceived, frames, enabled, mutex, handle,
                   setters, history>>

Stop ==
    /\ ctl = "joined"
    /\ mState' = "stopped"
    /\ firstStatsReceived' = FALSE
    /\ ctl' = "idle"
    /\ UNCHANGED <<frames, enabled, mutex, handle, setters, history>>

SetEnable ==
    /\ enabled' = ~enabled
    /\ UNCHANGED <<core, frames, mutex, handle, setters, history>>

-----------------------------------------------------------------------------
Proceed(u) == Mark(u) \/ NoChange(u) \/ CheckRunning(u) \/ Apply(u) \/ WaitEnds(u)
Frame(t) == SetRunning(t) \/ NoUpdate(t)
IspFrame == Stats("isp") \/ Frame("isp") \/ Update \/ Algos

Next ==
    \/ \E u \in Users : Call(u) \/ Proceed(u)
    \/ IspFrame
    \/ Stats("pp") \/ Frame("pp")
    \/ Prepare \/ PrepareFails \/ Prepared \/ Start \/ Join \/ Stop \/ SetEnable

Spec == Init /\ [][Next]_vars

\* Nobody has to call, but a call and a frame go on; 3A statistics keep coming
\* while the stream is on, and frames do not for ever fail before the handle.
Fairness ==
    /\ \A u \in Users : WF_vars(Proceed(u))
    /\ WF_vars(IspFrame)
    /\ SF_vars(Update)
    /\ WF_vars(Frame("pp"))

FairSpec == Spec /\ Fairness

-----------------------------------------------------------------------------
(* Properties. *)

\* Once nothing is marked any more the algorithm was last given what the newest
\* call of each kind asked for, unless that call was one of the lost ones.
NewestWins ==
    \A k \in Kinds \ (upd \cup shadowed) : ctx[k].val = asked[k]

\* A frame begun in RUNNING is analyzed with one configuration: the algorithm is
\* given nothing from updateConfig to the last algorithm, since setters that saw
\* another state have left the mutex.
OneConfigPerFrame ==
    [][sure /\ ana["isp"] = "algos" => ctx' = ctx]_vars

\* When a setter that was signalled returns, the algorithm has been given its
\* attribute, or a newer one; one that timed out knows nothing.
SignalledIsApplied ==
    [][\A u \in Users : u \in woken /\ pc'[u] = "idle" =>
           ctx[call[u].kind].ser >= call[u].att.ser]_vars

\* Every call comes back: no setter blocks on the mutex, or on a signal that
\* nobody sends.
SetReturns == \A u \in Users : pc[u] = "lock" ~> pc[u] = "idle"

\* While statistics come and the handle is enabled, what is marked is taken
\* over.
EventuallyTaken ==
    \A k \in Kinds :
        k \in upd ~> (k \notin upd \/ ~enabled \/ ~Streaming)
=============================================================================
