------------------------------ MODULE IspParams ------------------------------
(***************************************************************************)
(* CamHwIsp20: how the parameters the analyzer computes reach the ISP.     *)
(*   - the result thread queues them (setIspParams);                       *)
(*   - the poll thread takes the newest before it reads frame f back       *)
(*     (setIspParamsSync), converts it, lays what users forced over it,    *)
(*     merges it into the full set and queues a buffer for the driver;     *)
(*   - while the stream is off, and always when there is no read-back, the *)
(*     result thread does this itself;                                     *)
(*   - the driver applies the buffers that are due when it processes a     *)
(*     frame; the statistics of the frame ask which parameters it had.     *)
(* A configuration of a module is the number of the result it comes from.  *)
(***************************************************************************)
EXTENDS Integers, Sequences, SequencesExt, FiniteSetsExt

CONSTANTS
    Modules,      \* ISP modules
    Flagged,      \* those a result configures only when it says so
    Terse,        \* those a result does not configure when it has them off
    Forceable,    \* those setModuleStatus can force
    PendingMax,   \* the 8 of setIspParams
    KeepMax,      \* the 4 kept in the effect map
    Bufs,         \* buffers of the parameter device
    MaxFrame,     \* bound: frames of a stream
    MaxSerial,    \* bound: results of a behaviour
    MaxStreams,   \* bound: streams of a behaviour
    MaxTwice,     \* bound: an initial set follows another among these results
    MayFail,      \* queue_buffer may fail
    MayRefuse     \* the sensor may refuse a new mode

ASSUME IspParamsAssumption ==
    /\ Flagged \subseteq Modules
    /\ Terse \subseteq Modules
    /\ Forceable \subseteq Modules \ Flagged
    /\ {PendingMax, MaxFrame, MaxSerial, MaxStreams, MaxTwice} \subseteq Nat
    /\ {KeepMax, Bufs} \subseteq Nat \ {0}
    /\ {MayFail, MayRefuse} \subseteq BOOLEAN

VARIABLES
    state,       \* _state, or "down" once the process has died
    noReadBack,  \* mNoReadBack
    devOn,       \* mIspParamsDev is started: its buffers exist
    streams,     \* streams begun
    pending,     \* _pending_ispparams_queue
    last,        \* _last_aiq_results
    effecting,   \* _effecting_ispparm_map, with the results' numbers
    ens, cfg,    \* _full_active_isp_params
    flags,       \* _force_module_flags
    forceEns,    \* _force_isp_module_ens
    calling,     \* the frame the result thread has to call the sync for
    pc, job,     \* setIspParamsSync under way and its frame
    res, upd,    \* its aiq_results and update_params
    frame,       \* the last frame triggered
    handed,      \* frames the ISP has to process
    queued,      \* parameter buffers the driver holds
    drv,         \* the driver: modules enabled, their configuration
    serial,      \* results so far
    lastId,      \* frame_id of the newest result of the stream
    inForce,     \* history: the result each processed frame was under
    wish,        \* history: modules a user switched off
    missed       \* history: modules an undelivered buffer was to set

engine == <<state, noReadBack, devOn, streams>>
queue == <<pending, last, calling, serial, lastId>>
full == <<ens, cfg, missed>>
force == <<flags, forceEns, wish>>
sync == <<pc, job, res, upd>>
isp == <<frame, handed, queued, drv, inForce>>
vars == <<engine, queue, effecting, full, force, sync, isp>>

None == -1
Frames == 0..MaxFrame
Serials == 1..MaxSerial
Results == [id : 0..(MaxFrame + 1), ser : Serials, upd : SUBSET Flagged,
            on : SUBSET Modules]
NoResult == [id |-> 0, ser |-> 0, upd |-> {}, on |-> {}]
Params == [ens : SUBSET Modules, enUp : SUBSET Modules,
           cfgUp : SUBSET Modules, cfg : [Modules -> 0..MaxSerial]]
NoParams == [ens |-> {}, enUp |-> {}, cfgUp |-> {},
             cfg |-> [m \in Modules |-> 0]]
DriverOff == [ens |-> {}, cfg |-> [m \in Modules |-> 0], src |-> 0]

TypeOK ==
    /\ state \in {"prepared", "started", "stopped", "paused", "down"}
    /\ noReadBack \in BOOLEAN
    /\ devOn \in BOOLEAN
    /\ streams \in 0..MaxStreams
    /\ pending \in Seq(Results) /\ Len(pending) <= PendingMax + 1
    /\ last \in Results \cup {NoResult}
    /\ DOMAIN effecting \subseteq 0..(MaxFrame + 1)
    /\ \A f \in DOMAIN effecting : effecting[f] \in Serials
    /\ Cardinality(DOMAIN effecting) <= KeepMax + 1
    /\ ens \subseteq Modules
    /\ cfg \in [Modules -> 0..MaxSerial]
    /\ flags \subseteq Forceable
    /\ forceEns \subseteq Modules
    /\ calling \in 0..(MaxFrame + 1) \cup {None}
    /\ pc \in {"idle", "send"}
    /\ job \in 0..(MaxFrame + 1) \cup {None}
    /\ res \in Results \cup {NoResult}
    /\ upd \in Params
    /\ frame \in Frames \cup {None}
    /\ handed \in Seq(Frames)
    /\ Len(queued) <= Bufs
    /\ drv \in [ens : SUBSET Modules, cfg : [Modules -> 0..MaxSerial],
                src : 0..MaxSerial]
    /\ serial \in 0..MaxSerial
    /\ lastId \in 0..(MaxFrame + 1)
    /\ inForce \in [Frames -> 0..MaxSerial \cup {None}]
    /\ wish \subseteq Forceable
    /\ missed \subseteq Modules

Init ==
    /\ state = "prepared" /\ noReadBack \in BOOLEAN
    /\ devOn = FALSE /\ streams = 0
    /\ pending = <<>> /\ last = NoResult /\ effecting = <<>>
    /\ ens = {} /\ cfg = [m \in Modules |-> 0]
    /\ flags = {} /\ forceEns = {}
    /\ calling = None
    /\ pc = "idle" /\ job = None /\ res = NoResult /\ upd = NoParams
    /\ frame = None /\ handed = <<>> /\ queued = <<>> /\ drv = DriverOff
    /\ serial = 0 /\ lastId = 0
    /\ inForce = [f \in Frames |-> None]
    /\ wish = {} /\ missed = {}

-----------------------------------------------------------------------------
(* setIspParams, on the result thread. *)

\* Mutant: the bound of the queue is forgotten.
QueueAll(r) == pending' = Append(pending, r)

Queue(r) ==
    pending' = Append(IF Len(pending) > PendingMax THEN Tail(pending)
                                                   ELSE pending, r)

\* The initial parameters of a stream, frame_id 0: the device is started unless
\* it is, and they are sent at once; a second prepare sends a second set, and
\* one for an HDR mode gives the read-back its way.  The first set configures
\* every module.  Without read-back the sync is called once more, and finds
\* nothing queued: the call before took all there was.
SetInitialParams ==
    /\ state \in {"prepared", "stopped", "paused"}
    /\ calling = None /\ pc = "idle"
    /\ serial < MaxSerial
    /\ ~devOn \/ serial < MaxTwice
    /\ \E u \in SUBSET Flagged, on \in SUBSET Forceable :
          /\ serial = 0 => u = Flagged
          /\ Queue([id |-> 0, ser |-> serial + 1, upd |-> u,
                    on |-> on \cup (Modules \ Forceable)])
    /\ serial' = serial + 1
    /\ lastId' = 0
    /\ devOn' = TRUE
    /\ calling' = 0
    /\ noReadBack' \in {noReadBack, FALSE}
    /\ UNCHANGED <<state, streams, last, effecting, full, force, sync, isp>>

\* A result answers the statistics of a processed frame, for the next one.
Answered == {f + 1 : f \in {g \in Frames : inForce[g] # None}}
Ids == {i \in Answered : i > lastId}

SetIspParams ==
    /\ state = "started"
    /\ calling = None
    /\ noReadBack => pc = "idle"
    /\ serial < MaxSerial
    /\ \E i \in Ids, u \in SUBSET Flagged, on \in SUBSET Forceable :
          /\ Queue([id |-> i, ser |-> serial + 1, upd |-> u,
                    on |-> on \cup (Modules \ Forceable)])
          /\ lastId' = i
          /\ calling' = IF noReadBack THEN i ELSE None
    /\ serial' = serial + 1
    /\ UNCHANGED <<engine, last, effecting, full, force, sync, isp>>

-----------------------------------------------------------------------------
(* setIspParamsSync: what is taken, converted and forced. *)

EraseOldest ==
    LET old == {f \in DOMAIN effecting :
                   Cardinality({g \in DOMAIN effecting : g >= f}) > KeepMax}
    IN  [f \in DOMAIN effecting \ old |-> effecting[f]]

\* Mutant: the newest queued is taken even if a newer was in use.
ChosenNewest(f) == Last(pending)

\* The newest queued, unless what was applied last is for a later frame.
Chosen(f) ==
    IF Last(pending).id # f /\ last.id > Last(pending).id THEN last
                                                          ELSE Last(pending)

\* convertAiqResultsToIsp20Params
Converted(r) ==
    LET told == (Modules \ Flagged) \cup r.upd
    IN  [ens |-> r.on \cap told, enUp |-> told,
         cfgUp |-> told \ (Terse \ r.on),
         cfg |-> [m \in Modules |-> IF m \in told THEN r.ser ELSE 0]]

\* Mutant: a module forced off is merely left out of the update.
ForcedSkipped(p, r) ==
    [p EXCEPT !.enUp = @ \ (flags \ forceEns), !.cfgUp = @ \ (flags \ forceEns)]

\* forceOverwriteAiqIspCfg; what the algorithm has off cannot be forced on.
Forced(p, r) ==
    LET on == (flags \cap forceEns) \cap r.on
        off == flags \ forceEns
    IN  [p EXCEPT !.ens = (@ \cup on) \ off, !.enUp = @ \cup on \cup off,
                  !.cfgUp = (@ \cup on) \ off]
Unforced(r) == (flags \cap forceEns) \ r.on

Begin(f) ==
    /\ effecting' = EraseOldest
    /\ IF pending = <<>>
       THEN UNCHANGED <<pending, last, flags, sync>>
       ELSE LET r == Chosen(f)
            IN  /\ res' = r
                /\ upd' = Forced(Converted(r), r)
                /\ flags' = flags \ Unforced(r)
                /\ last' = r
                /\ pending' = IF Last(pending).id = f THEN Front(pending)
                                                      ELSE pending
                /\ pc' = "send" /\ job' = f
    /\ UNCHANGED <<engine, serial, lastId, full, forceEns, wish, queued, drv,
                   inForce>>

\* The poll thread, before it reads the next frame back; without parameters
\* the frame is read back at once.
SyncFrame ==
    /\ state = "started"
    /\ ~noReadBack
    /\ pc = "idle"
    /\ frame < MaxFrame
    /\ frame' = frame + 1
    /\ Begin(frame + 1)
    /\ handed' = IF pending = <<>> THEN Append(handed, frame + 1) ELSE handed
    /\ UNCHANGED calling

\* The result thread, for the parameters it has just queued.
SyncOwn ==
    /\ calling # None
    /\ pc = "idle"
    /\ Begin(calling)
    /\ calling' = None
    /\ UNCHANGED <<frame, handed>>

-----------------------------------------------------------------------------
(* setIspParamsSync: what is merged and sent. *)

\* Mutant: the update of a restart is that of a running stream.
WholeSetNever == FALSE

\* The first buffer of a stream carries the full set.
WholeSet == state # "started"

\* gen_full_isp_params, into the full set with its update bits reset.
Merged ==
    LET e == (ens \ upd.enUp) \cup (upd.ens \cap upd.enUp)
    IN  [ens |-> e,
         enUp |-> IF WholeSet THEN Modules ELSE upd.enUp,
         cfgUp |-> IF WholeSet THEN ens \cup upd.cfgUp ELSE upd.cfgUp,
         cfg |-> [m \in Modules |-> IF m \in upd.cfgUp THEN upd.cfg[m]
                                                       ELSE cfg[m]]]

\* What every way out of the call does: updateIspModuleForceEns, the merge,
\* and the frame goes on to the read-back unless an error is returned.
End(readBack) ==
    /\ pc = "send"
    /\ forceEns' = upd.ens
    /\ ens' = Merged.ens
    /\ cfg' = Merged.cfg
    /\ handed' = IF readBack /\ state = "started" /\ ~noReadBack
                 THEN Append(handed, job) ELSE handed
    /\ pc' = "idle" /\ job' = None /\ res' = NoResult /\ upd' = NoParams
    /\ UNCHANGED <<noReadBack, devOn, streams, queue, flags, wish, frame, drv,
                   inForce>>

\* Mutant: the parameters are recorded for the frame they were computed for.
EffectOfResult(f) ==
    [g \in DOMAIN effecting \cup {res.id} |->
        IF g = res.id THEN res.ser ELSE effecting[g]]

Effect(f) ==
    [g \in DOMAIN effecting \cup {f} |->
        IF g = f THEN res.ser ELSE effecting[g]]

\* The value returned is that of getEffectiveExpParams: when the sensor does
\* not know the exposure of the frame the frame is dropped all the same.
ExposureKnown == IF MayFail THEN BOOLEAN ELSE {TRUE}

SyncSent ==
    /\ devOn
    /\ Len(queued) < Bufs
    /\ \E known \in ExposureKnown : End(known)
    /\ queued' = Append(queued, [frame |-> job, src |-> res.ser, set |-> Merged])
    /\ effecting' = Effect(job)
    /\ missed' = missed \ (Merged.enUp \cap
                              (Merged.cfgUp \cup (Modules \ Merged.ens)))
    /\ UNCHANGED state

\* get_buffer finds none: an error, and the frame is dropped.
SyncNoBuffer ==
    /\ devOn
    /\ Len(queued) = Bufs
    /\ End(FALSE)
    /\ missed' = missed \cup Merged.enUp \cup Merged.cfgUp
    /\ UNCHANGED <<state, effecting, queued>>

\* queue_buffer fails, and the value returned is again that of the call before.
SyncNotQueued ==
    /\ MayFail
    /\ devOn
    /\ Len(queued) < Bufs
    /\ \E known \in ExposureKnown : End(known)
    /\ missed' = missed \cup Merged.enUp \cup Merged.cfgUp
    /\ UNCHANGED <<state, effecting, queued>>

\* get_buffer indexes the empty pool of a stopped device: it may read on as
\* if there were no buffer, or the process dies.
SyncNoPool ==
    /\ ~devOn
    /\ End(FALSE)
    /\ \E s \in {state, "down"} : state' = s
    /\ missed' = missed \cup Merged.enUp \cup Merged.cfgUp
    /\ UNCHANGED <<effecting, queued>>

-----------------------------------------------------------------------------
(* Users force modules on and off. *)

\* A call between the two parts of forceOverwriteAiqIspCfg is undone by
\* updateIspModuleForceEns: such a wish is not recorded.
SetModuleStatus(m, on) ==
    /\ state # "down"
    /\ flags' = flags \cup {m}
    /\ forceEns' = IF on THEN forceEns \cup {m} ELSE forceEns \ {m}
    /\ wish' = IF ~on /\ pc = "idle" THEN wish \cup {m} ELSE wish \ {m}
    /\ UNCHANGED <<engine, queue, effecting, full, sync, isp>>

-----------------------------------------------------------------------------
(* start, stop, pause and resume. *)

\* A refused mode switch resumes what pause() stopped, and nothing more.
Start ==
    /\ calling = None /\ pc = "idle"
    /\ state \in {"prepared", "stopped", "paused"}
    /\ devOn \/ (state = "paused" /\ MayRefuse)
    /\ streams < MaxStreams
    /\ state' = "started"
    /\ streams' = streams + 1
    /\ UNCHANGED <<noReadBack, devOn, queue, effecting, full, force, sync, isp>>

\* The threads are stopped first; the driver is reset by the stream off.
Halt ==
    /\ state = "started"
    /\ pc = "idle" /\ calling = None
    /\ \E s \in {"stopped", "paused"} : state' = s
    /\ devOn' = FALSE
    /\ pending' = <<>>
    /\ effecting' = <<>>
    /\ frame' = None /\ handed' = <<>> /\ queued' = <<>> /\ drv' = DriverOff
    /\ inForce' = [f \in Frames |-> None]
    /\ lastId' = 0
    /\ missed' = {}
    /\ UNCHANGED <<noReadBack, streams, last, calling, serial, ens, cfg, force,
                   sync>>

-----------------------------------------------------------------------------
(* The ISP and its driver. *)

\* Without read-back the frames come to the ISP by themselves.
Arrive ==
    /\ state = "started"
    /\ noReadBack
    /\ frame < MaxFrame
    /\ frame' = frame + 1
    /\ handed' = Append(handed, frame + 1)
    /\ UNCHANGED <<engine, queue, effecting, full, force, sync, queued, drv,
                   inForce>>

\* The driver d once it has applied the buffers q: each module is as the last of
\* them that updates it says.
Enabling(q, m) == {i \in DOMAIN q : m \in q[i].set.enUp}
Configuring(q, m) == {i \in DOMAIN q : m \in q[i].set.cfgUp}
EnAfter(d, q, m) ==
    IF Enabling(q, m) = {} THEN m \in d.ens
                           ELSE m \in q[Max(Enabling(q, m))].set.ens
CfgAfter(d, q, m) ==
    IF Configuring(q, m) = {} THEN d.cfg[m]
                              ELSE q[Max(Configuring(q, m))].set.cfg[m]
Applied(d, q) ==
    [ens |-> {m \in Modules : EnAfter(d, q, m)},
     cfg |-> [m \in Modules |-> CfgAfter(d, q, m)],
     src |-> IF q = <<>> THEN d.src ELSE Last(q).src]

\* How many of the buffers q are due at frame f; none overtakes another.
Due(q, f) ==
    Max({0} \cup {i \in DOMAIN q : \A j \in 1..i : q[j].frame <= f})

\* The ISP processes a frame under the parameters that are due.
Process ==
    /\ state = "started"
    /\ handed # <<>>
    /\ LET f == Head(handed)
           due == Due(queued, f)
       IN  /\ drv' = Applied(drv, SubSeq(queued, 1, due))
           /\ queued' = SubSeq(queued, due + 1, Len(queued))
           /\ inForce' = [inForce EXCEPT ![f] = drv'.src]
    /\ handed' = Tail(handed)
    /\ UNCHANGED <<engine, queue, effecting, full, force, sync, frame>>

\* The statistics of a frame come and ask for its parameters.
GetEffectiveIspParams ==
    /\ state = "started"
    /\ effecting # EraseOldest
    /\ effecting' = EraseOldest
    /\ UNCHANGED <<engine, queue, full, force, sync, isp>>

Next ==
    \/ SetInitialParams \/ SetIspParams
    \/ SyncFrame \/ SyncOwn
    \/ SyncSent \/ SyncNoBuffer \/ SyncNotQueued \/ SyncNoPool
    \/ \E m \in Forceable, on \in BOOLEAN : SetModuleStatus(m, on)
    \/ Start \/ Halt
    \/ Arrive \/ Process \/ GetEffectiveIspParams

Spec == Init /\ [][Next]_vars

-----------------------------------------------------------------------------
(* Properties. *)

Lookup(f) ==
    LET s == {g \in DOMAIN effecting : g <= f}
    IN  IF s = {} THEN None ELSE effecting[Max(s)]

\* Asked for one of the last frames, getEffectiveIspParams answers with the
\* parameters the ISP processed it under, whatever was merged, dropped or
\* erased meanwhile.
EffectiveIsApplied ==
    ~noReadBack /\ state = "started" =>
        \A f \in Frames :
            inForce[f] \notin {None, 0} /\ f > frame - KeepMax =>
                Lookup(f) = inForce[f]

\* Once the driver has applied what is queued it has every module as the full
\* set has it, but for those whose buffer could not be sent: the sparse
\* updates, and the whole set of a restart, leave nothing out.
DriverInSync ==
    state = "started" /\ devOn /\ pc = "idle" /\ queued = <<>> =>
        \A m \in Modules \ missed :
            /\ m \in drv.ens <=> m \in ens
            /\ m \in ens => drv.cfg[m] = cfg[m]

\* Within a stream no module goes back to the configuration of an older result.
NeverGoesBack ==
    [][state = "started" /\ state' = "started" =>
           \A m \in Modules : drv'.cfg[m] >= drv.cfg[m]]_vars

\* A module a user switched off is off after every later call of the sync,
\* until the user asks for it again.
OffStaysOff ==
    [][pc = "send" /\ pc' = "idle" => ens' \cap wish = {}]_vars

\* "merge all pending params": when newer parameters were applied, what older
\* queued ones updated has been taken over too.
NoLostUpdate ==
    \A i \in DOMAIN pending :
        pc = "idle" /\ pending[i].ser < last.ser =>
            \A m \in pending[i].upd : cfg[m] >= pending[i].ser
=============================================================================
