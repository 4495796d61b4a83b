--------------------------- MODULE SensorExposure ---------------------------
(***************************************************************************)
(* SensorHw: exposures are queued by the result thread, written to the     *)
(* sensor by the poll thread at each start of frame, and reported later to *)
(* whoever asks which exposure a frame was taken with.                     *)
(*   - _mutex makes setExposureParams and the two locked parts of          *)
(*     handle_sof atomic; the write to the sensor lies between the two;    *)
(*   - the sensor runs on its own: a start-of-frame event can be lost, and *)
(*     its handler can come so late that the next frame has begun;         *)
(*   - a write can be refused half way: it is recorded like any other.     *)
(* An exposure is a number, in the order in which exposures are set.       *)
(***************************************************************************)
EXTENDS Integers, Sequences, FiniteSetsExt

CONSTANTS
    Modes,        \* [time, gain, dcg, algo]: delays of a mode, kind of AE
    Refusals,     \* what is written of a write that is refused
    TableSizes,   \* lengths of the exposure tables of an algo_id 0 AE
    PoolSize,     \* items of _expParamsPool
    MaxHeld,      \* bound: pool items that other components hold
    KeepMax,      \* the 10 of handle_sof: entries kept in the effect map
    MaxExposure,  \* bound: exposures set in a behaviour
    MaxFrame,     \* bound: frames of a stream
    MaxStreams    \* bound: streams of a behaviour

ASSUME SensorAssumption ==
    /\ IsFiniteSet(Modes)
    \* the time is written last
    /\ Refusals \subseteq SUBSET {"gain", "dcg"}
    /\ TableSizes \subseteq Nat
    /\ {PoolSize, MaxHeld, MaxExposure, MaxFrame, MaxStreams} \subseteq Nat
    /\ KeepMax \in Nat \ {0}
    /\ Modes \subseteq [time : Nat \ {0}, gain : Nat, dcg : Int,
                        algo : {"table", "single"}]
    \* what set_exp_delay_info does not refuse
    /\ \A m \in Modes : m.gain <= m.time /\ m.dcg <= m.time

VARIABLES
    mode,        \* _time_delay, _gain_delay, _dcg_gain_mode_delay
    dcgDelayed,  \* _dcg_gain_mode_delayed
    first,       \* _first
    expList,     \* _exp_list: exposures, with the mark of a table's first
    gainList,    \* _delayed_gain_list
    dcgList,     \* _delayed_dcg_gain_mode_list
    last,        \* _last_exp_time, _last_exp_gain, _last_dcg_gain_mode
    effMap,      \* _effecting_exp_map
    pooled,      \* exposures that live in an item of _expParamsPool
    count,       \* exposures set so far
    streaming,   \* the sensor delivers frames
    streams,     \* streams begun
    frame,       \* the frame the sensor is exposing, -1 before the first
    sofs,        \* start-of-frame events not handled yet
    used,        \* the sensor: what each frame is taken with
    pc, sof,     \* the poll thread in handle_sof and its event
    taken,       \* its locals set_time, set_gain, set_dcg_gain_mode
    prev,        \* the event it handled before
    slipped,     \* history: frames whose setting was written late or refused
    resumed      \* history: the stream was begun without an exposure

hw == <<first, expList, gainList, dcgList, last, effMap, pooled, count>>
config == <<mode, dcgDelayed>>
sensor == <<streaming, streams, frame, used, resumed>>
handler == <<pc, sof, taken, prev, slipped>>
vars == <<config, hw, sensor, sofs, handler>>

Frames == 0..(MaxFrame + Max({m.time : m \in Modes}))
Exposures == 1..MaxExposure
Setting == [time : 0..MaxExposure, gain : 0..MaxExposure, dcg : 0..MaxExposure]
Whole(e) == [time |-> e, gain |-> e, dcg |-> e]
Nothing == [time |-> FALSE, gain |-> FALSE, dcg |-> FALSE]

GainDelayed == mode.time > mode.gain
DcgBetween(m) == m.dcg > 0 /\ m.dcg # m.time /\ m.dcg # m.gain

TypeOK ==
    /\ mode \in Modes
    /\ dcgDelayed \in BOOLEAN
    /\ first \in BOOLEAN
    /\ expList \in Seq([exp : Exposures, head : BOOLEAN])
    /\ gainList \in Seq(Exposures) /\ Len(gainList) <= 1
    /\ dcgList \in Seq(Exposures) /\ Len(dcgList) <= 1
    /\ last \in Setting
    /\ DOMAIN effMap \subseteq Frames
    /\ \A f \in DOMAIN effMap : effMap[f] \in Exposures
    /\ Cardinality(DOMAIN effMap) <= KeepMax + 1
    /\ pooled \subseteq Exposures
    /\ count \in 0..MaxExposure
    /\ streaming \in BOOLEAN
    /\ streams \in 0..MaxStreams
    /\ frame \in -1..MaxFrame
    /\ sofs \in Seq(0..MaxFrame)
    /\ used \in [Frames -> Setting]
    /\ pc \in {"idle", "write", "record"}
    /\ sof \in -1..MaxFrame
    /\ taken \in [time : BOOLEAN, gain : BOOLEAN, dcg : BOOLEAN]
    /\ prev \in -1..MaxFrame
    /\ slipped \subseteq Frames
    /\ resumed \in BOOLEAN

Init ==
    /\ mode \in Modes
    /\ dcgDelayed = DcgBetween(mode)
    /\ first = TRUE
    /\ expList = <<>> /\ gainList = <<>> /\ dcgList = <<>>
    /\ last = Whole(0)
    /\ effMap = <<>>
    /\ pooled = {}
    /\ count = 0
    /\ streaming = FALSE
    /\ streams = 0
    /\ frame = -1
    /\ sofs = <<>>
    /\ used = [f \in Frames |-> Whole(0)]
    /\ pc = "idle" /\ sof = -1 /\ taken = Nothing /\ prev = -1
    /\ slipped = {}
    /\ resumed = FALSE

-----------------------------------------------------------------------------
(* The sensor. *)

\* A register written while frame n is exposed acts from frame n + delay on;
\* written while the sensor is off it acts from the first frame on.
ActsOn(f, delay) == ~streaming \/ f >= frame + delay
DcgActs(f) == ActsOn(f, IF mode.dcg > 0 THEN mode.dcg ELSE mode.time)

\* setLinearSensorExposure and setHdrSensorExposure return at the first register
\* the driver refuses.
Registers == {"time", "gain", "dcg"}
Writes == {Registers} \cup Refusals

Write(s, regs) ==
    LET Hits(r, f) == r \in regs /\ CASE r = "time" -> ActsOn(f, mode.time)
                                     [] r = "gain" -> ActsOn(f, mode.gain)
                                     [] r = "dcg" -> DcgActs(f)
    IN  used' = [f \in Frames |->
                    [time |-> IF Hits("time", f) THEN s.time ELSE used[f].time,
                     gain |-> IF Hits("gain", f) THEN s.gain ELSE used[f].gain,
                     dcg |-> IF Hits("dcg", f) THEN s.dcg ELSE used[f].dcg]]

\* The kernel queues the event of the new frame, or drops it.
NewFrame ==
    /\ streaming
    /\ frame < MaxFrame
    /\ frame' = frame + 1
    /\ \E q \in {sofs, Append(sofs, frame + 1)} : sofs' = q
    /\ UNCHANGED <<config, hw, streaming, streams, used, resumed, handler>>

-----------------------------------------------------------------------------
(* setExposureParams, called by the result thread. *)

\* The first exposure after a stop goes to the sensor at once, and counts as set
\* whether or not the sensor takes it.
SetFirst ==
    /\ first
    /\ count < MaxExposure
    /\ count' = count + 1
    /\ \E regs \in Writes :
          /\ Write(Whole(count + 1), regs)
          /\ slipped' = IF regs = Registers THEN slipped ELSE Frames
    /\ effMap' = [f \in DOMAIN effMap \cup {0} |->
                     IF f = 0 THEN count + 1 ELSE effMap[f]]
    /\ first' = FALSE
    /\ last' = Whole(count + 1)
    /\ UNCHANGED <<config, expList, gainList, dcgList, pooled, streaming,
                   streams, frame, resumed, sofs, pc, sof, taken, prev>>

\* An AE of another maker hands over one exposure at a time.
SetSingle ==
    /\ ~first
    /\ mode.algo = "single"
    /\ count < MaxExposure
    /\ count' = count + 1
    /\ expList' = Append(expList, [exp |-> count + 1, head |-> TRUE])
    /\ UNCHANGED <<config, first, gainList, dcgList, last, effMap, pooled,
                   sensor, sofs, handler>>

\* What is left of the list once the tail of the last table is taken off.
Trimmed ==
    LET heads == {i \in DOMAIN expList : expList[i].head}
    IN  IF heads = {} THEN <<>> ELSE SubSeq(expList, 1, Max(heads))

InUse ==
    pooled \cap UNION {{expList[i].exp : i \in DOMAIN expList},
                       {gainList[i] : i \in DOMAIN gainList},
                       {dcgList[i] : i \in DOMAIN dcgList},
                       {last.time, last.gain, last.dcg},
                       {effMap[f] : f \in DOMAIN effMap}}

\* One item per table entry that finds a place in the pool; when the pool is
\* used up the rest of the table is lost and an error returned.
SetTable(n) ==
    /\ ~first
    /\ mode.algo = "table"
    /\ n > 0
    /\ count + n <= MaxExposure
    /\ \E held \in 0..MaxHeld :
          LET kept == {Trimmed[i].exp : i \in DOMAIN Trimmed}
              gone == {expList[i].exp : i \in DOMAIN expList} \ kept
              room == Max({0, PoolSize - held - Cardinality(InUse \ gone)})
              fits == Min({n, room})
          IN  /\ expList' = Trimmed \o
                     [i \in 1..fits |-> [exp |-> count + i, head |-> i = 1]]
              /\ pooled' = pooled \cup (count + 1)..(count + fits)
    /\ count' = count + n
    /\ UNCHANGED <<config, first, gainList, dcgList, last, effMap, sensor,
                   sofs, handler>>

-----------------------------------------------------------------------------
(* handle_sof, run by the poll thread for each event. *)

\* Mutant: the entry erased is the last of the map.
EraseNewest ==
    LET new == {f \in DOMAIN effMap :
                   Cardinality({g \in DOMAIN effMap : g <= f}) > KeepMax}
    IN  [f \in DOMAIN effMap \ new |-> effMap[f]]

EraseOldest ==
    LET old == {f \in DOMAIN effMap :
                   Cardinality({g \in DOMAIN effMap : g >= f}) > KeepMax}
    IN  [f \in DOMAIN effMap \ old |-> effMap[f]]

\* Mutant: an entry is read and left in the list.
PopNothing(q) == q

Pop(q) == IF q = <<>> THEN q ELSE Tail(q)

\* First locked part: drop old reports, take at most one entry of each list.
SofTake ==
    /\ pc = "idle"
    /\ sofs # <<>>
    /\ sof' = Head(sofs)
    /\ sofs' = Tail(sofs)
    /\ prev' = sof
    /\ effMap' = EraseOldest
    /\ taken' = [time |-> expList # <<>>, gain |-> gainList # <<>>,
                 dcg |-> dcgList # <<>>]
    /\ last' = [time |-> IF expList = <<>> THEN last.time ELSE Head(expList).exp,
                gain |-> IF gainList = <<>> THEN last.gain ELSE Head(gainList),
                dcg |-> IF dcgList = <<>> THEN last.dcg ELSE Head(dcgList)]
    /\ expList' = Pop(expList)
    /\ gainList' = Pop(gainList)
    /\ dcgList' = Pop(dcgList)
    /\ pc' = IF taken' = Nothing THEN "idle" ELSE "write"
    /\ UNCHANGED <<config, first, pooled, count, sensor, slipped>>

\* Which exposure each register is written from.
Composed ==
    IF dcgDelayed THEN [Whole(last.time) EXCEPT !.dcg = last.dcg]
    ELSE IF GainDelayed
    THEN [Whole(last.time) EXCEPT
            !.gain = last.gain,
            !.dcg = IF mode.dcg = mode.time THEN last.time ELSE last.gain]
    ELSE Whole(last.time)

\* The frames between the one the record names and the first the write reaches.
Slips ==
    (IF taken.time THEN (sof + mode.time)..(frame + mode.time - 1) ELSE {})
      \cup (IF taken.gain THEN (prev + mode.time)..(frame + mode.gain - 1) ELSE {})
      \cup (IF taken.dcg THEN (prev + mode.time)..(frame + mode.dcg - 1) ELSE {})

\* A refused write leaves the frames it was for, and all later ones, to the next
\* that is not: a write holds what every register should have.
Due == IF taken.gain \/ taken.dcg THEN prev + mode.time ELSE sof + mode.time

\* Unlocked part: the registers are written; of an error there is only a log.
SofWrite ==
    /\ pc = "write"
    /\ \E regs \in Writes :
          /\ Write(Composed, regs)
          /\ slipped' = IF regs = Registers
                        THEN {f \in slipped : f < frame + mode.time} \cup Slips
                        ELSE slipped \cup {f \in Frames : f >= Due}
    /\ pc' = IF taken.time THEN "record" ELSE "idle"
    /\ UNCHANGED <<config, hw, streaming, streams, frame, resumed, sofs, sof,
                   taken, prev>>

\* Mutant: the delay of the gain is used for the record.
SofRecordGain ==
    /\ pc = "record"
    /\ gainList' = IF GainDelayed THEN Append(gainList, last.time) ELSE gainList
    /\ dcgList' = IF dcgDelayed THEN Append(dcgList, last.time) ELSE dcgList
    /\ effMap' = [f \in DOMAIN effMap \cup {sof + mode.gain} |->
                     IF f = sof + mode.gain THEN last.time ELSE effMap[f]]
    /\ pc' = "idle"
    /\ UNCHANGED <<config, first, expList, last, pooled, count, sensor, sofs,
                   sof, taken, prev, slipped>>

\* Second locked part: what was taken is recorded for the frame it acts on.
SofRecord ==
    /\ pc = "record"
    /\ gainList' = IF GainDelayed THEN Append(gainList, last.time) ELSE gainList
    /\ dcgList' = IF dcgDelayed THEN Append(dcgList, last.time) ELSE dcgList
    /\ effMap' = [f \in DOMAIN effMap \cup {sof + mode.time} |->
                     IF f = sof + mode.time THEN last.time ELSE effMap[f]]
    /\ pc' = "idle"
    /\ UNCHANGED <<config, first, expList, last, pooled, count, sensor, sofs,
                   sof, taken, prev, slipped>>

-----------------------------------------------------------------------------
(* start, stop and the mode switch in between. *)

\* A refused mode switch restarts the sensor as it is, with nothing set.
Start ==
    /\ ~streaming
    /\ ~first \/ streams > 0
    /\ resumed' = first
    /\ streams < MaxStreams
    /\ streaming' = TRUE
    /\ streams' = streams + 1
    /\ UNCHANGED <<config, hw, frame, used, sofs, handler>>

\* stop() comes after the poll thread has ended.  The registers keep what was
\* written last: used[f] of the last frame there is.
Stop ==
    /\ streaming
    /\ pc = "idle"
    /\ expList' = <<>> /\ gainList' = <<>> /\ dcgList' = <<>>
    /\ effMap' = <<>>
    /\ first' = TRUE
    /\ streaming' = FALSE
    /\ frame' = -1 /\ sof' = -1 /\ prev' = -1
    /\ sofs' = <<>>
    /\ used' = [f \in Frames |-> used[Max(Frames)]]
    /\ slipped' = {}
    /\ resumed' = FALSE
    /\ taken' = Nothing
    /\ UNCHANGED <<config, last, pooled, count, streams, pc>>

\* set_exp_delay_info: the mark for a delayed DCG mode is never taken back.
SetExpDelayInfo ==
    /\ ~streaming
    /\ \E m \in Modes :
          /\ m.algo = mode.algo
          /\ mode' = m
          /\ dcgDelayed' = (dcgDelayed \/ DcgBetween(m))
    /\ UNCHANGED <<hw, sensor, sofs, handler>>

-----------------------------------------------------------------------------
SetExposureParams == SetFirst \/ SetSingle \/ \E n \in TableSizes : SetTable(n)
HandleSof == SofTake \/ SofWrite \/ SofRecord

Next == NewFrame \/ SetExposureParams \/ HandleSof
            \/ Start \/ Stop \/ SetExpDelayInfo

Spec == Init /\ [][Next]_vars

-----------------------------------------------------------------------------
(* getEffectiveExpParams: the entry of the frame, or the last one before.  *)
Found(f) == {g \in DOMAIN effMap : g <= f}
Lookup(f) == effMap[Max(Found(f))]

\* The last event that is handled to the end; lookups up to its frame plus the
\* delay of the exposure time are settled.
Done == IF pc = "idle" THEN sof ELSE prev
Horizon == Done + mode.time
Window == {f \in Frames : f > Horizon - KeepMax /\ f <= Horizon}

(* Properties. *)

\* Gain and DCG mode lag the time by at most the one frame the lists delay
\* them, and not both: what the lists can handle ("_gain_delayed should be
\* false" where the DCG mode is delayed).  A DCG delay of 0 is one not set.
GainFits == mode.time - mode.gain <= 1 /\ ~(GainDelayed /\ dcgDelayed)
DcgFits ==
    mode.dcg > 0 /\ mode.time - mode.dcg <= 1 /\ (dcgDelayed = DcgBetween(mode))

\* A lookup for a frame of the window finds an entry (not finding one is the
\* "impossible case" of getEffectiveExpParams), and it is the time, gain and
\* DCG mode the sensor takes the frame with.  Excepted are the frames a late or
\* lost event made slip, those from a refused write to the next that is not, and
\* a stream resumed without an exposure.  A delayed register of the newest
\* frames may still be to be written.
ReportedIsUsed ==
    streaming /\ ~resumed => \A f \in Window \ slipped :
        /\ Found(f) # {}
        /\ Lookup(f) = used[f].time
        /\ GainFits /\ f <= Done + mode.gain => Lookup(f) = used[f].gain
        /\ GainFits /\ DcgFits /\ f <= Done + mode.dcg
               => Lookup(f) = used[f].dcg

\* The reports of a stream are a log that is only extended.
Log == INSTANCE ExposureLog WITH
           Exposures <- Exposures,
           Frames <- Frames,
           log <- IF resumed \/ ~streaming THEN <<>>
                  ELSE [f \in Window |-> Lookup(f)]
LogSpec == Log!Spec
=============================================================================
