# Formal model of the Rockchip AIQ engine (camera_engine_rkaiq)

The engine runs the control loop of a camera: the ISP delivers raw frames and
3A statistics, the algorithms compute exposure and ISP parameters from them, and
the results go back to sensor and ISP, a few frames later.  The code is C++ with
a dozen threads, hand-written condition variables and a manual life cycle, and
almost no tests.  This directory holds TLA+ models of its concurrent core, the
TLC runs that check them, and TLAPS proofs of every safety property those runs
check, for all values of the constants.

Run everything from this directory:

    tlc -workers 2 -config MCWorkerThread_all.cfg MCWorkerThread
    tlapm WorkerThread_proof.tla      # and each other module of section 5

`PROJECT.json` lists the runs, the source lines behind every definition (`map`),
the hazards of the code with the properties that cover them, the findings, and
one mutant for each property: a changed definition that makes it fail.

## 1. Inventory

| component | code | state | operations |
|---|---|---|---|
| Worker thread | `xcore/xcam_thread.cpp`, `xcore/safe_list.h` | `_started`, `_stopped`, the list and `_pop_paused` | start, emit_stop, stop, push, blocking and timed pop, pause, resume, clear |
| Engine manager | `RkAiqManager.*`, `uAPI/rk_aiq_user_api_sysctl.cpp` | `_state`, `mWorkingMode`, result queue, command queue | init, prepare, start, stop, deInit, swWorkingModeDyn_msg, setMirrorFlip, result and event callbacks |
| Analyzer core | `aiq_core/RkAiqCore.cpp`, `RkAiqHandle*.cpp` | `mState`, `mAlogsSharedParams`, pools of results, the statistics kept for users | prepare, start, stop, pushStats, analyze, get/release of statistics, attributes of each algorithm |
| Luma analyzer | `aiq_core/RkLumaCore.cpp` | `mState`, `mWorkingMode`, its queue | prepare, start, stop, push of luma statistics, luma_analyze |
| Read-back pipeline | `hwi/isp20/Isp20PollThread.cpp`, `xcore/v4l2_device.cpp`, `xcore/v4l2_buffer_proxy.cpp` | tx and rx buffer lists, `_isp_hdr_fid2ready_map`, `_isp_hdr_fid2times_map`, skip window | tx poll, pairing, triggering, luma info, rx poll, skip, start, stop |
| ISP parameter queue | `hwi/isp20/CamHwIsp20.cpp`, `hwi/isp20/Isp20Params.cpp` | pending results, the full set, forced modules, effective parameters by frame id | setIspParams, setIspParamsSync, getEffectiveIspParams, setModuleStatus, start, stop, pause, resume |
| Sensor exposure | `hwi/SensorHw.cpp` | pending exposures, delay lists of gain and DCG, effective map | setExposureParams, handle_sof, getEffectiveExpParams, stop |
| Lens and flash | `hwi/LensHw.cpp`, `hwi/FlashLight.cpp` | positions, timings, light state | setFocusParams, handle_sof, setParams |
| Event and statistics polling | `xcore/poll_thread.cpp`, `hwi/isp20/Isp20StatsBuffer.cpp` | one thread and stop pipe for each device | start, stop, poll loops |
| Conversion, discovery, algorithms, IQ parser, HAL adapter, simulator, demo | `Isp20Params.cpp`, `CamHwInfo.cpp`, `algos/`, `iq_parser/`, `hal_interface2.0/`, `simulator/`, `rkisp_demo/` | none that evolves with the concurrent core | - |

How they interact.  The application calls the manager (sysctl API) on its own
threads.  The manager calls the components synchronously and without a lock.  The
poll threads of the hardware call back: statistics and start-of-frame events into
the analyzer's and the luma analyzer's queues, luma infos from the luma thread
into the read-back pipeline.  The analyzer thread ends a frame in
`rkAiqCalcDone`, which pushes the result to the apply thread of the manager; that
thread sets sensor, lens, flash and ISP parameters.  A working-mode switch goes
through a fourth thread, the command thread, while its caller waits.

What is hard here, component by component, and what has to hold:

* Worker threads: start, stop and the pthread's own end share two flags over
  three critical sections; `stop()` waits on a condition once; callbacks push in
  any state.  A stop is synchronous and always comes back, two pthreads never
  share an object, what is handled belongs to this cycle, and nothing waits for ever.
* Read-back: N poll threads, the luma thread and the ISP share maps and buffers,
  and frames, luma statistics and ioctls get lost.  The exposures the ISP merges
  are of one frame, no buffer is overwritten before it is read, frames are read in
  order and at most once, skipped ones are not read, every complete one is served.
* Statistics for users: recycling, references handed out, blocking waits with and
  without timeout, and a stop that takes no mutex.  No item is lost or has two
  owners, a reference stays stable, and a waiter is served unless others take what it
  was woken for.
* Manager: calls of several threads interleave without a lock, every step may
  fail, and the components have state machines of their own.  A stop stops
  everything, the hardware never streams in a mode the analyzer was not prepared
  for, and callers of a switch come back.
* Exposure: three registers take effect after different delays, the events that
  drive the writes are late or lost, and the record is read by threads that lag
  behind.  But where a write is late or refused, what is reported for a frame is what the
  sensor took it with.
* Parameter queue: results arrive late or not at all, are overtaken, forced or
  refused a buffer, and take effect frames later.  The driver ends up with what
  the engine believes it has, nothing goes back, users' wishes stay in force.
* Algorithm attributes: API threads hand them over to the analyzer; the newest
  value wins, a frame sees one configuration, a synchronous call comes back and,
  when it was signalled, has been served.

## 2. The modules

| module | models | checked by |
|---|---|---|
| `WorkerThread` | XCam::Thread with its SafeList, as the four threads of the engine use it | `worker`, `WorkerThread_proof` |
| `WorkerService` | what a controller may rely on: items are handled only between start and the return of stop | refined by `WorkerThread` (`ServiceSpec`, proved) |
| `HdrReadback` | tx and rx poll threads, luma hand-over, V4L2 buffers, skip window | `readback_*`, `HdrReadback_proof` |
| `FrameLifecycle` | a frame is made ready once and in order, and ends as read or dropped before any later one | refined by `HdrReadback` (`LifecycleSpec`, proved) |
| `StatsCache` | the 3A statistics `RkAiqCore` keeps for users | `stats_*`, `StatsCache_proof` |
| `AiqManager` | the calls on the manager, its command and apply threads, and the state machines of the components it drives | `manager_*`, `AiqManager_proof` |
| `SensorExposure` | `SensorHw`: exposures queued, written at each start of frame and recorded, with the sensor that takes the frames | `exposure_core`, `SensorExposure_proof` |
| `ExposureLog` | what readers of the record rely on: a window of frames that only moves forward, whose entries are final and in the order they were set | refined by `SensorExposure` (`LogSpec`, proved) |
| `IspParams` | `CamHwIsp20` and `Isp20Params`: pending results, forced modules, the full set, and the driver that applies buffers | `isp_*`, `IspParams_proof` |
| `AlgoConfig` | `RkAiqAeHandleInt` and `RkAiqHandleIntCom`: setters, both analyzer threads, prepare, start, stop | `algo_core`, `AlgoConfig_proof` |
| `SetLemmas` | nothing of the code: lemmas about Max, Min and cardinality that the proofs about `HdrReadback`, `SensorExposure` and `IspParams` share | TLAPS |

The state variables carry the names of the members they stand for, in a comment
at their declaration.  Each `MC` module gives the constants small values.

**WorkerThread.**  One action is one critical section of `Thread::_mutex` or of
the list's mutex.  `TrigerStart`/`ResumePop`/`ThreadStart` are
`triger_start(); start();`, `TrigerStop`/`ThreadStop` (and `Exit`, which wakes it)
`triger_stop(); stop();`.  `Check`, the three `Pop` actions, `HandleItem`,
`ClearQueue` and `Exit` are `thread_func` and `loop`.  `Push` may happen at any
moment.  `ClearOnStart` tells `RkAiqCoreThread`, whose `triger_start` clears its
list, from the other three.

**HdrReadback.**  `Capture` is the driver; `TxPush`, `SyncNothing`, `SyncSkip`,
`SyncMatch`, `MarkReady` and `TxTrigger` are one pass of a tx poll thread, split
where `_mipi_buf_mutex` and `_mipi_trigger_mutex` are taken and dropped.  A
poll thread keeps references to the buffers it works on (`hold`): a buffer
returns to the driver when the last reference dies (`Free`), which is what makes
`NoOverwrite` more than a reading of one list.  `LumaInfo`/`LumaTrigger` are
`set_hdr_frame_readback_infos` on the luma thread.  `TriggerReadback` is one step
with its four ends: parameters cannot be set (`DropFrame`), no rx index
(`NoRxBuffer`), VIDIOC_QBUF fails (`QueueFails`), triggered (`ReadBack`).
`NeedLuma` FALSE, the configuration of ISP21 (`CamHwIsp21.cpp:57`), adds no
behaviour: it is the one in which each info is there before its frame.
`CacheMatchesReady` compares the frames in a cache with `_isp_hdr_fid2ready_map` as
sets, and says apart that the cache rises: `trigger_readback` takes the first of both.

**StatsCache.**  Operations on the list and the map are one step each (they hold
`ispStatsListMutex`), except that a user who found nothing keeps the mutex until
it enters the wait.  The five statements of `RkAiqCore::stop` are separate steps,
because stop does not take the mutex.  Frame ids are told apart modulo `MaxFrame`,
so that frames never end: a wait whose timeout is started again at each wakeup can
go on for ever in the model as in the code.

**AiqManager.**  A call is the list of the component calls it has still to make
(`Script`); each component call is one step with the guard of that component's
state machine and the error path of `RKAIQMNG_CHECK_RET`.  How a component starts
and joins its thread is in `WorkerThread`.  The application obeys the API docs: it
prepares when not started, starts after a prepare, and calls deinit when not
started and with no other call in progress.  Switches may come from any of its
threads (`rkisp_demo/demo/rkisp_demo.cpp:635-648` makes them from one of its own).

**SensorExposure.**  `SofTake`, `SofWrite` and `SofRecord` are `handle_sof`, split
where `_mutex` is dropped; the sensor may begin its next frame between them.
`Write` says what a register write does: time, gain and DCG mode act on all
frames from the current one plus their own delay on, and a write that the driver
refuses half way (`Refusals`) leaves out the registers it has not reached; the code logs
that and goes on.  `used` is what each frame is really taken with, kept apart from what the code records (`effMap`), so that
`ReportedIsUsed` compares the two.  An event can be dropped by the kernel or
handled when the next frame has begun; the frames whose setting then misses its
time are collected in `slipped`, computed from the true frame number, with those
from a refused write to the next that is not.  Six
modes stand for the sensors: gain as late as the time or one frame earlier, DCG
with either or between, tables (`algo_id` 0) or single exposures.  A DCG delay of
0 is one the IQ file does not set: the sensor then has no DCG register to agree with
(`DcgFits`).  `ExposureLog` begins a stream with a window that need not start at
frame 0, because a delay may be longer than the record.

**IspParams.**  A configuration of a module is the number of the result it comes
from, so "older" and "lost" can be said.  `Begin` is `setIspParamsSync` up to
`forceOverwriteAiqIspCfg`, `End` from `updateIspModuleForceEns` on, with its four
ends: sent, no buffer, VIDIOC_QBUF failed, no buffers at all.  Modules are
`Flagged` when a result configures them only if it says so (AWB, AF, AE and
histogram, LDCH; DHAZ, RAWAWB and GAIN, which it mentions only when they are on), `Terse`
when a result that has them off says so without configuring them (GOC; LSC, CCM, BLS,
DPCC, 3DLUT, RAWNR and AF are configured in any case), and `Forceable` when
`setModuleStatus` can force them.  Without read-back `setIspParams` calls the sync a second
time for the initial set (3050); the first call has emptied the queue, so the second does
nothing.  Both
read-back and no-read-back operation are initial states, and a prepare may bring
the read-back (an HDR mode).  The driver applies, in
order, the buffers whose frame has come; what it has of a module afterwards is said
by the last of them that enables or configures it (`EnAfter`, `CfgAfter`).

**AlgoConfig.**  The handle of AE has six kinds of attribute, each with its mark and a
set function of its own (`rk_aiq_uapi_ae_set*`, in the library of the algorithm, which comes
without source): `ctx` says what each of them was called with last, not what AE does with
it.  `Mark`, `CheckRunning`, `Apply` and `WaitEnds` are a setter, in the mutex unless it
waits.  `Update` and `Algos` are `preProcess` and the rest of an ISP frame; `NoUpdate` is a
frame that does not get as far; the post-processing thread matters because it, too,
may set RUNNING.  `mCur` begins with whatever the memory of a new handle holds
(`Memory`; this class initializes nothing), the algorithm with its default.  Handles with
one attribute are the case of one kind.  ANR and ASHARP are not covered: their IQ
parameters are given module by module, and ANR derives what its attribute sets from them
(section 4).

## 3. The runs, their bounds and fairness

* `worker`: two pthread identities, two pushes, three cycles, with spurious
  wakeups and handlers that end the thread, and a `triger_start` that keeps the list
  (results, luma, commands).  Two pthreads can overlap after an early `stop()`, and
  with three cycles an item can be stale in the cycle after the next one.  The
  other kind of list, cleared on start, only has fewer stale items; the theorems
  hold for both and say that no bound matters for safety.
* `readback_safety`: two devices, two buffers each, four frames between restarts,
  every fault allowed at once.  A device starves at frame 3 at the earliest and
  another one does not, so frame 4 is the first at which the heads of the lists
  are of different frames.  Both fault histories (`missed`, `unqueued`) are
  reached, as are the states in which the guarded property fails: with one refused
  rx buffer exposures of different frames are merged from then on; after one
  failed VIDIOC_QBUF a buffer can be overwritten while the ISP reads it.  Restarts
  forget these histories.
* `readback_flip`: the same two devices and buffers with every fault, three frames
  between restarts and one mirror/flip call of one or two frames per stream.  The
  guard of `FlipWindow` is reached, and so is the case it excuses: a frame captured
  before the call, still waiting for its pair, uses up one of two skips, the next
  frame the other one, and the last frame of the window is read.  Two frames can
  be ready at once, so that for `LifecycleSpec` it matters which of them is taken.
  All readback runs wait for luma statistics, the harder mode; the theorems also
  hold for streams without them (`NeedLuma` FALSE) and for any number of devices.
* `readback_live`: three frames, without faults and flips and with fairness.  The
  fairness is that poll threads and luma thread are scheduled, the ISP finishes
  what it was triggered for, and the sensor streams.  Stops are not required.
  Luma statistics must arrive: one trigger serves one frame, so when some are lost
  the last frames before the sensor ends have no trigger left.  In a stream
  without end the next frame would bring it.
* `stats_core`: two users, two pool items, frame ids modulo two, frames and restarts
  without end: both users can hold all items, recycling and dropping happen, and items
  cross a restart.
  Strong fairness of the steps that take `ispStatsListMutex` (a thread that wants a
  mutex which is free again and again gets it), and of the wait's own steps (each
  step of a user inside a call is enabled in a place of its own, so one condition
  for each user says it); weak fairness of a stop that has begun.  A user may be woken
  for ever and find that another one has taken the statistics, and its timeout begins anew
  each time (`RkAiqCore.cpp:2235-2242`): both liveness properties except the user whom
  others overtake, or restarts interrupt, for ever; without either exception TLC finds them
  violated.
* `manager_calls`: three modes, of which two are interchangeable, two application
  threads, two queued results, calls one after the other.  Switches may be refused
  and the analyzer's prepare, applying, stop, pause and resume may report errors.
  Not among the faults: a failing hardware start (see observations), and a failing
  hardware prepare, which leaves the hardware in the new mode and the analyzer in the
  old one for an application that calls start all the same.  Fairness:
  the threads are scheduled; nobody has to make a call.

* `exposure_core`: tables of one or two entries, four exposures, four frames, two
  streams, a pool of three items of which others may hold one, and a record of
  two entries (10 in the code).  A table meets an unfinished ramp and an exhausted pool;
  two frames may slip in a row.  A refused write has set the gain and not the time, which
  makes the registers disagree; the theorems are about every other refusal, too.
* `isp_core`: one flagged and one forceable module, four results, four frames, two
  streams, two buffers, two pending results before the queue is cut (9 in the
  code) and three recorded ones (5).  A result can be overtaken by two others, both
  buffers can be in flight, and the second stream restores what the first left.
  A second prepare before the first start sends a second initial set
  (`MaxTwice` keeps this to the first two results).  The forceable module is `Terse`.
* `isp_lost`: the same with three frames, and a forceable module that is always configured.
* `algo_core`: two setters, two kinds, two values, three calls.  With two setters
  one can time out while the other's mark is taken over, and a signal can go to
  either.  Fairness: a setter's own steps (its wait ends after 100 ms at the
  latest), frames while the stream is on, and the post-processing thread's frames
  once begun; nobody has to call.  Frames do not for ever end before the handle
  (strong fairness of `Update`): a conversion that fails or a pool that is empty
  (`RkAiqCore.cpp:2724-2729`, 415-450) is taken as passing.

Deadlock checking is off everywhere because an application that makes no further
call, or a bound that is exhausted, stops the model legitimately.  That nothing
waits for ever while there is work is what the liveness properties say.  Symmetry
is used only in runs without a liveness property.

## 4. Findings

Three runs expect a violation: the code contradicts what it or its API says.

* `stats_stop`: `RkAiqCore::stop` sets the state and broadcasts without the mutex
  of the condition; a user with timeout -1 about to wait sleeps on.
* `manager_race`: the switch checks `_state` once, on another thread; after a stop
  that returned success the hardware and all threads may run again, and the
  manager believes it is stopped.
* `isp_lost`: "merge all pending params" takes only the newest result; updates that
  an older one alone announced never reach the hardware.

Observations made on the way: they follow from a single place in the code, or no
line of the repository contradicts them in so many words.  Where a property has
to leave such behaviours out, it names a history variable that records them, and
the run reaches them.

Manager and statistics:

* A restart from STOPED that fails in `mCamHw->start()` (`RkAiqManager.cpp:314`)
  returns with three threads up and the state still STOPED; `stop()` then returns
  success at once.  Adding "hwStart" to `MCFaults` makes `StopStops` fail.
* A switch that the hardware refuses goes to `restart`, records the refused mode
  in `mWorkingMode` (`RkAiqManager.cpp:861, 900`) and reports success.
  A second request for the mode is swallowed at line 825.
* A switch that fails on the way (the analyzer's prepare, pausing, resuming) returns with
  components down and the state still STARTED: `StartedRuns` is about a start and a switch
  that reach their end.
* The apply thread is stopped before the analyzer (834-841) and its queue not
  cleared on restart: a result of the old mode that comes in between is applied
  after the switch (`late`, left out of `OnlyLateMisfit`).
* "2. stop luma analyzer, re-preapre with the new mode" (833): `swWorkingModeDyn`
  only stops and starts it; `RkLumaCore::prepare` is called by the first prepare alone.
* `RkAiqCore::stop` takes back statistics items whose references users still hold
  (line 292; `include/uAPI/rk_aiq_user_api_sysctl.h:246-247` lets them be held until
  released); the next cycle overwrites them (`kept` in `StatsCache`).
* One exposure lost on one MIPI device misaligns the heads of the lists for good
  (`TornBefore` in `EveryFrameServed`): no later frame is paired until a restart.

Exposure (`SensorHw.cpp`):

* A refused switch restarts the sensor with an empty record and `_first` set; until
  an exposure comes every lookup takes the branch "impossible case !" (532), and
  `setIspParamsSync`, which returns that error, drops the frames (`resumed`).
* The delay lists delay by one frame, whatever the difference of the delays is, and
  handle either a delayed gain or a delayed DCG mode ("_gain_delayed should be
  false", 675): `GainFits`, `DcgFits`.  `_dcg_gain_mode_delayed` is never reset (952).
* An exposure the sensor refuses is logged and recorded all the same (706-723; the first
  one not even logged, 421-424): until a write is accepted the reports are wrong (`slipped`).
  `getEffectiveExpParams` takes the mutex only under `ADD_LOCK`, which nothing defines.

ISP parameters (`CamHwIsp20.cpp`, `Isp20Params.cpp`):

* `resume()` does not start the parameter device that `pause()` stopped (2250, 2351):
  after a refused switch every `setIspParamsSync` searches a pool that is gone
  (`v4l2_device.cpp:1028`); at best the frame is dropped (`SyncNoPool`).
* "Can not get buffer" and a failed VIDIOC_QBUF lose the update for the driver (`missed`);
  the latter, and a failed conversion, return the exposure lookup's success.
* Without read-back a late result is recorded for frames that are already through:
  `EffectiveIsApplied` is about read-back.
* The clearing of `update_params` is commented out (2879): a flagged module that is
  forced on without having been converted is sent uninitialized.  `Forceable`
  therefore excludes `Flagged`.
* `setModuleStatus` between `forceOverwriteAiqIspCfg`'s reading and
  `updateIspModuleForceEns` is undone (`wish`).  Its case RK_MODULE_RAWNR has no
  break and also forces DPCC.
* The post-processing queue is merged from the newest to the oldest (3177): the
  oldest pending result wins.

Attributes (`RkAiqHandleInt.cpp`):

* The setters compare with `mCur`: while B is marked, setting the value in force again is
  dropped and B wins; and the first call for a kind is compared with memory nothing has
  initialized (`RkAiqHandleInt.h:149-160`; zeros in other handles), and is dropped when it
  happens to be equal (`shadowed`).
* ANR's `SetIQPara` writes only the modules in `module_bits` (`rk_aiq_uapi_anr_int.cpp:41-69`).
  A second call before `updateConfig` overwrites `mNewIQpara`, and what the first asked for
  in other modules is never applied, although it is signalled and returns success.  The
  parameters are converted in the next `ANRPreProcess` (`rk_aiq_anr_algo.cpp:192-205`,
  449-497), which overwrites what `setAttrib` wrote to `stAuto`.
* A call that times out returns success without having been applied.
* `isRunningState` is read without a lock while the other analyzer thread may be
  about to write it: a setter can then change the context in the middle of an
  ISP frame (`sure`).
* Setters of a disabled handle always wait 100 ms; the ones that write the context
  directly (ANR strengths) and all getters take no lock; `RkAiqAgammaHandleInt::setAttrib`
  calls `sendSignal` where the others call `waitSignal`.

## 5. What is proved

Every safety property that a passing run checks is a theorem of TLAPS: the type
invariant, the invariants, the action properties and the refinements of the seven
components.  TLC shows them for the small constants of section 3; the theorems hold
for all values of the constants: any number of devices, buffers, users, modules,
pool items, modes and delays, and every bound.  `SetLemmas` holds the facts about Max, Min
and cardinality that three of the proofs share.

Assumed are only the `ASSUME`s of the modules: bounds are natural numbers; sets that
Max is taken over or cardinality counts are finite; an HDR pipeline has a device, a record room for an
entry, a handle an attribute; the time is the last register of a write; no delay exceeds that of the exposure time, which
`set_exp_delay_info` sees to.  TLC evaluates them on every run.  Two kinds of theorem
carry hypotheses of their own: those about `AiqManager` below, and those whose
property names a history variable for what the code is known to get wrong
(`missed`, `unqueued`, `kept`, `slipped`, `resumed`, `shadowed`, `sure`, `late`; section 4).

The pattern is the same everywhere: an inductive invariant, one lemma for each of its
parts or each action, and theorems that follow from it.  TLC checked each invariant
before it was proved.

**WorkerThread** (`TypeOK`, `StopIsSynchronous`, `OneWorker`, `FreshWork`, `InOrder`,
refinement of `WorkerService`).  The properties are not inductive.  `Handshake` is,
given `TypeOK`: as long as no stop came back early, at most one pthread is alive,
`_stopped` is set exactly when none is, and it is set whenever the controller is
outside a cycle.  The equivalence with `_stopped` is what the properties lack: it shows
that `ThreadStart` finds no live pthread and that `ThreadStop` skips its wait only
when there is none.  `FreshWork` needs `Cleared` (with no pthread left that will clear,
everything queued was pushed late) and `QueueFresh`: a new cycle begins only where
`Handshake` leaves no pthread that will clear.  `InOrder` follows from `Ordered`:
identities grow along the list and exceed those of all jobs.  For the refinement, no
handler is running when the service goes off, unless a stop returned early, and then it
does not go off.

**HdrReadback** (`TypeOK`, `CacheMatchesReady`, `SameExposure`, `NoOverwrite`,
`FlipWindow`, refinement of `FrameLifecycle`).  The frames of a device form one stream
(`Ordered`): cache before tx list before what the driver has filled, each rising.
Together with `OneInside` (`_mipi_buf_mutex` lets one thread into `sync_tx_buf`) it
follows that the frame being marked is newer than all ready ones; then the caches hold
what is ready and nothing else (`Cached`, `Matched`), and as every triggered frame is the
first of all caches, the ISP gets one frame from all devices.  `NoOverwrite` needs
`Covered`, which counts positions: a buffer on its way through an rx device is in
`buf_list`, farther back than the pops for the buffers before it reach.  `FlipWindow`
needs `Window`: the frames skipped since the call are the first ones of its window unless
an older frame used up the count.  The refinement needs `Past`: what was made
ready, read or dropped is older than all that is still to come.

**StatsCache** (`TypeOK`, `ItemsConserved`, `RefStable`).  `Partition`: each
item is in the pool, once in the list, or in the map.  `Labelled` and `Owned`: queued
statistics are of the frame they are queued for, and references of the current cycle
are to different items of the map.  An item is written only when it comes out of the
pool, where by `Partition` no reference leads.

**AiqManager** (`TypeOK`, `StopStops`, `StartedRuns`, `OnlyLateMisfit`,
`StreamsInMode`).  `TypeOK` holds without hypotheses, also for concurrent calls: what is
left of a call is always the end of one of five scripts.  The other four
suppose `~Concurrent` (each call is made after the one before returned; without it
`StopStops` is false, run `manager_race`) and that the start of the hardware does not
fail (`"hwStart" \notin Faults`; first observation of section 4).  All but `StopStops`
also suppose that the hardware's prepare does not fail: it stores the mode first, and an application
that starts all the same gets the analyzer and the hardware in different modes.
Every other step may fail.  `StartedRuns` speaks of the last step of a start and of a
switch: a switch that fails before returns with less running.  The invariant is an annotation of the code: for each call, what
holds before each of its steps (`OnPrepare`, `OnStart`, `OnStop`, `OnDeinit`,
`OnSwitch`), what holds between calls (`Resting`), and that there is one call at a time,
a switch being that of the command thread (`Alone`).

**SensorExposure** (`TypeOK`, `ReportedIsUsed`, refinement of `ExposureLog`).  `Placed`
says where things are: nothing is recorded before the first exposure, the lists of
delayed registers are empty while an event is handled, events come in the order of the frames,
the record ends at the horizon and was trimmed only when it was full; so a lookup in the window always
finds an entry.  `TimeTold`, `GainTold` and `DcgTold` relate the record to the
registers, for every frame of the window and beyond: what a lookup answers is what the
register has, up to the horizon if the register is still to be written; and from
the horizon on all lookups answer with one exposure, which is what the next write uses.  Without that
part nothing could be said about a frame between the horizon and the one the write
reaches.  A refused write takes the frames from the one it was for on out of all this
(`slipped`), and an accepted one puts them back, because it writes every register with
what it should have.  `Together` covers registers with equal delays, `InOrder` the order of the
exposures, which the refinement needs.

**IspParams** (`TypeOK`, `EffectiveIsApplied`, `DriverInSync`, `NeverGoesBack`,
`OffStaysOff`).  `Rising`: the configuration of a module only gets newer from the driver
through the queue to the full set, and no result taken is newer than these; for
that, results must be taken in order within a stream (`Lined`, `Overtaken`,
`Answering`).  `Synced` says what the driver has once it has applied all that is
queued.  `Told` does the same for the effect map: it answers with the result a frame was, or
will be, processed under, and needs that buffers are queued and frames handed over in
their order (`Timed`, `Handed`).  `Obeyed` follows a user's wish from
`forceOverwriteAiqIspCfg` to the buffer.

**AlgoConfig** (`TypeOK`, `NewestWins`, `OneConfigPerFrame`, `SignalledIsApplied`).
`Held`: a setter between its mark and the end of its own `updateConfig` has the
mutex, and nobody else.  `Newest`: what the algorithm will have been
given of a kind once what is marked is taken over is the newest value asked for and not
dropped.  `Frozen`: while a frame that saw RUNNING is analyzed no setter is
about to update the context itself.  `Served`: a call under way is in what will be
taken over, and a signalled one in what the algorithm was given.

Proving changed the models in a few places, which TLC had not shown with the
constants of the runs: `ReportedIsUsed` was false for a mode with DCG delay 0;
`ExposureLog` wrongly began every stream at frame 0; the exclusion of a failing
analyzer prepare from `manager_calls` was unnecessary.

Only model-checked:

* Liveness (`StopReturns`, `WorkIsTaken`, `EveryFrameServed`, `WaiterServed`,
  `TimedCallReturns`, `SwitchReturns`, `SetReturns`, `EventuallyTaken`): fairness and ENABLED
  are out of the provers' reach.
* That the three properties of section 4 fail: a theorem cannot show a counterexample.

No model computes by recursion over data, so nothing had to be left to TLC for want of induction.

## 6. Plan

All safety properties are proved.  What is left:

1. Strengthen what the properties say: how long a report stays in the window of
   `SensorExposure`, and what a user may conclude from the statistics he gets in the
   order of their frames (`StatsCache`).
2. The post-processing parameter queue, mirror/flip through manager and sensor, and lens
   timing, each with its invariant proved.

## 7. Not modelled, and why

* Algorithms, IQ parser, generated tables and vendored headers (`algos/`,
  `iq_parser/`, `common/opencv2/`): more than nine tenths of the lines of the
  repository; straight-line computation or data, partly prebuilt libraries, without
  state that several actors share.  The share of lines the map covers is small for
  that reason.
* Device discovery, IQ files, Android HAL adapter, simulator, offline frames, demo:
  I/O at start-up, or clients of what is modelled.
* `CamHwIsp21` has the same parameter synchronization as `CamHwIsp20`
  (`CamHwIsp21.cpp:319-445`); one module stands for both.
* In modelled components: timestamps, raw dumps and the number of read-backs
  (`HdrReadback`); corruption of a list by two unlocked accesses at once (the
  clears of `RkAiqCore::stop` are atomic steps in `StatsCache`); setMirrorFlip,
  module control and compensating light (`AiqManager`); mirror/flip and sensor DPCC
  (`SensorExposure`); the post-processing queue and the exposure ratio
  (`IspParams`), where `_is_exit`, which nothing ever sets, is left out; the setters
  that bypass the marks and the replacement of a handle by `enableAlgo`
  (`AlgoConfig`); `emit_stop`, timed pops, `front` and `erase` (`WorkerThread`), which
  these threads do not use.
* Two overlaps the models do not allow: a stop of the read-back thread (`Isp20PollThread.cpp:505`)
  while the luma thread is still in `trigger_readback`, which needs a failed stop of the
  luma analyzer; and a `deinit` while another thread is inside a switch, whose caller would
  not be woken (`RkAiqManager.h:81`).
* Memory safety and real time: a timeout is a step that may happen.
