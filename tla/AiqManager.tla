----------------------------- MODULE AiqManager -----------------------------
(***************************************************************************)
(* RkAiqManager, the calls an application makes on it through              *)
(* rk_aiq_uapi_sysctl_*, and its command thread.  A call is the list of    *)
(* component calls it still has to make; none of them holds a lock, so the *)
(* lists of different threads interleave.  One call on a component is one  *)
(* step: how its threads start and join is in WorkerThread.                *)
(*                                                                         *)
(* Left out: the analysis itself, module and flip settings, the gray-mode  *)
(* switch (disabled with #if 0) and a failing pthread_create.              *)
(***************************************************************************)
EXTENDS Naturals, Sequences, SequencesExt

CONSTANTS
    Users,       \* application threads
    Main,        \* the one that prepares, starts, stops and deinitializes
    Modes,       \* rk_aiq_working_mode_t
    Normal,      \* RK_AIQ_WORKING_MODE_NORMAL
    Faults,      \* component calls that may report an error
    Concurrent,  \* FALSE: the application serializes its calls
    MaxRst       \* bound on the apply thread's queue

FaultySteps == {"hwPrepare", "anaPrepare", "apply", "hwStart", "hwStop",
                "hwPause", "hwSwitch", "hwResume"}

ASSUME ManagerAssumption ==
    /\ Main \in Users
    /\ "cmd" \notin Users
    /\ Normal \in Modes
    /\ Faults \subseteq FaultySteps
    /\ Concurrent \in BOOLEAN
    /\ MaxRst \in Nat

Actors == Users \cup {"cmd"}

\* Mutant: the luma analyzer is not stopped.
StopAnalysisNoLuma == <<"applyStop", "anaStop">>

\* The component calls of each manager call, in the order of the code.
StopAnalysis == <<"applyStop", "anaStop", "lumaStop">>
StartAnalysis == <<"applyStart", "anaStart", "lumaStart">>
Resume == <<"hwResume">> \o StartAnalysis \o <<"switched">>

PrepareSteps == <<"hwPrepare", "lumaPrepare", "anaPrepare", "apply", "prepared">>
StartSteps == <<"reapply">> \o StartAnalysis \o <<"hwStart", "started">>
StopSteps == StopAnalysis \o <<"hwStop", "stoped">>
DeinitSteps == <<"cmdStop", "anaDeinit", "lumaDeinit", "hwDeinit", "gone">>
SwitchSteps ==
    <<"check">> \o StopAnalysis
        \o <<"hwPause", "hwSwitch", "anaPrepare", "apply">> \o Resume

Script == [prepare |-> PrepareSteps, start |-> StartSteps, stop |-> StopSteps,
           deinit |-> DeinitSteps, switch |-> SwitchSteps]

VARIABLES
    state,   \* _state
    mode,    \* mWorkingMode
    apply,   \* the apply thread runs
    rst,     \* mAiqRstQueue: the mode each queued result was computed for,
             \* and (history) whether it came when nobody was to apply it
    params,  \* the mode of the parameters last given to the hardware
    ana,     \* RkAiqCore: mState and the working mode it is prepared for
    luma,    \* RkLumaCore: mState and mWorkingMode
    hw,      \* CamHwIsp20: _state, _hdr_mode, and whether it streams
    cmd,     \* the command thread takes messages
    cmdq,    \* mAiqCmdQueue: sender and requested mode
    call,    \* per thread: the calls it still has to make, and their mode
    sender   \* per application thread: where it is in send_cmd

vars == <<state, mode, apply, rst, params, ana, luma, hw, cmd, cmdq, call,
          sender>>
manager == <<state, mode>>
applying == <<apply, rst, params>>
parts == <<ana, luma, hw>>
commands == <<cmd, cmdq, sender>>

NoCall == [todo |-> <<>>, mode |-> Normal]
Idle(a) == call[a] = NoCall
Quiet == (\A a \in Actors : Idle(a)) /\ (\A u \in Users : sender[u] = "out")

CoreStates == {"inited", "prepared", "started", "stoped", "invalid"}

TypeOK ==
    /\ state \in CoreStates
    /\ mode \in Modes
    /\ apply \in BOOLEAN
    /\ rst \in Seq([mode : Modes, late : BOOLEAN])
    /\ params \in Modes \cup {"none"}
    /\ ana \in [st : CoreStates, mode : Modes]
    /\ luma \in [st : CoreStates, mode : Modes]
    /\ hw \in [st : CoreStates \cup {"paused"}, mode : Modes, on : BOOLEAN]
    /\ cmd \in BOOLEAN
    /\ cmdq \in Seq([from : Users, mode : Modes])
    /\ \A a \in Actors :
          /\ call[a].mode \in Modes
          /\ \E op \in DOMAIN Script : IsSuffix(call[a].todo, Script[op])
    /\ sender \in [Users -> {"out", "pushed", "waiting"}]

\* The state after a successful rk_aiq_uapi_sysctl_init.
Init ==
    /\ state = "inited" /\ mode = Normal
    /\ apply = FALSE /\ rst = <<>> /\ params = "none"
    /\ ana = [st |-> "inited", mode |-> Normal]
    /\ luma = [st |-> "inited", mode |-> Normal]
    /\ hw = [st |-> "inited", mode |-> Normal, on |-> FALSE]
    /\ cmd = TRUE /\ cmdq = <<>>
    /\ call = [a \in Actors |-> NoCall]
    /\ sender = [u \in Users |-> "out"]

-----------------------------------------------------------------------------
(* The application.                                                        *)

\* The context is freed by deinit, which no other call may overlap.
MayCall(u) ==
    /\ Idle(u) /\ sender[u] = "out" /\ cmd
    /\ Concurrent \/ Quiet

Begin(op, m) ==
    /\ MayCall(Main)
    /\ call' = [call EXCEPT ![Main] = [todo |-> Script[op], mode |-> m]]
    /\ UNCHANGED <<manager, applying, parts, commands>>

\* "If re-prepared is required after start is called, should call stop".
PrepareCall ==
    /\ state \in {"inited", "prepared", "stoped"}
    /\ \E m \in Modes : Begin("prepare", m)

\* "should be called after prepare".
StartCall == state \in {"prepared", "stoped"} /\ Begin("start", Normal)

\* stop returns success at once when _state is STOPED.
StopCall == state \in {"prepared", "started"} /\ Begin("stop", Normal)

\* "Should not be called in started state".
DeinitCall == state # "started" /\ Quiet /\ Begin("deinit", Normal)

\* swWorkingModeDyn_msg: send_cmd locks the message's mutex and pushes it.
SwitchCall(u) ==
    /\ MayCall(u)
    /\ state = "started"
    /\ \E m \in Modes : cmdq' = Append(cmdq, [from |-> u, mode |-> m])
    /\ sender' = [sender EXCEPT ![u] = "pushed"]
    /\ UNCHANGED <<manager, applying, parts, cmd, call>>

\* msg->cond->wait: the mutex is released.
SenderWaits(u) ==
    /\ sender[u] = "pushed"
    /\ sender' = [sender EXCEPT ![u] = "waiting"]
    /\ UNCHANGED <<manager, applying, parts, cmd, cmdq, call>>

\* The message's mutex is free only while its sender waits on the condition.
MutexFree(u) == sender[u] = "waiting"

\* Mutant: the command thread does not lock the message's mutex.
TakeCommandUnlocked ==
    /\ cmd /\ Idle("cmd") /\ cmdq # <<>>
    /\ call' = [call EXCEPT !["cmd"] =
                  [todo |-> Script["switch"], mode |-> Head(cmdq).mode]]
    /\ UNCHANGED <<manager, applying, parts, commands>>

\* RkAiqMngCmdThread::loop: pop, lock the message's mutex, switch.  The
\* message stays at the head of cmdq until its sender is woken.
TakeCommand ==
    /\ cmd /\ Idle("cmd") /\ cmdq # <<>>
    /\ MutexFree(Head(cmdq).from)
    /\ call' = [call EXCEPT !["cmd"] =
                  [todo |-> Script["switch"], mode |-> Head(cmdq).mode]]
    /\ UNCHANGED <<manager, applying, parts, commands>>

-----------------------------------------------------------------------------
(* Steps of a call.                                                        *)

At(a, step) == call[a].todo # <<>> /\ Head(call[a].todo) = step

\* The call of thread a returns; the command thread broadcasts and goes on.
Return(a) ==
    /\ call' = [call EXCEPT ![a] = NoCall]
    /\ IF a = "cmd"
       THEN /\ cmdq' = Tail(cmdq)
            /\ sender' = [u \in Users |->
                 IF u = Head(cmdq).from /\ MutexFree(u)
                 THEN "out" ELSE sender[u]]
       ELSE UNCHANGED <<cmdq, sender>>

Advance(a) ==
    /\ call' = [call EXCEPT ![a].todo = Tail(@)]
    /\ UNCHANGED <<cmdq, sender>>

\* RKAIQMNG_CHECK_RET: the next component call, or back to the caller.
Checked(a, ok) == IF ok THEN Advance(a) ELSE Return(a)
Results(step) == IF step \in Faults THEN BOOLEAN ELSE {TRUE}
Outcome(a, step) == \E ok \in Results(step) : Checked(a, ok)

\* RkAiqRstApplyThread: triger_start and start; what is queued stays queued.
ApplyStart(a) ==
    /\ At(a, "applyStart")
    /\ apply' = TRUE
    /\ Advance(a)
    /\ UNCHANGED <<manager, rst, params, parts, cmd>>

\* Mutant: what is queued is left for the next start.
ApplyStopKeeps(a) ==
    /\ At(a, "applyStop")
    /\ apply' = FALSE
    /\ Advance(a)
    /\ UNCHANGED <<manager, rst, params, parts, cmd>>

\* triger_stop and stop: the thread clears its queue when it exits.
ApplyStop(a) ==
    /\ At(a, "applyStop")
    /\ apply' = FALSE
    /\ rst' = IF apply THEN <<>> ELSE rst
    /\ Advance(a)
    /\ UNCHANGED <<manager, params, parts, cmd>>

\* applyAnalyzerResult(getAiqFullParams()), checked by its callers ...
ApplyInit(a) ==
    /\ At(a, "apply")
    /\ params' = ana.mode
    /\ Outcome(a, "apply")
    /\ UNCHANGED <<manager, apply, rst, parts, cmd>>

\* ... except by start, which does it only when it restarts.
Reapply(a) ==
    /\ At(a, "reapply")
    /\ params' = IF state = "stoped" THEN ana.mode ELSE params
    /\ Advance(a)
    /\ UNCHANGED <<manager, apply, rst, parts, cmd>>

AnaStart(a) ==
    /\ At(a, "anaStart")
    /\ LET ok == ana.st \in {"prepared", "stoped"} IN
         /\ ana' = IF ok THEN [ana EXCEPT !.st = "started"] ELSE ana
         /\ Checked(a, ok)
    /\ UNCHANGED <<manager, applying, luma, hw, cmd>>

AnaStop(a) ==
    /\ At(a, "anaStop")
    /\ ana' = IF ana.st = "started" THEN [ana EXCEPT !.st = "stoped"] ELSE ana
    /\ Advance(a)
    /\ UNCHANGED <<manager, applying, luma, hw, cmd>>

\* Mutant: prepare ignores a stopped analyzer as it ignores a started one.
AnaPrepareNotStoped(a) ==
    /\ At(a, "anaPrepare")
    /\ IF ana.st \in {"started", "invalid", "stoped"}
       THEN ana' = ana /\ Advance(a)
       ELSE \E ok \in Results("anaPrepare") :
              /\ ana' = [st |-> IF ok THEN "prepared" ELSE ana.st,
                         mode |-> call[a].mode]
              /\ Checked(a, ok)
    /\ UNCHANGED <<manager, applying, luma, hw, cmd>>

\* RkAiqCore::prepare reports success and does nothing while started.  An
\* algorithm that fails leaves the new mode with the old state.
AnaPrepare(a) ==
    /\ At(a, "anaPrepare")
    /\ IF ana.st \in {"started", "invalid"}
       THEN ana' = ana /\ Advance(a)
       ELSE \E ok \in Results("anaPrepare") :
              /\ ana' = [st |-> IF ok THEN "prepared" ELSE ana.st,
                         mode |-> call[a].mode]
              /\ Checked(a, ok)
    /\ UNCHANGED <<manager, applying, luma, hw, cmd>>

LumaPrepare(a) ==
    /\ At(a, "lumaPrepare")
    /\ luma' = [luma EXCEPT !.mode = call[a].mode]
    /\ Advance(a)
    /\ UNCHANGED <<manager, applying, ana, hw, cmd>>

LumaStart(a) ==
    /\ At(a, "lumaStart")
    /\ LET ok == luma.st \in {"inited", "prepared", "stoped"} IN
         /\ luma' = IF ok THEN [luma EXCEPT !.st = "started"] ELSE luma
         /\ Checked(a, ok)
    /\ UNCHANGED <<manager, applying, ana, hw, cmd>>

LumaStop(a) ==
    /\ At(a, "lumaStop")
    /\ luma' = IF luma.st = "started" THEN [luma EXCEPT !.st = "stoped"]
               ELSE luma
    /\ Advance(a)
    /\ UNCHANGED <<manager, applying, ana, hw, cmd>>

\* set_working_mode or setupPipelineFmt may fail, with the mode stored.
HwPrepare(a) ==
    /\ At(a, "hwPrepare")
    /\ \E ok \in Results("hwPrepare") :
         \E st \in {"prepared"} \cup (IF ok THEN {} ELSE {hw.st}) :
           /\ hw' = [hw EXCEPT !.mode = call[a].mode, !.st = st]
           /\ Checked(a, ok)
    /\ UNCHANGED <<manager, applying, ana, luma, cmd>>

\* A device that does not start is reported when everything else has.
HwStart(a) ==
    /\ At(a, "hwStart")
    /\ IF hw.st \in {"prepared", "stoped"}
       THEN /\ hw' = [hw EXCEPT !.st = "started", !.on = TRUE]
            /\ Outcome(a, "hwStart")
       ELSE hw' = hw /\ Return(a)
    /\ UNCHANGED <<manager, applying, ana, luma, cmd>>

\* stop, pause and resume of the hardware look at no state.
HwSet(a, step, st, on) ==
    /\ At(a, step)
    /\ hw' = [hw EXCEPT !.st = st, !.on = on]
    /\ Outcome(a, step)
    /\ UNCHANGED <<manager, applying, ana, luma, cmd>>

HwStop(a) == HwSet(a, "hwStop", "stoped", FALSE)
HwPause(a) == HwSet(a, "hwPause", "paused", FALSE)
HwResume(a) == HwSet(a, "hwResume", "started", TRUE)

\* Mutant: _hdr_mode is assigned before the sensor is asked.
HwSwitchStoresFirst(a) ==
    /\ At(a, "hwSwitch")
    /\ hw' = [hw EXCEPT !.mode = call[a].mode]
    /\ \/ Advance(a)
       \/ /\ "hwSwitch" \in Faults
          /\ call' = [call EXCEPT ![a].todo = Resume]
          /\ UNCHANGED <<cmdq, sender>>
    /\ UNCHANGED <<manager, applying, ana, luma, cmd>>

\* CamHwIsp20::swWorkingModeDyn refuses a sensor linked to the ISP and a mode
\* the sensor does not have: the manager goes to its label restart.
HwSwitch(a) ==
    /\ At(a, "hwSwitch")
    /\ \/ /\ hw' = [hw EXCEPT !.mode = call[a].mode]
          /\ Advance(a)
       \/ /\ "hwSwitch" \in Faults
          /\ hw' = hw
          /\ call' = [call EXCEPT ![a].todo = Resume]
          /\ UNCHANGED <<cmdq, sender>>
    /\ UNCHANGED <<manager, applying, ana, luma, cmd>>

\* swWorkingModeDyn: nothing to do, or not in the STARTED state.
CheckSwitch(a) ==
    /\ At(a, "check")
    /\ Checked(a, call[a].mode # mode /\ state = "started")
    /\ UNCHANGED <<manager, applying, parts, cmd>>

\* The last assignments of each call.
Prepared(a) ==
    /\ At(a, "prepared")
    /\ state' = "prepared" /\ mode' = call[a].mode
    /\ Return(a)
    /\ UNCHANGED <<applying, parts, cmd>>

Started(a) ==
    /\ At(a, "started")
    /\ state' = "started"
    /\ Return(a)
    /\ UNCHANGED <<mode, applying, parts, cmd>>

\* Mutant: stop records the state a paused hardware would have.
StopedAsPaused(a) ==
    /\ At(a, "stoped")
    /\ state' = "paused"
    /\ Return(a)
    /\ UNCHANGED <<mode, applying, parts, cmd>>

Stoped(a) ==
    /\ At(a, "stoped")
    /\ state' = "stoped"
    /\ Return(a)
    /\ UNCHANGED <<mode, applying, parts, cmd>>

Switched(a) ==
    /\ At(a, "switched")
    /\ mode' = call[a].mode
    /\ Return(a)
    /\ UNCHANGED <<state, applying, parts, cmd>>

\* deInit: the command thread first; the analyzers refuse while started.
CmdStop(a) ==
    /\ At(a, "cmdStop")
    /\ cmd' = FALSE
    /\ Advance(a)
    /\ UNCHANGED <<manager, applying, parts>>

AnaDeinit(a) ==
    /\ At(a, "anaDeinit")
    /\ LET ok == ana.st # "started" IN
         /\ ana' = IF ok THEN [ana EXCEPT !.st = "invalid"] ELSE ana
         /\ Checked(a, ok)
    /\ UNCHANGED <<manager, applying, luma, hw, cmd>>

LumaDeinit(a) ==
    /\ At(a, "lumaDeinit")
    /\ LET ok == luma.st # "started" IN
         /\ luma' = IF ok THEN [luma EXCEPT !.st = "invalid"] ELSE luma
         /\ Checked(a, ok)
    /\ UNCHANGED <<manager, applying, ana, hw, cmd>>

HwDeinit(a) ==
    /\ At(a, "hwDeinit")
    /\ hw' = [hw EXCEPT !.st = "invalid"]
    /\ Advance(a)
    /\ UNCHANGED <<manager, applying, ana, luma, cmd>>

Gone(a) ==
    /\ At(a, "gone")
    /\ state' = "invalid"
    /\ Return(a)
    /\ UNCHANGED <<mode, applying, parts, cmd>>

-----------------------------------------------------------------------------
(* The threads a started system runs.                                      *)

\* The analyzer finishes a frame: rkAiqCalcDone pushes its result, whether or
\* not the apply thread runs.
Analyze ==
    /\ ana.st = "started" /\ hw.on
    /\ Len(rst) < MaxRst
    /\ rst' = Append(rst, [mode |-> ana.mode, late |-> ~apply])
    /\ UNCHANGED <<manager, apply, params, parts, commands, call>>

\* RkAiqRstApplyThread::loop.
ApplyResult ==
    /\ apply /\ rst # <<>>
    /\ params' = Head(rst).mode
    /\ rst' = Tail(rst)
    /\ UNCHANGED <<manager, apply, parts, commands, call>>

Lifecycle(a) ==
    \/ ApplyStart(a) \/ ApplyStop(a) \/ ApplyInit(a) \/ Reapply(a)
    \/ AnaPrepare(a) \/ AnaStart(a) \/ AnaStop(a) \/ AnaDeinit(a)
    \/ LumaPrepare(a) \/ LumaStart(a) \/ LumaStop(a) \/ LumaDeinit(a)
    \/ HwPrepare(a) \/ HwStart(a) \/ HwStop(a) \/ HwDeinit(a)
    \/ HwPause(a) \/ HwSwitch(a) \/ HwResume(a)
    \/ CheckSwitch(a) \/ Prepared(a) \/ Started(a) \/ Stoped(a)
    \/ Switched(a) \/ CmdStop(a) \/ Gone(a)

Next ==
    \/ PrepareCall \/ StartCall \/ StopCall \/ DeinitCall
    \/ \E u \in Users : SwitchCall(u) \/ SenderWaits(u)
    \/ TakeCommand
    \/ \E a \in Actors : Lifecycle(a)
    \/ Analyze \/ ApplyResult

Spec == Init /\ [][Next]_vars

\* Every thread that can run is scheduled; nobody has to make a call.
FairSpec ==
    /\ Spec
    /\ \A a \in Actors : WF_vars(Lifecycle(a))
    /\ \A u \in Users : WF_vars(SenderWaits(u))
    /\ WF_vars(TakeCommand)

-----------------------------------------------------------------------------
(* Properties.                                                             *)

AllDown ==
    ~apply /\ ana.st # "started" /\ luma.st # "started" /\ ~hw.on

AllUp ==
    apply /\ ana.st = "started" /\ luma.st = "started" /\ hw.on

\* When no call is in progress and the manager is stopped, or was never
\* started, or is destroyed, no thread runs and nothing streams: stop did its
\* work whenever it returned success, and the next start can succeed.
StopStops == Quiet /\ state \in {"inited", "stoped", "invalid"} => AllDown

\* start reports success, and a switch comes to its end, done or refused by the
\* sensor, only when every part runs and the analyzer computes for the mode the
\* hardware is in.
StartedRuns ==
    \A a \in Actors :
        At(a, "started") \/ At(a, "switched") => AllUp /\ ana.mode = hw.mode

\* The hardware never begins to stream, on a start, a restart or a switch that
\* succeeds or is refused, with an analyzer prepared for another mode.
StreamsInMode == [][~hw.on /\ hw.on' => ana.mode = hw.mode]_vars

\* A thread in swWorkingModeDyn_msg gets out of it, whatever the switch meets.
SwitchReturns == \A u \in Users : sender[u] # "out" ~> sender[u] = "out"

\* A result that was computed for another mode than the one the hardware
\* streams in is waiting for the apply thread only if the analyzer delivered it
\* between the stop of that thread and its own.
OnlyLateMisfit ==
    hw.on => \A i \in DOMAIN rst : rst[i].mode # hw.mode => rst[i].late
=============================================================================
