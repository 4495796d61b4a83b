---------------------------- MODULE WorkerThread ----------------------------
(***************************************************************************)
(* One XCam::Thread that serves a SafeList, as the engine uses it for the  *)
(* analyzer threads (RkAiqCoreThread), the luma thread (RkLumaCoreThread), *)
(* the result thread (RkAiqRstApplyThread) and the command thread          *)
(* (RkAiqMngCmdThread).  Three parties run concurrently:                   *)
(*   - the controller calls triger_start/start and triger_stop/stop,       *)
(*   - the pthread created by start runs thread_func: entry, loop, cleanup *)
(*   - producers push work from callbacks, whatever state the thread is in *)
(* One action is one critical section of Thread::_mutex or of the list's   *)
(* own mutex; the handler of an item runs outside both.                    *)
(***************************************************************************)
EXTENDS Naturals, Sequences

CONSTANTS
    Workers,          \* identities of the pthreads start() may create
    MaxPush,          \* bound: items pushed in a behaviour
    MaxEpoch,         \* bound: start/stop cycles in a behaviour
    ClearOnStart,     \* triger_start clears the list (RkAiqCoreThread only)
    SpuriousWakeups,  \* pthread_cond_wait on _exit_cond may return early
    LoopMayFail       \* loop() may return false on a handled item

ASSUME ConstantsAssumption ==
    /\ MaxPush \in Nat
    /\ MaxEpoch \in Nat
    /\ ClearOnStart \in BOOLEAN
    /\ SpuriousWakeups \in BOOLEAN
    /\ LoopMayFail \in BOOLEAN

VARIABLES
    started,   \* Thread::_started
    stopped,   \* Thread::_stopped
    paused,    \* SafeList::_pop_paused
    list,      \* SafeList::_obj_list
    wpc,       \* where each pthread is in thread_func
    wret,      \* the local "ret" of thread_func
    job,       \* the item a pthread took in its last successful pop
    cpc,       \* where the controller is
    epoch,     \* number of start cycles begun
    pushes,    \* number of items pushed so far
    early,     \* history: a stop() returned before _stopped was set
    failed     \* history: the pthread of this cycle ended by itself

vars == <<started, stopped, paused, list, wpc, wret, job, cpc, epoch,
          pushes, early, failed>>
flags == <<started, stopped>>
queue == <<paused, list, pushes>>
history == <<early, failed>>

\* "late" says that no pthread that would still clear the list was alive.
Item == [id : 1..MaxPush, epoch : 0..MaxEpoch, late : BOOLEAN]
NoJob == [id |-> 0]

WorkerPcs == {"none", "entry", "check", "pop", "wait", "run", "clear", "exit"}
ControllerPcs == {"off", "resume", "launch", "on", "stop", "join"}

Alive(w) == wpc[w] # "none"
\* The pthread has yet to run stopped(), which clears the list.
WillClear(w) == wpc[w] \notin {"none", "exit"}

TypeOK ==
    /\ started \in BOOLEAN
    /\ stopped \in BOOLEAN
    /\ paused \in BOOLEAN
    /\ list \in Seq(Item)
    /\ wpc \in [Workers -> WorkerPcs]
    /\ wret \in [Workers -> BOOLEAN]
    /\ job \in [Workers -> Item \cup {NoJob}]
    /\ cpc \in ControllerPcs
    /\ epoch \in 0..MaxEpoch
    /\ pushes \in 0..MaxPush
    /\ early \in BOOLEAN
    /\ failed \in BOOLEAN

Init ==
    /\ started = FALSE
    /\ stopped = TRUE
    /\ paused = FALSE
    /\ list = <<>>
    /\ wpc = [w \in Workers |-> "none"]
    /\ wret = [w \in Workers |-> TRUE]
    /\ job = [w \in Workers |-> NoJob]
    /\ cpc = "off"
    /\ epoch = 0
    /\ pushes = 0
    /\ early = FALSE
    /\ failed = FALSE

-----------------------------------------------------------------------------
(* The controller. *)

\* triger_start: RkAiqCoreThread clears what the callbacks pushed while the
\* thread was down, the other classes only resume.
TrigerStart ==
    /\ cpc = "off"
    /\ epoch < MaxEpoch
    /\ list' = IF ClearOnStart THEN <<>> ELSE list
    /\ epoch' = epoch + 1
    /\ failed' = FALSE
    /\ cpc' = "resume"
    /\ UNCHANGED <<flags, paused, wpc, wret, job, pushes, early>>

ResumePop ==
    /\ cpc = "resume"
    /\ paused' = FALSE
    /\ cpc' = "launch"
    /\ UNCHANGED <<flags, list, wpc, wret, job, epoch, pushes, history>>

\* Thread::start holds _mutex across pthread_create, so the new pthread
\* cannot pass its entry before _started and _stopped are set.
ThreadStart(w) ==
    /\ cpc = "launch"
    /\ wpc[w] = "none"
    /\ cpc' = "on"
    /\ IF started
       THEN UNCHANGED <<flags, wpc, wret>>
       ELSE /\ wpc' = [wpc EXCEPT ![w] = "entry"]
            /\ wret' = [wret EXCEPT ![w] = TRUE]
            /\ started' = TRUE
            /\ stopped' = FALSE
    /\ UNCHANGED <<queue, job, epoch, history>>

\* pthread_create fails: start() returns false, which no caller looks at.
ThreadStartFails ==
    /\ cpc = "launch"
    /\ ~started
    /\ cpc' = "on"
    /\ failed' = TRUE
    /\ UNCHANGED <<flags, queue, wpc, wret, job, epoch, early>>

\* Mutant: pause_pop sets the flag and wakes nobody.
TrigerStopSilent ==
    /\ cpc = "on"
    /\ paused' = TRUE
    /\ cpc' = "stop"
    /\ UNCHANGED <<flags, list, wpc, wret, job, epoch, pushes, history>>

\* triger_stop: pause_pop wakes every blocked pop.
TrigerStop ==
    /\ cpc = "on"
    /\ paused' = TRUE
    /\ wpc' = [w \in Workers |-> IF wpc[w] = "wait" THEN "pop" ELSE wpc[w]]
    /\ cpc' = "stop"
    /\ UNCHANGED <<flags, list, wret, job, epoch, pushes, history>>

\* Mutant: stop() only clears _started, as emit_stop() does.
ThreadStopNoJoin ==
    /\ cpc = "stop"
    /\ started' = FALSE
    /\ cpc' = "off"
    /\ UNCHANGED <<stopped, queue, wpc, wret, job, epoch, history>>

\* Thread::stop up to its wait: with _stopped already set it returns at once.
ThreadStop ==
    /\ cpc = "stop"
    /\ started' = FALSE
    /\ cpc' = IF stopped THEN "off" ELSE "join"
    /\ UNCHANGED <<stopped, queue, wpc, wret, job, epoch, history>>

\* _exit_cond.wait is not in a loop: a spurious return ends stop().
SpuriousReturn ==
    /\ SpuriousWakeups
    /\ cpc = "join"
    /\ cpc' = "off"
    /\ early' = TRUE
    /\ UNCHANGED <<flags, queue, wpc, wret, job, epoch, failed>>

-----------------------------------------------------------------------------
(* The pthread: thread_func. *)

\* Takes and drops _mutex once, then calls started().
Enter(w) ==
    /\ wpc[w] = "entry"
    /\ wpc' = [wpc EXCEPT ![w] = "check"]
    /\ UNCHANGED <<flags, queue, wret, job, cpc, epoch, history>>

\* The test at the head of the while loop, under _mutex.
Check(w) ==
    /\ wpc[w] = "check"
    /\ IF ~started \/ ~wret[w]
       THEN /\ started' = FALSE
            /\ wret' = [wret EXCEPT ![w] = FALSE]
            /\ wpc' = [wpc EXCEPT ![w] = "clear"]
            /\ failed' = (failed \/ cpc = "on")
       ELSE /\ wpc' = [wpc EXCEPT ![w] = "pop"]
            /\ UNCHANGED <<started, wret, failed>>
    /\ UNCHANGED <<stopped, queue, job, cpc, epoch, early>>

\* SafeList::pop(-1): blocks while the list is empty, returns NULL once
\* paused even when there is work left.
PopBlocks(w) ==
    /\ wpc[w] = "pop"
    /\ ~paused
    /\ list = <<>>
    /\ wpc' = [wpc EXCEPT ![w] = "wait"]
    /\ UNCHANGED <<flags, queue, wret, job, cpc, epoch, history>>

PopPaused(w) ==
    /\ wpc[w] = "pop"
    /\ paused
    /\ wret' = [wret EXCEPT ![w] = FALSE]
    /\ wpc' = [wpc EXCEPT ![w] = "check"]
    /\ UNCHANGED <<flags, queue, job, cpc, epoch, history>>

PopItem(w) ==
    /\ wpc[w] = "pop"
    /\ ~paused
    /\ list # <<>>
    /\ job' = [job EXCEPT ![w] = Head(list)]
    /\ list' = Tail(list)
    /\ wpc' = [wpc EXCEPT ![w] = "run"]
    /\ UNCHANGED <<flags, paused, pushes, wret, cpc, epoch, history>>

\* The handler (analyze, applyAnalyzerResult, ...) ends and loop() returns.
HandleItem(w) ==
    /\ wpc[w] = "run"
    /\ \E ok \in IF LoopMayFail THEN BOOLEAN ELSE {TRUE} :
          wret' = [wret EXCEPT ![w] = ok]
    /\ wpc' = [wpc EXCEPT ![w] = "check"]
    /\ UNCHANGED <<flags, queue, job, cpc, epoch, history>>

\* Mutant: the virtual stopped() is not overridden.
ClearQueueKeeps(w) ==
    /\ wpc[w] = "clear"
    /\ wpc' = [wpc EXCEPT ![w] = "exit"]
    /\ UNCHANGED <<flags, queue, wret, job, cpc, epoch, history>>

\* Mutant: the items are released but their entries stay in the list.
ClearQueueLeavesNulls(w) ==
    /\ wpc[w] = "clear"
    /\ list' = [i \in DOMAIN list |-> NoJob]
    /\ wpc' = [wpc EXCEPT ![w] = "exit"]
    /\ UNCHANGED <<flags, paused, pushes, wret, job, cpc, epoch, history>>

\* Mutant: _stopped is set before the cleanup instead of after it.
ClearQueueAnnounces(w) ==
    /\ wpc[w] = "clear"
    /\ stopped' = TRUE
    /\ list' = <<>>
    /\ wpc' = [wpc EXCEPT ![w] = "exit"]
    /\ UNCHANGED <<started, paused, pushes, wret, job, cpc, epoch, history>>

\* The virtual stopped() of the four classes: drop what is still queued.
ClearQueue(w) ==
    /\ wpc[w] = "clear"
    /\ list' = <<>>
    /\ wpc' = [wpc EXCEPT ![w] = "exit"]
    /\ UNCHANGED <<flags, paused, pushes, wret, job, cpc, epoch, history>>

\* Last critical section: _stopped is set and the stop() that waits returns.
Exit(w) ==
    /\ wpc[w] = "exit"
    /\ stopped' = TRUE
    /\ wpc' = [wpc EXCEPT ![w] = "none"]
    /\ cpc' = IF cpc = "join" THEN "off" ELSE cpc
    /\ UNCHANGED <<started, queue, wret, job, epoch, history>>

-----------------------------------------------------------------------------
(* Producers: SafeList::push from a callback, in any state of the thread.  *)

Waiting == {w \in Workers : wpc[w] = "wait"}

\* Mutant: push does not signal.
SignalNobody == wpc' = wpc

\* _new_obj_cond.signal wakes one of the blocked pops, if there is one.
SignalOne ==
    IF Waiting = {} THEN wpc' = wpc
                    ELSE \E w \in Waiting : wpc' = [wpc EXCEPT ![w] = "pop"]

\* Mutant: the new item goes to the front of the list.
PushFront ==
    /\ pushes < MaxPush
    /\ pushes' = pushes + 1
    /\ list' = <<[id |-> pushes + 1, epoch |-> epoch,
                  late |-> \A w \in Workers : ~WillClear(w)]>> \o list
    /\ SignalOne
    /\ UNCHANGED <<flags, paused, wret, job, cpc, epoch, history>>

Push ==
    /\ pushes < MaxPush
    /\ pushes' = pushes + 1
    /\ list' = Append(list, [id |-> pushes + 1, epoch |-> epoch,
                             late |-> \A w \in Workers : ~WillClear(w)])
    /\ SignalOne
    /\ UNCHANGED <<flags, paused, wret, job, cpc, epoch, history>>

-----------------------------------------------------------------------------
Controller ==
    \/ TrigerStart \/ ResumePop \/ (\E w \in Workers : ThreadStart(w))
    \/ ThreadStartFails \/ TrigerStop \/ ThreadStop \/ SpuriousReturn

Worker(w) ==
    \/ Enter(w) \/ Check(w) \/ PopBlocks(w) \/ PopPaused(w) \/ PopItem(w)
    \/ HandleItem(w) \/ ClearQueue(w) \/ Exit(w)

Next == Controller \/ Push \/ \E w \in Workers : Worker(w)

Spec == Init /\ [][Next]_vars

\* Every pthread is scheduled and every handler ends; a stop() that has begun
\* is carried through.  Nothing is promised of producers or of the user.
FairSpec ==
    /\ Spec
    /\ \A w \in Workers : WF_vars(Worker(w))
    /\ WF_vars(ThreadStop)

-----------------------------------------------------------------------------
(* Properties. *)

\* Once stop() has returned, and until the next start(), no pthread of this
\* object exists: the caller may tear down what the handler uses.  Only a
\* spurious return of the unguarded wait in Thread::stop can break this.
StopIsSynchronous ==
    ~early /\ cpc \in {"off", "resume", "launch"}
        => \A w \in Workers : ~Alive(w)

\* Two pthreads never run the loop of one Thread object, so the handlers need
\* no lock against themselves; again unless a stop() returned early.
OneWorker ==
    ~early => \A v, w \in Workers : Alive(v) /\ Alive(w) => v = w

\* Work of an earlier cycle is handled after a restart only when it was pushed
\* after the dying pthread had cleared the list and triger_start keeps it.
FreshWork ==
    ~early => \A w \in Workers : wpc[w] = "run" =>
        job[w].epoch = epoch \/ (job[w].late /\ ~ClearOnStart)

\* Items are handled in the order in which they were pushed.
InOrder ==
    [][\A w \in Workers : wpc[w] # "run" /\ wpc'[w] = "run" =>
          \A v \in Workers : job[v] # NoJob => job[v].id < job'[w].id]_vars

\* triger_stop followed by stop() always comes back: pause_pop gets the
\* pthread out of its pop and the pthread announces its end.
StopReturns == (cpc = "stop") ~> (cpc = "off")

\* An item queued while the thread is on is taken, unless the user stops the
\* thread or its pthread has ended by itself (loop() false, no pthread made).
WorkIsTaken ==
    \A n \in 1..MaxPush :
        (cpc = "on" /\ \E i \in 1..Len(list) : list[i].id = n)
            ~> (\/ cpc # "on" \/ failed
                \/ \A i \in 1..Len(list) : list[i].id # n)

-----------------------------------------------------------------------------
(* What the controller may rely on, as a specification of its own.  After a *)
(* spurious return of stop() the thread counts as on for good: nothing can  *)
(* be said of when the pthread left behind is idle.                         *)
busy == \E w \in Workers : wpc[w] = "run"
on == cpc # "off" \/ early
Service == INSTANCE WorkerService WITH on <- on, busy <- busy
ServiceSpec == Service!Spec
=============================================================================
