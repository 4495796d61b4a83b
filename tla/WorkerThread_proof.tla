------------------------- MODULE WorkerThread_proof -------------------------
(***************************************************************************)
(* Proofs about WorkerThread for any set of pthreads and any bounds.       *)
(***************************************************************************)
EXTENDS WorkerThread, SequenceTheorems, TLAPS

\* The handshake on _stopped: while no stop() returned early it tells exactly
\* whether a pthread exists, and there is none outside a cycle.
Handshake ==
    ~early =>
        /\ \A v, w \in Workers : Alive(v) /\ Alive(w) => v = w
        /\ stopped <=> \A w \in Workers : ~Alive(w)
        /\ cpc \in {"off", "resume", "launch"} => stopped

\* An item is late, or a pthread that will clear it is alive.
Cleared ==
    (\A w \in Workers : ~WillClear(w)) =>
        \A i \in 1..Len(list) : list[i].late

Fresh(item) == item.epoch = epoch \/ (item.late /\ ~ClearOnStart)

QueueFresh == ~early => \A i \in 1..Len(list) : Fresh(list[i])

\* Identities grow along the list and beyond every item already taken.
Ordered ==
    /\ \A i \in 1..Len(list) : list[i].id <= pushes
    /\ \A i, j \in 1..Len(list) : i < j => list[i].id < list[j].id
    /\ \A w \in Workers : job[w] # NoJob =>
          /\ job[w].id <= pushes
          /\ \A i \in 1..Len(list) : job[w].id < list[i].id

-----------------------------------------------------------------------------
(* Every reachable state is well typed: list flags, program counters and   *)
(* bounded counters of thread_func, SafeList and their controller.         *)
THEOREM TypeCorrect == Spec => []TypeOK
<1> USE ConstantsAssumption DEF ConstantsAssumption
<1>1. Init => TypeOK
  <2> SUFFICES ASSUME Init PROVE TypeOK
    OBVIOUS
  <2>1. /\ list \in Seq(Item)
        /\ epoch \in 0..MaxEpoch
        /\ pushes \in 0..MaxPush
    BY DEF Init
  <2> QED
    BY <2>1 DEF Init, TypeOK, WorkerPcs, ControllerPcs
<1>2. TypeOK /\ [Next]_vars => TypeOK'
  <2> SUFFICES ASSUME TypeOK, [Next]_vars PROVE TypeOK'
    OBVIOUS
  <2> USE DEF TypeOK, WorkerPcs, ControllerPcs, flags, queue, history
  <2>1. CASE TrigerStart
    <3>1. epoch + 1 \in 0..MaxEpoch
      BY <2>1 DEF TrigerStart
    <3>2. list' \in Seq(Item)
      BY <2>1 DEF TrigerStart
    <3> QED
      BY <2>1, <3>1, <3>2 DEF TrigerStart
  <2>2. CASE ResumePop
    BY <2>2 DEF ResumePop
  <2>3. ASSUME NEW w \in Workers, ThreadStart(w) PROVE TypeOK'
    BY <2>3 DEF ThreadStart
  <2>4. CASE ThreadStartFails
    BY <2>4 DEF ThreadStartFails
  <2>5. CASE TrigerStop
    BY <2>5 DEF TrigerStop
  <2>6. CASE ThreadStop
    BY <2>6 DEF ThreadStop
  <2>7. CASE SpuriousReturn
    BY <2>7 DEF SpuriousReturn
  <2>8. CASE Push
    <3>1. pushes + 1 \in 1..MaxPush
      BY <2>8 DEF Push
    <3> DEFINE new == [id |-> pushes + 1, epoch |-> epoch,
                       late |-> \A w \in Workers : ~WillClear(w)]
    <3>2. new \in Item
      <4>1. (\A w \in Workers : ~WillClear(w)) \in BOOLEAN
        OBVIOUS
      <4> QED
        BY <3>1, <4>1 DEF Item
    <3>3. list' \in Seq(Item)
      <4> HIDE DEF new
      <4>1. list' = Append(list, new)
        BY <2>8 DEF Push, new
      <4> QED
        BY <3>2, <4>1
    <3>4. wpc' \in [Workers -> WorkerPcs]
      BY <2>8 DEF Push, SignalOne, Waiting
    <3>5. pushes' \in 0..MaxPush
      BY <3>1, <2>8 DEF Push
    <3> QED
      BY <2>8, <3>3, <3>4, <3>5 DEF Push
  <2>9. ASSUME NEW w \in Workers, Worker(w) PROVE TypeOK'
    <3>1. CASE Enter(w)
      BY <3>1 DEF Enter
    <3>2. CASE Check(w)
      <4>1. (failed \/ cpc = "on") \in BOOLEAN
        OBVIOUS
      <4> QED
        BY <3>2, <4>1 DEF Check
    <3>3. CASE PopBlocks(w)
      BY <3>3 DEF PopBlocks
    <3>4. CASE PopPaused(w)
      BY <3>4 DEF PopPaused
    <3>5. CASE PopItem(w)
      <4>1. Head(list) \in Item /\ Tail(list) \in Seq(Item)
        BY <3>5 DEF PopItem
      <4> QED
        BY <3>5, <4>1 DEF PopItem
    <3>6. CASE HandleItem(w)
      BY <3>6 DEF HandleItem
    <3>7. CASE ClearQueue(w)
      BY <3>7 DEF ClearQueue
    <3>8. CASE Exit(w)
      BY <3>8 DEF Exit
    <3> QED
      BY <2>9, <3>1, <3>2, <3>3, <3>4, <3>5, <3>6, <3>7, <3>8 DEF Worker
  <2>10. CASE UNCHANGED vars
    BY <2>10 DEF vars
  <2> QED
    BY <2>1, <2>2, <2>3, <2>4, <2>5, <2>6, <2>7, <2>8, <2>9, <2>10
       DEF Next, Controller
<1>3. QED
  BY <1>1, <1>2, PTL DEF Spec

-----------------------------------------------------------------------------
(* The handshake is kept by every step: only start() makes a pthread, and  *)
(* only in a state where _stopped was seen; only the pthread sets _stopped.*)
LEMMA HandshakeInvariant == Spec => []Handshake
<1>1. Init => Handshake
  BY DEF Init, Handshake, Alive
<1>2. TypeOK /\ Handshake /\ [Next]_vars => Handshake'
  <2> SUFFICES ASSUME TypeOK, Handshake, [Next]_vars PROVE Handshake'
    OBVIOUS
  <2> USE DEF TypeOK, Handshake, Alive, flags, queue, history
  <2>1. CASE TrigerStart
    BY <2>1 DEF TrigerStart
  <2>2. CASE ResumePop
    BY <2>2 DEF ResumePop
  <2>3. ASSUME NEW w \in Workers, ThreadStart(w) PROVE Handshake'
    <3>1. CASE started
      BY <2>3, <3>1 DEF ThreadStart
    <3>2. CASE ~started
      <4>1. /\ wpc' = [wpc EXCEPT ![w] = "entry"]
            /\ stopped' = FALSE /\ cpc' = "on" /\ early' = early
        BY <2>3, <3>2 DEF ThreadStart
      <4>2. ~early => \A v \in Workers : wpc[v] = "none"
        BY <2>3 DEF ThreadStart
      <4>3. ~early => \A v \in Workers : wpc'[v] # "none" <=> v = w
        BY <4>1, <4>2
      <4> QED
        BY <4>1, <4>3
    <3> QED
      BY <3>1, <3>2
  <2>4. CASE ThreadStartFails
    BY <2>4 DEF ThreadStartFails
  <2>5. CASE TrigerStop
    BY <2>5 DEF TrigerStop
  <2>6. CASE ThreadStop
    BY <2>6 DEF ThreadStop
  <2>7. CASE SpuriousReturn
    BY <2>7 DEF SpuriousReturn
  <2>8. CASE Push
    BY <2>8 DEF Push, SignalOne, Waiting
  <2>9. ASSUME NEW w \in Workers, Worker(w) PROVE Handshake'
    <3>1. CASE Enter(w)
      BY <3>1 DEF Enter
    <3>2. CASE Check(w)
      BY <3>2 DEF Check
    <3>3. CASE PopBlocks(w)
      BY <3>3 DEF PopBlocks
    <3>4. CASE PopPaused(w)
      BY <3>4 DEF PopPaused
    <3>5. CASE PopItem(w)
      BY <3>5 DEF PopItem
    <3>6. CASE HandleItem(w)
      BY <3>6 DEF HandleItem
    <3>7. CASE ClearQueue(w)
      BY <3>7 DEF ClearQueue
    <3>8. CASE Exit(w)
      BY <3>8 DEF Exit
    <3> QED
      BY <2>9, <3>1, <3>2, <3>3, <3>4, <3>5, <3>6, <3>7, <3>8 DEF Worker
  <2>10. CASE UNCHANGED vars
    BY <2>10 DEF vars
  <2> QED
    BY <2>1, <2>2, <2>3, <2>4, <2>5, <2>6, <2>7, <2>8, <2>9, <2>10
       DEF Next, Controller
<1>3. QED
  BY <1>1, <1>2, TypeCorrect, PTL DEF Spec

(* stop() is synchronous: outside a start/stop cycle no pthread of the     *)
(* object is left, whatever the sets and bounds, unless the unguarded wait *)
(* of Thread::stop came back spuriously.                                   *)
THEOREM StopIsSynchronousAlways == Spec => []StopIsSynchronous
<1>1. Handshake => StopIsSynchronous
  BY DEF Handshake, StopIsSynchronous
<1> QED
  BY <1>1, HandshakeInvariant, PTL

(* A Thread object never runs its loop in two pthreads at a time.          *)
THEOREM OneWorkerAlways == Spec => []OneWorker
<1>1. Handshake => OneWorker
  BY DEF Handshake, OneWorker
<1> QED
  BY <1>1, HandshakeInvariant, PTL

-----------------------------------------------------------------------------
(* The list after a pop, a push and a clear, index by index.               *)
LEMMA HeadTail ==
    ASSUME TypeOK, list # <<>>
    PROVE  /\ Len(list) \in Nat \ {0}
           /\ Head(list) = list[1]
           /\ Len(Tail(list)) = Len(list) - 1
           /\ \A i \in 1..Len(Tail(list)) : Tail(list)[i] = list[i + 1]
  BY HeadTailProperties DEF TypeOK

\* Append adds one item behind those that SafeList::push finds in the list.
LEMMA Appended ==
    ASSUME TypeOK, NEW new
    PROVE  /\ Len(list) \in Nat
           /\ Len(Append(list, new)) = Len(list) + 1
           /\ \A i \in 1..Len(list) : Append(list, new)[i] = list[i]
           /\ Append(list, new)[Len(list) + 1] = new
  BY DEF TypeOK

\* With no pthread left to run stopped(), every item in the list was pushed
\* when there was none: whatever was there before has been cleared.
LEMMA ClearedInvariant == Spec => []Cleared
<1>1. Init => Cleared
  BY DEF Init, Cleared
<1>2. TypeOK /\ Cleared /\ [Next]_vars => Cleared'
  <2> SUFFICES ASSUME TypeOK, Cleared, [Next]_vars PROVE Cleared'
    OBVIOUS
  <2> USE DEF Cleared, WillClear, flags, queue, history
  <2>1. CASE TrigerStart
    BY <2>1 DEF TrigerStart
  <2>2. CASE ResumePop
    BY <2>2 DEF ResumePop
  <2>3. ASSUME NEW w \in Workers, ThreadStart(w) PROVE Cleared'
    BY <2>3 DEF ThreadStart, TypeOK
  <2>4. CASE ThreadStartFails \/ ThreadStop \/ SpuriousReturn
    BY <2>4 DEF ThreadStartFails, ThreadStop, SpuriousReturn
  <2>5. CASE TrigerStop
    BY <2>5 DEF TrigerStop, TypeOK
  <2>6. CASE Push
    <3> DEFINE late == \A w \in Workers : ~WillClear(w)
               new == [id |-> pushes + 1, epoch |-> epoch, late |-> late]
    <3>1. list' = Append(list, new)
      BY <2>6 DEF Push
    <3>2. \A w \in Workers : WillClear(w)' <=> WillClear(w)
      BY <2>6 DEF Push, SignalOne, Waiting, TypeOK
    <3>3. new.late = late
      OBVIOUS
    <3>4. ASSUME \A w \in Workers : ~WillClear(w)'
          PROVE  \A i \in 1..Len(list') : list'[i].late
      <4>1. late
        BY <3>2, <3>4
      <4>2. new.late
        BY <3>3, <4>1
      <4>3. \A i \in 1..Len(list) : list[i].late
        BY <4>1
      <4> HIDE DEF late, new
      <4> QED
        BY <3>1, <4>2, <4>3, Appended
    <3> QED
      BY <3>4
  <2>7. ASSUME NEW w \in Workers, Worker(w) PROVE Cleared'
    <3>1. CASE Enter(w) \/ PopBlocks(w) \/ PopPaused(w) \/ HandleItem(w)
      BY <3>1 DEF Enter, PopBlocks, PopPaused, HandleItem, TypeOK
    <3>2. CASE Check(w)
      BY <3>2 DEF Check, TypeOK
    <3>3. CASE PopItem(w)
      BY <3>3 DEF PopItem, TypeOK
    <3>4. CASE ClearQueue(w)
      BY <3>4 DEF ClearQueue
    <3>5. CASE Exit(w)
      BY <3>5 DEF Exit, TypeOK
    <3> QED
      BY <2>7, <3>1, <3>2, <3>3, <3>4, <3>5 DEF Worker
  <2>8. CASE UNCHANGED vars
    BY <2>8 DEF vars
  <2> QED
    BY <2>1, <2>2, <2>3, <2>4, <2>5, <2>6, <2>7, <2>8 DEF Next, Controller
<1>3. QED
  BY <1>1, <1>2, TypeCorrect, PTL DEF Spec

(* Work of an earlier cycle is never handled after a restart when          *)
(* triger_start clears the list (RkAiqCoreThread); otherwise only what was *)
(* pushed after the dying pthread's own clear can be.                      *)
THEOREM FreshWorkAlways == Spec => []FreshWork
<1> DEFINE Inv == QueueFresh /\ FreshWork
<1>1. Init => Inv
  BY DEF Init, QueueFresh, FreshWork
<1>2. TypeOK /\ Handshake /\ Cleared /\ Inv /\ [Next]_vars => Inv'
  <2> SUFFICES ASSUME TypeOK, Handshake, Cleared, Inv, [Next]_vars PROVE Inv'
    OBVIOUS
  <2> USE DEF QueueFresh, FreshWork, Fresh, flags, queue, history
  <2>1. CASE TrigerStart
    <3>1. ~early => \A w \in Workers : wpc[w] = "none"
      BY <2>1 DEF TrigerStart, Handshake, Alive
    <3>2. ~early => \A i \in 1..Len(list) : list[i].late
      BY <3>1 DEF Cleared, WillClear
    <3>3. ~early' => \A w \in Workers : wpc'[w] # "run"
      BY <3>1, <2>1 DEF TrigerStart
    <3> QED
      BY <2>1, <3>2, <3>3 DEF TrigerStart
  <2>2. CASE ResumePop
    BY <2>2 DEF ResumePop
  <2>3. ASSUME NEW w \in Workers, ThreadStart(w) PROVE Inv'
    BY <2>3 DEF ThreadStart, TypeOK
  <2>4. CASE ThreadStartFails \/ ThreadStop \/ SpuriousReturn
    BY <2>4 DEF ThreadStartFails, ThreadStop, SpuriousReturn
  <2>5. CASE TrigerStop
    BY <2>5 DEF TrigerStop, TypeOK
  <2>6. CASE Push
    <3> DEFINE late == \A w \in Workers : ~WillClear(w)
               new == [id |-> pushes + 1, epoch |-> epoch, late |-> late]
    <3>1. list' = Append(list, new) /\ epoch' = epoch /\ early' = early
      BY <2>6 DEF Push
    <3>2. new.epoch = epoch
      OBVIOUS
    <3>3. QueueFresh'
      <4> HIDE DEF new
      <4> QED
        BY <3>1, <3>2, Appended
    <3>4. FreshWork'
      BY <2>6 DEF Push, SignalOne, Waiting, TypeOK
    <3> QED
      BY <3>3, <3>4
  <2>7. ASSUME NEW w \in Workers, Worker(w) PROVE Inv'
    <3>1. CASE Enter(w) \/ PopBlocks(w) \/ PopPaused(w) \/ HandleItem(w)
      BY <3>1 DEF Enter, PopBlocks, PopPaused, HandleItem, TypeOK
    <3>2. CASE Check(w)
      BY <3>2 DEF Check, TypeOK
    <3>3. CASE PopItem(w)
      <4>1. QueueFresh'
        BY <3>3, HeadTail DEF PopItem
      <4>2. ~early => Fresh(Head(list))
        BY <3>3, HeadTail DEF PopItem
      <4>3. FreshWork'
        BY <3>3, <4>2 DEF PopItem, TypeOK
      <4> QED
        BY <4>1, <4>3
    <3>4. CASE ClearQueue(w)
      BY <3>4 DEF ClearQueue, TypeOK
    <3>5. CASE Exit(w)
      BY <3>5 DEF Exit, TypeOK
    <3> QED
      BY <2>7, <3>1, <3>2, <3>3, <3>4, <3>5 DEF Worker
  <2>8. CASE UNCHANGED vars
    BY <2>8 DEF vars
  <2> QED
    BY <2>1, <2>2, <2>3, <2>4, <2>5, <2>6, <2>7, <2>8 DEF Next, Controller
<1>3. Inv => FreshWork
  OBVIOUS
<1> QED
  BY <1>1, <1>2, <1>3, TypeCorrect, HandshakeInvariant, ClearedInvariant, PTL
     DEF Spec

-----------------------------------------------------------------------------
\* Queued items are in the order of their pushes, behind every item taken.
LEMMA OrderedInvariant == Spec => []Ordered
<1>1. Init => Ordered
  BY DEF Init, Ordered
<1>2. TypeOK /\ Ordered /\ [Next]_vars => Ordered'
  <2> SUFFICES ASSUME TypeOK, Ordered, [Next]_vars PROVE Ordered'
    OBVIOUS
  <2> USE DEF Ordered, flags, queue, history
  <2>1. CASE TrigerStart
    BY <2>1 DEF TrigerStart
  <2>2. CASE ResumePop \/ ThreadStartFails \/ TrigerStop \/ ThreadStop
             \/ SpuriousReturn
    BY <2>2 DEF ResumePop, ThreadStartFails, TrigerStop, ThreadStop,
                SpuriousReturn
  <2>3. ASSUME NEW w \in Workers, ThreadStart(w) PROVE Ordered'
    BY <2>3 DEF ThreadStart
  <2>4. CASE Push
    <3> DEFINE new == [id |-> pushes + 1, epoch |-> epoch,
                       late |-> \A w \in Workers : ~WillClear(w)]
    <3>1. /\ list' = Append(list, new)
          /\ pushes' = pushes + 1 /\ job' = job
      BY <2>4 DEF Push
    <3>2. new.id = pushes + 1
      OBVIOUS
    <3> HIDE DEF new
    <3>3. pushes \in Nat
      BY ConstantsAssumption DEF TypeOK, ConstantsAssumption
    <3> DEFINE I == Item
    <3>a. \A x \in I : x.id \in Nat
      BY DEF Item
    <3>b. list \in Seq(I) /\ job \in [Workers -> I \cup {NoJob}]
      BY DEF TypeOK
    <3> HIDE DEF I
    <3>4. \A i \in 1..Len(list) : list[i].id \in Nat
      BY <3>a, <3>b
    <3>5. \A w \in Workers : job[w] # NoJob => job[w].id \in Nat
      BY <3>a, <3>b
    <3>6. Len(list') = Len(list) + 1 /\ Len(list) \in Nat
      BY <3>1, Appended
    <3>7. \A i \in 1..Len(list') :
              \/ i \in 1..Len(list) /\ list'[i] = list[i]
              \/ i = Len(list) + 1 /\ list'[i] = new
      BY <3>1, <3>6, Appended
    <3>8. \A i \in 1..Len(list') : list'[i].id <= pushes'
      BY <3>1, <3>2, <3>3, <3>4, <3>7
    <3>9. \A i, j \in 1..Len(list') : i < j => list'[i].id < list'[j].id
      BY <3>2, <3>3, <3>4, <3>6, <3>7
    <3>10. \A w \in Workers : job'[w] # NoJob =>
              /\ job'[w].id <= pushes'
              /\ \A i \in 1..Len(list') : job'[w].id < list'[i].id
      BY <3>1, <3>2, <3>3, <3>5, <3>7
    <3> QED
      BY <3>8, <3>9, <3>10
  <2>5. ASSUME NEW w \in Workers, Worker(w) PROVE Ordered'
    <3>1. CASE Enter(w) \/ PopBlocks(w) \/ PopPaused(w) \/ HandleItem(w)
               \/ Exit(w)
      BY <3>1 DEF Enter, PopBlocks, PopPaused, HandleItem, Exit
    <3>2. CASE Check(w)
      BY <3>2 DEF Check
    <3>3. CASE PopItem(w)
      <4>1. /\ list # <<>> /\ list' = Tail(list) /\ pushes' = pushes
            /\ job' = [job EXCEPT ![w] = Head(list)]
        BY <3>3 DEF PopItem
      <4>2. \A i \in 1..Len(list') : i + 1 \in 1..Len(list)
                                     /\ list'[i] = list[i + 1]
        BY <4>1, HeadTail
      <4>3. \A v \in Workers : job'[v] = IF v = w THEN list[1] ELSE job[v]
        BY <4>1, HeadTail DEF TypeOK
      <4>4. 1 \in 1..Len(list)
        BY <4>1, HeadTail
      <4>5. \A i \in 1..Len(list') : list'[i].id <= pushes'
        BY <4>1, <4>2
      <4>6. \A i, j \in 1..Len(list') : i < j => list'[i].id < list'[j].id
        BY <4>2
      <4>7. \A v \in Workers : job'[v] # NoJob =>
              /\ job'[v].id <= pushes'
              /\ \A i \in 1..Len(list') : job'[v].id < list'[i].id
        BY <4>1, <4>2, <4>3, <4>4
      <4> QED
        BY <4>5, <4>6, <4>7
    <3>4. CASE ClearQueue(w)
      BY <3>4 DEF ClearQueue
    <3> QED
      BY <2>5, <3>1, <3>2, <3>3, <3>4 DEF Worker
  <2>6. CASE UNCHANGED vars
    BY <2>6 DEF vars
  <2> QED
    BY <2>1, <2>2, <2>3, <2>4, <2>5, <2>6 DEF Next, Controller
<1>3. QED
  BY <1>1, <1>2, TypeCorrect, PTL DEF Spec

(* Items are handled in the order of their pushes, also across restarts:   *)
(* the only step that begins to handle one takes the head of the list.     *)
THEOREM InOrderAlways == Spec => InOrder
<1> DEFINE Step == \A w \in Workers : wpc[w] # "run" /\ wpc'[w] = "run" =>
                       \A v \in Workers : job[v] # NoJob => job[v].id < job'[w].id
<1>1. TypeOK /\ Ordered /\ [Next]_vars => [Step]_vars
  <2> SUFFICES ASSUME TypeOK, Ordered, [Next]_vars,
                      NEW w \in Workers, wpc[w] # "run", wpc'[w] = "run",
                      NEW v \in Workers, job[v] # NoJob
               PROVE  job[v].id < job'[w].id
    OBVIOUS
  <2>1. PopItem(w)
    <3>1. CASE Controller
      BY <3>1 DEF Controller, TrigerStart, ResumePop, ThreadStart,
            ThreadStartFails, TrigerStop, ThreadStop, SpuriousReturn, TypeOK
    <3>2. CASE Push
      BY <3>2 DEF Push, SignalOne, Waiting, TypeOK
    <3>3. ASSUME NEW u \in Workers, Worker(u) PROVE PopItem(w)
      BY <3>3 DEF Worker, Enter, Check, PopBlocks, PopPaused, PopItem,
            HandleItem, ClearQueue, Exit, TypeOK
    <3>4. CASE UNCHANGED vars
      BY <3>4 DEF vars
    <3> QED
      BY <3>1, <3>2, <3>3, <3>4 DEF Next
  <2>2. job'[w] = list[1] /\ 1 \in 1..Len(list)
    BY <2>1, HeadTail DEF PopItem, TypeOK
  <2> QED
    BY <2>2 DEF Ordered
<1>2. QED
  BY <1>1, TypeCorrect, OrderedInvariant, PTL DEF Spec, InOrder

-----------------------------------------------------------------------------
(* The thread implements the service its callers rely on: one item at a     *)
(* time, only between start and the return of stop; after a spurious return *)
(* of stop() the service counts as on for good.                             *)
THEOREM Refinement == Spec => ServiceSpec
<1>1. [Next]_vars => (early => early')
  BY DEF Next, Controller, Worker, vars, history, TrigerStart, ResumePop,
         ThreadStart, ThreadStartFails, TrigerStop, ThreadStop,
         SpuriousReturn, Push, Enter, Check, PopBlocks, PopPaused, PopItem,
         HandleItem, ClearQueue, Exit
<1>2. Init => Service!Init
  BY DEF Init, Service!Init, on, busy
<1>3. early /\ [Next]_vars => [Service!Next]_Service!vars
  <2> SUFFICES ASSUME early, early'
               PROVE  [Service!Next]_Service!vars
    BY <1>1
  <2>1. on /\ on'
    BY DEF on
  <2>2. busy \in BOOLEAN /\ busy' \in BOOLEAN
    BY DEF busy
  <2> QED
    BY <2>1, <2>2 DEF Service!Next, Service!vars, Service!Begin, Service!End, on
<1>4. TypeOK /\ Handshake /\ ~early /\ [Next]_vars => [Service!Next]_Service!vars
  <2> SUFFICES ASSUME TypeOK, Handshake, ~early, [Next]_vars
               PROVE  [Service!Next]_Service!vars
    OBVIOUS
  <2> USE DEF Service!Next, Service!vars, on, busy, flags, queue, history
  <2>1. CASE TrigerStart
    BY <2>1 DEF TrigerStart, Service!TurnOn, Handshake, Alive
  <2>2. CASE ResumePop
    BY <2>2 DEF ResumePop
  <2>3. ASSUME NEW w \in Workers, ThreadStart(w)
        PROVE  [Service!Next]_Service!vars
    BY <2>3 DEF ThreadStart, TypeOK
  <2>4. CASE ThreadStartFails
    BY <2>4 DEF ThreadStartFails
  <2>5. CASE TrigerStop
    BY <2>5 DEF TrigerStop, TypeOK
  <2>6. CASE ThreadStop
    BY <2>6 DEF ThreadStop, Service!TurnOff, Handshake, Alive
  <2>7. CASE SpuriousReturn
    BY <2>7 DEF SpuriousReturn
  <2>8. CASE Push
    BY <2>8 DEF Push, SignalOne, Waiting, TypeOK
  <2>9. ASSUME NEW w \in Workers, Worker(w)
        PROVE  [Service!Next]_Service!vars
    <3>1. CASE Enter(w) \/ Check(w) \/ PopBlocks(w) \/ PopPaused(w)
               \/ ClearQueue(w)
      BY <3>1 DEF Enter, Check, PopBlocks, PopPaused, ClearQueue, TypeOK
    <3>2. CASE PopItem(w)
      <4>1. \A v \in Workers : wpc[v] # "none" => v = w
        BY <3>2 DEF PopItem, Handshake, Alive
      <4>2. cpc # "off" /\ cpc' = cpc
        BY <3>2 DEF PopItem, Handshake, Alive
      <4> QED
        BY <3>2, <4>1, <4>2 DEF PopItem, Service!Begin, TypeOK
    <3>3. CASE HandleItem(w)
      <4>1. \A v \in Workers : wpc[v] # "none" => v = w
        BY <3>3 DEF HandleItem, Handshake, Alive
      <4> QED
        BY <3>3, <4>1 DEF HandleItem, Service!End, TypeOK
    <3>4. CASE Exit(w)
      <4>1. \A v \in Workers : wpc[v] # "none" => v = w
        BY <3>4 DEF Exit, Handshake, Alive
      <4> QED
        BY <3>4, <4>1 DEF Exit, Service!TurnOff, TypeOK
    <3> QED
      BY <2>9, <3>1, <3>2, <3>3, <3>4 DEF Worker
  <2>10. CASE UNCHANGED vars
    BY <2>10 DEF vars
  <2> QED
    BY <2>1, <2>2, <2>3, <2>4, <2>5, <2>6, <2>7, <2>8, <2>9, <2>10
       DEF Next, Controller
<1> QED
  BY <1>2, <1>3, <1>4, TypeCorrect, HandshakeInvariant, PTL
     DEF Spec, ServiceSpec, Service!Spec
=============================================================================
