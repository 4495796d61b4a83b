-------------------------- MODULE AlgoConfig_proof --------------------------
(***************************************************************************)
(* Proofs about AlgoConfig for any threads, attributes, values and number  *)
(* of calls.                                                               *)
(***************************************************************************)
EXTENDS AlgoConfig, FiniteSetTheorems, TLAPS

\* Setters that have passed Call and still have to count themselves.
Locking == {u \in Users : pc[u] = "lock"}

\* What the bound of Call leaves room for.
Room == calls + Cardinality(Locking) <= MaxCalls

Typed == TypeOK /\ Room

\* mCfgMutex: a setter between its mark and the end of its own updateConfig
\* holds it, and nobody else does.
Held == \A u \in Users : pc[u] \in {"check", "apply"} <=> mutex = u

\* prepare, start and the end of stop find both analyzer threads at rest.
AnalyzersStream == (\E t \in Threads : ana[t] # "idle") => Streaming

\* While a frame begun in RUNNING is analyzed the engine stays in RUNNING, and
\* no setter is about to update the configuration itself.
Frozen ==
    sure => /\ isRunningState
            /\ ana["isp"] = "algos"
            /\ \A u \in Users : pc[u] # "apply"

\* What the algorithm will have of a kind once what is marked is taken over.
Pending(k) == IF k \in upd THEN new[k] ELSE ctx[k]

Newest == \A k \in Kinds \ shadowed : Pending(k).val = asked[k]

\* A call that is under way is in what will be taken over, or was followed by
\* a newer one; a signalled one is in the algorithm.
Stamped == \A k \in Kinds : new[k].ser <= calls /\ ctx[k].ser <= calls
Serves(u) ==
    /\ call[u].att.ser <= calls
    /\ pc[u] \in {"check", "apply", "wait"} =>
          Pending(call[u].kind).ser >= call[u].att.ser
    /\ u \in woken => ctx[call[u].kind].ser >= call[u].att.ser
Served == Stamped /\ \A u \in Users : Serves(u)

-----------------------------------------------------------------------------
(* updateConfig. *)

\* updateConfig changes what the algorithm has, not what it is to have, leaves
\* no kind marked, and signals setters that wait.
LEMMA UpdateEffect ==
    ASSUME TypeOK, updateConfig
    PROVE  /\ new' = new
           /\ upd' = {}
           /\ {cur', ctx'} \subseteq [Kinds -> Attr]
           /\ \A k \in Kinds : ctx'[k] = Pending(k) /\ Pending(k)' = Pending(k)
           /\ woken \subseteq woken'
           /\ woken' \subseteq {u \in Users : pc[u] = "wait"}
<1> USE DEF TypeOK, updateConfig, TakeOver, Pending
<1>1. new' = new /\ upd' = {}
  OBVIOUS
<1>2. {cur', ctx'} \subseteq [Kinds -> Attr]
  OBVIOUS
<1>3. \A k \in Kinds : ctx'[k] = Pending(k) /\ Pending(k)' = Pending(k)
  BY <1>1
<1>4. woken \subseteq woken' /\ woken' \subseteq {u \in Users : pc[u] = "wait"}
  BY DEF SendSignals, Waiting
<1> QED
  BY <1>1, <1>2, <1>3, <1>4

\* A call stays well typed when it gets its number.
LEMMA StampTyped ==
    ASSUME NEW u \in Users, call \in [Users -> [kind : Kinds, att : Attr]],
           NEW n \in 0..MaxCalls, call' = [call EXCEPT ![u].att.ser = n]
    PROVE  /\ call' \in [Users -> [kind : Kinds, att : Attr]]
           /\ call'[u].kind = call[u].kind /\ call'[u].att.ser = n
           /\ \A o \in Users \ {u} : call'[o] = call[o]
BY DEF Attr

\* A caller that gets the mutex gives up its place in the bound.
LEMMA LockCounted ==
    ASSUME NEW u \in Users, TypeOK, Room, pc[u] = "lock",
           NEW st \in {"idle", "check"},
           pc' = [pc EXCEPT ![u] = st], calls' = calls + 1
    PROVE  Room' /\ calls' \in 0..MaxCalls
<1>1. IsFiniteSet(Locking)
  BY AlgoConfigAssumption, FS_Subset DEF AlgoConfigAssumption, Locking
<1>2. Locking' = Locking \ {u} /\ u \in Locking
  BY DEF TypeOK, Locking
<1>3. /\ IsFiniteSet(Locking \ {u})
      /\ Cardinality(Locking \ {u}) = Cardinality(Locking) - 1
  BY <1>1, <1>2, FS_RemoveElement
<1>4. Cardinality(Locking) \in Nat /\ Cardinality(Locking') \in Nat
  BY <1>1, <1>2, <1>3, FS_CardinalityType
<1> QED
  BY <1>2, <1>3, <1>4, AlgoConfigAssumption
     DEF AlgoConfigAssumption, Room, TypeOK

-----------------------------------------------------------------------------
(* No step takes a call twice out of the room that Call left for it.       *)
LEMMA TypedInvariant == Spec => []Typed
<1> USE AlgoConfigAssumption DEF AlgoConfigAssumption
<1>1. Init => Typed
  <2> SUFFICES ASSUME Init PROVE Typed
    OBVIOUS
  <2> USE DEF Init
  <2>1. /\ Initially(Default) \in Attr
        /\ \A v \in Memory : Initially(v) \in Attr
    BY DEF Initially, Attr
  <2>2. NoCall \in [kind : Kinds, att : Attr]
    BY <2>1 DEF NoCall
  <2>3. TypeOK
    <3>1. {new, cur, ctx} \subseteq [Kinds -> Attr]
      <4>1. {Initially(v) : v \in Memory} \subseteq Attr
        BY <2>1
      <4>2. cur \in [Kinds -> Attr]
        BY <4>1
      <4> QED
        BY <2>1, <4>2
    <3>2. call \in [Users -> [kind : Kinds, att : Attr]]
      BY <2>2
    <3>3. calls \in 0..MaxCalls
      OBVIOUS
    <3>4. asked \in [Kinds -> Values]
      OBVIOUS
    <3> QED
      BY <3>1, <3>2, <3>3, <3>4 DEF TypeOK
  <2>4. Locking = {}
    BY DEF Locking
  <2>5. Room
    BY <2>4, FS_EmptySet DEF Room
  <2> QED
    BY <2>3, <2>5 DEF Typed
<1>2. Typed /\ [Next]_vars => Typed'
  <2> SUFFICES ASSUME TypeOK, Room, [Next]_vars PROVE TypeOK' /\ Room'
    BY DEF Typed
  <2> USE DEF TypeOK, core, frames, handle, setters, history
  <2>1. ASSUME NEW u \in Users, pc' = [pc EXCEPT ![u] = "idle"] \/
                                pc' = [pc EXCEPT ![u] = "apply"] \/
                                pc' = [pc EXCEPT ![u] = "wait"],
               pc[u] # "lock", calls' = calls
        PROVE  Room'
    <3>1. Locking' = Locking
      BY <2>1 DEF Locking
    <3> QED
      BY <2>1, <3>1 DEF Room
  <2>2. ASSUME UNCHANGED <<pc, calls>> PROVE Room'
    BY <2>2 DEF Room, Locking
  <2>3. ASSUME NEW u \in Users, Call(u) PROVE TypeOK' /\ Room'
    <3>1. call' \in [Users -> [kind : Kinds, att : Attr]]
      BY <2>3 DEF Call, Initially, Attr
    <3>2. TypeOK'
      BY <2>3, <3>1 DEF Call
    <3>3. IsFiniteSet(Locking)
      BY FS_Subset DEF Locking
    <3>4. Locking' = Locking \cup {u} /\ u \notin Locking
      BY <2>3 DEF Locking, Call
    <3>5. Cardinality(Locking') = Cardinality(Locking) + 1
      BY <3>3, <3>4, FS_AddElement
    <3>6. Cardinality(Locking) \in Nat
      BY <3>3, FS_CardinalityType
    <3>7. calls' = calls /\ calls + Cardinality(Locking) < MaxCalls
      BY <2>3 DEF Call, Locking
    <3> QED
      BY <3>2, <3>5, <3>6, <3>7 DEF Room
  <2>4. ASSUME NEW u \in Users, Mark(u) PROVE TypeOK' /\ Room'
    <3>1. /\ pc[u] = "lock"
          /\ pc' = [pc EXCEPT ![u] = "check"]
          /\ calls' = calls + 1
      BY <2>4 DEF Mark, Asked
    <3>2. Room' /\ calls' \in 0..MaxCalls
      BY <3>1, LockCounted
    <3>3. call'[u].att \in Attr /\ call' \in [Users -> [kind : Kinds, att : Attr]]
      <4>1. calls + 1 \in 0..MaxCalls
        BY <3>1, <3>2
      <4>2. call' = [call EXCEPT ![u].att.ser = calls + 1]
        BY <2>4 DEF Mark
      <4>3. call' \in [Users -> [kind : Kinds, att : Attr]]
        BY <4>1, <4>2, StampTyped
      <4> QED
        BY <4>3
    <3>4. new' \in [Kinds -> Attr]
      BY <2>4, <3>3 DEF Mark
    <3>5. asked' \in [Kinds -> Values] /\ shadowed' \subseteq Kinds
      BY <2>4 DEF Mark, Asked, Attr
    <3> QED
      BY <2>4, <3>1, <3>2, <3>3, <3>4, <3>5 DEF Mark
  <2>5. ASSUME NEW u \in Users, NoChange(u) PROVE TypeOK' /\ Room'
    <3>1. /\ pc[u] = "lock"
          /\ pc' = [pc EXCEPT ![u] = "idle"]
          /\ calls' = calls + 1
      BY <2>5 DEF NoChange, Asked, Return
    <3>2. Room' /\ calls' \in 0..MaxCalls
      BY <3>1, LockCounted
    <3>3. asked' \in [Kinds -> Values] /\ shadowed' \subseteq Kinds
      BY <2>5 DEF NoChange, Asked, Attr
    <3>4. call' \in [Users -> [kind : Kinds, att : Attr]]
      BY <2>5 DEF NoChange, Return, NoCall, Initially, Attr
    <3> QED
      BY <2>5, <3>1, <3>2, <3>3, <3>4 DEF NoChange
  <2>6. ASSUME NEW u \in Users, CheckRunning(u) PROVE TypeOK' /\ Room'
    <3>1. TypeOK'
      BY <2>6 DEF CheckRunning
    <3>2. Room'
      BY <2>1, <2>6 DEF CheckRunning
    <3> QED
      BY <3>1, <3>2
  <2>7. ASSUME NEW u \in Users, Apply(u) PROVE TypeOK' /\ Room'
    <3>1. call' \in [Users -> [kind : Kinds, att : Attr]]
      BY <2>7 DEF Apply, Return, NoCall, Initially, Attr
    <3>2. /\ new' = new /\ upd' = {}
          /\ {cur', ctx'} \subseteq [Kinds -> Attr]
          /\ woken' \subseteq {o \in Users : pc[o] = "wait"}
      BY <2>7, UpdateEffect DEF Apply
    <3>3. pc[u] = "apply" /\ pc' = [pc EXCEPT ![u] = "idle"]
      BY <2>7 DEF Apply, Return
    <3>4. TypeOK'
      BY <2>7, <3>1, <3>2, <3>3 DEF Apply
    <3>5. Room'
      BY <2>1, <2>7, <3>3 DEF Apply
    <3> QED
      BY <3>4, <3>5
  <2>8. ASSUME NEW u \in Users, WaitEnds(u) PROVE TypeOK' /\ Room'
    <3>1. call' \in [Users -> [kind : Kinds, att : Attr]]
      BY <2>8 DEF WaitEnds, Return, NoCall, Initially, Attr
    <3>2. TypeOK'
      BY <2>8, <3>1 DEF WaitEnds, Return
    <3>3. Room'
      BY <2>1, <2>8 DEF WaitEnds, Return
    <3> QED
      BY <3>2, <3>3
  <2>9. ASSUME NEW t \in Threads, Stats(t) PROVE TypeOK' /\ Room'
    <3>1. ana' \in [Threads -> {"idle", "first", "update", "algos"}]
      BY <2>9 DEF Stats
    <3> QED
      BY <2>2, <2>9, <3>1 DEF Stats
  <2>10. ASSUME NEW t \in Threads, SetRunning(t) PROVE TypeOK' /\ Room'
    BY <2>2, <2>10 DEF SetRunning
  <2>11. CASE Update
    <3>1. /\ new' = new /\ upd' = {}
          /\ {cur', ctx'} \subseteq [Kinds -> Attr]
          /\ woken' \subseteq {o \in Users : pc[o] = "wait"}
      BY <2>11, UpdateEffect DEF Update
    <3>2. sure' \in BOOLEAN
      BY <2>11 DEF Update, isRunningState
    <3> QED
      BY <2>2, <2>11, <3>1, <3>2 DEF Update
  <2>12. ASSUME NEW t \in Threads, NoUpdate(t) PROVE TypeOK' /\ Room'
    BY <2>2, <2>12 DEF NoUpdate
  <2>13. CASE Algos
    BY <2>2, <2>13 DEF Algos
  <2>17. CASE Prepare \/ Prepared
    <3>1. /\ new' = new /\ upd' \subseteq upd
          /\ {cur', ctx'} \subseteq [Kinds -> Attr]
          /\ woken' \subseteq {o \in Users : pc[o] = "wait"}
      <4>1. CASE updateConfig
        BY <4>1, UpdateEffect
      <4>2. CASE UNCHANGED <<handle, woken>>
        BY <4>2
      <4> QED
        BY <2>17, <4>1, <4>2 DEF Prepare, Prepared
    <3> QED
      BY <2>2, <2>17, <3>1 DEF Prepare, Prepared
  <2>15. CASE PrepareFails \/ Start \/ Join \/ Stop \/ SetEnable
    BY <2>2, <2>15 DEF PrepareFails, Start, Join, Stop, SetEnable
  <2>16. CASE UNCHANGED vars
    BY <2>2, <2>16 DEF vars
  <2> QED
    BY <2>3, <2>4, <2>5, <2>6, <2>7, <2>8, <2>9, <2>10, <2>11, <2>12, <2>13,
       <2>17, <2>15, <2>16
       DEF Next, Proceed, Frame, IspFrame, Threads
<1>3. QED
  BY <1>1, <1>2, PTL DEF Spec

\* The handle, its setters and the analyzer threads of RkAiqHandleIntCom and
\* RkAiqCore stay well typed; in particular only waiting setters are signalled.
THEOREM TypeCorrect == Spec => []TypeOK
<1>1. Typed => TypeOK
  BY DEF Typed
<1> QED
  BY <1>1, TypedInvariant, PTL

-----------------------------------------------------------------------------
(* NewestWins: the mutex is not needed for it, only that a mark, a take-   *)
(* over and a comparison are each one step.                                *)
LEMMA NewestInvariant == Spec => []Newest
<1> USE AlgoConfigAssumption DEF AlgoConfigAssumption
<1>1. Init => Newest
  BY DEF Init, Newest, Pending, Initially
<1>2. TypeOK /\ Newest /\ [Next]_vars => Newest'
  <2> SUFFICES ASSUME TypeOK, Newest, [Next]_vars PROVE Newest'
    OBVIOUS
  <2> USE DEF handle, setters, history
  <2>1. ASSUME UNCHANGED <<upd, new, ctx, asked, shadowed>> PROVE Newest'
    BY <2>1 DEF Newest, Pending
  <2>2. ASSUME updateConfig, UNCHANGED <<asked, shadowed>> PROVE Newest'
    <3>1. \A k \in Kinds : Pending(k)' = Pending(k)
      BY <2>2, UpdateEffect
    <3> QED
      BY <2>2, <3>1 DEF Newest
  <2>3. ASSUME NEW u \in Users, Mark(u) PROVE Newest'
    <3>1. call[u] \in [kind : Kinds, att : Attr]
      BY DEF TypeOK
    <3>2. PICK k \in Kinds : k = call[u].kind
      BY <3>1
    <3>3. /\ asked' = [asked EXCEPT ![k] = call[u].att.val]
          /\ shadowed' = shadowed \ {k}
          /\ upd' = upd \cup {k}
          /\ ctx' = ctx
      BY <2>3, <3>2 DEF Mark, Asked
    <3>4. new' = [new EXCEPT ![k] = call'[u].att]
      BY <2>3, <3>2 DEF Mark
    <3>5. call'[u].att.val = call[u].att.val
      BY <2>3, <3>1 DEF Mark, TypeOK, Attr
    <3>6. k \in upd'
      BY <3>3
    <3>7. new'[k].val = asked'[k]
      BY <3>3, <3>4, <3>5, <3>6 DEF TypeOK
    <3>8. ASSUME NEW j \in Kinds \ {k}
          PROVE  Pending(j)' = Pending(j) /\ asked'[j] = asked[j]
      BY <3>3, <3>4, <3>8 DEF Pending, TypeOK
    <3>9. Pending(k)'.val = asked'[k]
      BY <3>6, <3>7 DEF Pending
    <3> QED
      BY <3>3, <3>8, <3>9 DEF Newest
  <2>4. ASSUME NEW u \in Users, NoChange(u) PROVE Newest'
    <3>1. call[u] \in [kind : Kinds, att : Attr]
      BY DEF TypeOK
    <3>2. PICK k \in Kinds : k = call[u].kind
      BY <3>1
    <3>3. /\ asked' = [asked EXCEPT ![k] = call[u].att.val]
          /\ shadowed' = IF Pending(k).val # call[u].att.val
                         THEN shadowed \cup {k} ELSE shadowed \ {k}
          /\ upd' = upd /\ new' = new /\ ctx' = ctx
      BY <2>4, <3>2 DEF NoChange, Asked, Pending
    <3>4. \A j \in Kinds : Pending(j)' = Pending(j)
      BY <3>3 DEF Pending
    <3> QED
      BY <3>3, <3>4 DEF Newest, TypeOK
  <2>5. ASSUME NEW u \in Users, Call(u) \/ CheckRunning(u) \/ WaitEnds(u)
        PROVE  Newest'
    BY <2>1, <2>5 DEF Call, CheckRunning, WaitEnds
  <2>6. ASSUME NEW u \in Users, Apply(u) PROVE Newest'
    BY <2>2, <2>6 DEF Apply
  <2>7. ASSUME NEW t \in Threads, Stats(t) \/ SetRunning(t) \/ NoUpdate(t)
        PROVE  Newest'
    BY <2>1, <2>7 DEF Stats, SetRunning, NoUpdate
  <2>8. CASE Update
    BY <2>2, <2>8 DEF Update
  <2>9. CASE Prepare \/ Prepared
    BY <2>1, <2>2, <2>9 DEF Prepare, Prepared
  <2>10. CASE Algos \/ PrepareFails \/ Start \/ Join \/ Stop \/ SetEnable
    BY <2>1, <2>10 DEF Algos, PrepareFails, Start, Join, Stop, SetEnable
  <2>11. CASE UNCHANGED vars
    BY <2>1, <2>11 DEF vars
  <2> QED
    BY <2>3, <2>4, <2>5, <2>6, <2>7, <2>8, <2>9, <2>10, <2>11
       DEF Next, Proceed, Frame, IspFrame, Threads
<1>3. QED
  BY <1>1, <1>2, TypeCorrect, PTL DEF Spec

\* For any number of setters and kinds: once nothing is marked the algorithm was
\* last given what the newest call of each kind asked for, unless that call was
\* lost in the comparison with mCur.
THEOREM NewestWinsAlways == Spec => []NewestWins
<1>1. Newest => NewestWins
  BY DEF Newest, NewestWins, Pending
<1> QED
  BY <1>1, NewestInvariant, PTL

-----------------------------------------------------------------------------
(* OneConfigPerFrame: the mutex keeps setters that saw another state out   *)
(* of the frame, and the state cannot change while a frame is analyzed.    *)
LEMMA ExclusionInvariant == Spec => [](Held /\ AnalyzersStream /\ Frozen)
<1> USE AlgoConfigAssumption DEF AlgoConfigAssumption, Nobody
<1> DEFINE Excl == Held /\ AnalyzersStream /\ Frozen
<1>1. Init => Excl
  BY DEF Init, Held, AnalyzersStream, Frozen
<1>2. TypeOK /\ Excl /\ [Next]_vars => Excl'
  <2> SUFFICES ASSUME TypeOK, Excl, [Next]_vars PROVE Excl'
    OBVIOUS
  <2> USE DEF core, frames, handle, setters, history
  <2>1. ASSUME UNCHANGED <<core, frames>>,
               NEW u \in Users, pc[u] \notin {"check", "apply"},
               pc'[u] \notin {"check", "apply"},
               \A o \in Users \ {u} : pc'[o] = pc[o], mutex' = mutex
        PROVE  Excl'
    BY <2>1 DEF Held, AnalyzersStream, Frozen, Streaming, isRunningState
  <2>2. ASSUME NEW u \in Users, Call(u) \/ NoChange(u) \/ WaitEnds(u)
        PROVE  Excl'
    BY <2>1, <2>2 DEF Call, NoChange, WaitEnds, Return, TypeOK
  <2>3. ASSUME NEW u \in Users, Mark(u) PROVE Excl'
    <3>1. /\ mutex = Nobody /\ mutex' = u
          /\ pc' = [pc EXCEPT ![u] = "check"]
          /\ UNCHANGED <<core, frames>>
      BY <2>3 DEF Mark
    <3> QED
      BY <3>1 DEF Held, AnalyzersStream, Frozen, Streaming, isRunningState,
                  TypeOK
  <2>4. ASSUME NEW u \in Users, CheckRunning(u) PROVE Excl'
    <3>1. pc[u] = "check" /\ mutex = u
      BY <2>4 DEF CheckRunning, Held
    <3>2. Held'
      BY <2>4, <3>1 DEF CheckRunning, Held, TypeOK
    <3>3. AnalyzersStream' /\ Frozen'
      BY <2>4 DEF CheckRunning, AnalyzersStream, Frozen, Streaming,
                  isRunningState, TypeOK
    <3> QED
      BY <3>2, <3>3
  <2>5. ASSUME NEW u \in Users, Apply(u) PROVE Excl'
    <3>1. /\ pc[u] = "apply" /\ mutex = u /\ mutex' = Nobody
          /\ pc' = [pc EXCEPT ![u] = "idle"]
          /\ UNCHANGED <<core, frames>>
      BY <2>5 DEF Apply, Return, Held
    <3> QED
      BY <3>1 DEF Held, AnalyzersStream, Frozen, Streaming, isRunningState,
                  TypeOK
  <2>6. ASSUME NEW t \in Threads, Stats(t) PROVE Excl'
    <3>1. /\ Streaming /\ ana[t] = "idle"
          /\ UNCHANGED <<mState, ctl, sure, mutex, pc>>
      BY <2>6 DEF Stats
    <3>2. \A o \in Threads \ {t} : ana'[o] = ana[o]
      BY <2>6 DEF Stats, TypeOK
    <3> QED
      BY <3>1, <3>2 DEF Held, AnalyzersStream, Frozen, Streaming,
                        isRunningState, Threads
  <2>7. ASSUME NEW t \in Threads, SetRunning(t) \/ NoUpdate(t) PROVE Excl'
    <3>1. /\ ana[t] \in {"first", "update"} /\ ana[t] # "idle"
          /\ \A o \in Threads \ {t} : ana'[o] = ana[o]
          /\ mState' \in {mState, "running"}
          /\ UNCHANGED <<ctl, sure, mutex, pc>>
      BY <2>7 DEF SetRunning, NoUpdate, TypeOK
    <3>2. Streaming
      BY <3>1 DEF AnalyzersStream
    <3> QED
      BY <3>1, <3>2 DEF Held, AnalyzersStream, Frozen, Streaming,
                        isRunningState, Threads
  <2>8. CASE Update
    <3>1. /\ ana["isp"] = "update" /\ mutex = Nobody
          /\ sure' = isRunningState
          /\ ana' = [ana EXCEPT !["isp"] = "algos"]
          /\ UNCHANGED <<core, mutex, pc>>
      BY <2>8 DEF Update
    <3>2. Streaming
      BY <3>1 DEF AnalyzersStream, Threads
    <3>3. \A u \in Users : pc[u] # "apply"
      BY <3>1 DEF Held
    <3> QED
      BY <3>1, <3>2, <3>3 DEF Held, AnalyzersStream, Frozen, Streaming,
                              isRunningState, Threads, TypeOK
  <2>9. CASE Algos
    BY <2>9 DEF Algos, Held, AnalyzersStream, Frozen, Streaming, Threads,
                TypeOK
  <2>10. CASE Prepare \/ Prepared \/ PrepareFails \/ Start \/ Join \/ Stop
    <3>1. UNCHANGED <<frames, mutex, pc>>
      BY <2>10 DEF Prepare, Prepared, PrepareFails, Start, Join, Stop
    <3>2. \A t \in Threads : ana[t] = "idle"
      BY <2>10 DEF Prepare, Prepared, PrepareFails, Start, Join, Stop, AnalyzersStream,
                  Streaming
    <3> QED
      BY <3>1, <3>2 DEF Held, AnalyzersStream, Frozen, Threads
  <2>11. CASE SetEnable \/ UNCHANGED vars
    BY <2>11 DEF SetEnable, vars, Held, AnalyzersStream, Frozen, Streaming,
                 isRunningState
  <2> QED
    BY <2>2, <2>3, <2>4, <2>5, <2>6, <2>7, <2>8, <2>9, <2>10, <2>11
       DEF Next, Proceed, Frame, IspFrame, Threads
<1>3. QED
  BY <1>1, <1>2, TypeCorrect, PTL DEF Spec

\* A frame that was begun in RUNNING is analyzed with one configuration from its
\* updateConfig to the last algorithm, whoever sets attributes meanwhile.
THEOREM OneConfigPerFrameAlways == Spec => OneConfigPerFrame
<1> DEFINE Keeps == sure /\ ana["isp"] = "algos" => ctx' = ctx
<1>1. Held /\ AnalyzersStream /\ Frozen /\ [Next]_vars => Keeps
  <2> SUFFICES ASSUME Held, AnalyzersStream, Frozen, [Next]_vars,
                      sure, ana["isp"] = "algos"
               PROVE  ctx' = ctx
    OBVIOUS
  <2> USE DEF handle
  <2>1. Streaming /\ \A u \in Users : ~Apply(u)
    BY DEF AnalyzersStream, Frozen, Threads, Apply
  <2>2. ~Update /\ ~Prepare /\ ~Prepared
    BY <2>1 DEF Update, Prepare, Prepared, Streaming
  <2>3. ASSUME NEW u \in Users, Call(u) \/ Proceed(u) PROVE ctx' = ctx
    BY <2>1, <2>3 DEF Call, Proceed, Mark, NoChange, CheckRunning, WaitEnds
  <2>4. ASSUME NEW t \in Threads, Stats(t) \/ Frame(t) PROVE ctx' = ctx
    BY <2>4 DEF Stats, Frame, SetRunning, NoUpdate
  <2>5. CASE Algos \/ PrepareFails \/ Start \/ Join \/ Stop \/ SetEnable
    BY <2>5 DEF Algos, PrepareFails, Start, Join, Stop, SetEnable
  <2>6. CASE UNCHANGED vars
    BY <2>6 DEF vars
  <2> QED
    BY <2>2, <2>3, <2>4, <2>5, <2>6 DEF Next, IspFrame, Threads
<1>2. Keeps => [Keeps]_vars
  OBVIOUS
<1>3. QED
  BY <1>1, <1>2, ExclusionInvariant, PTL DEF Spec, OneConfigPerFrame

-----------------------------------------------------------------------------
(* SignalledIsApplied: what a setter marked is taken over before, or when, *)
(* it is signalled, or a newer value of the kind is.                       *)

\* updateConfig serves every setter that waits, signalled or not.
LEMMA UpdateServes ==
    ASSUME TypeOK, Stamped, updateConfig, UNCHANGED calls
    PROVE  /\ Stamped'
           /\ \A u \in Users : Serves(u) /\ UNCHANGED <<pc[u], call[u]>>
                                 => Serves(u)'
<1>1. /\ \A k \in Kinds : ctx'[k] = Pending(k) /\ Pending(k)' = Pending(k)
      /\ new' = new
      /\ woken' \subseteq {u \in Users : pc[u] = "wait"}
  BY UpdateEffect
<1>2. Stamped'
  BY <1>1 DEF Stamped, Pending
<1>3. ASSUME NEW u \in Users, Serves(u), UNCHANGED <<pc[u], call[u]>>
      PROVE  Serves(u)'
  <2>1. PICK k \in Kinds : k = call[u].kind
    BY DEF TypeOK
  <2>2. call'[u].kind = k /\ Pending(k)' = Pending(k) /\ ctx'[k] = Pending(k)
    BY <1>1, <1>3, <2>1
  <2>3. pc[u] \in {"check", "apply", "wait"} => Pending(k).ser >= call[u].att.ser
    BY <1>3, <2>1 DEF Serves
  <2>4. Pending(call[u].kind)' = Pending(k)
    BY <2>2 DEF Pending
  <2>5. u \in woken' => pc[u] = "wait"
    BY <1>1
  <2> QED
    BY <1>3, <2>2, <2>3, <2>4, <2>5 DEF Serves
<1> QED
  BY <1>2, <1>3

LEMMA ServedInvariant == Spec => []Served
<1> USE AlgoConfigAssumption DEF AlgoConfigAssumption
<1>1. Init => Served
  BY DEF Init, Served, Stamped, Serves, Pending, Initially, NoCall
<1>2. Typed /\ Served /\ [Next]_vars => Served'
  <2> SUFFICES ASSUME TypeOK, Room, Served, [Next]_vars PROVE Served'
    BY DEF Typed
  <2> USE DEF handle, setters, history
  <2>1. ASSUME UNCHANGED <<handle, calls, pc, call, woken>> PROVE Served'
    BY <2>1 DEF Served, Stamped, Serves, Pending
  <2>2. ASSUME updateConfig, UNCHANGED <<calls, pc, call>> PROVE Served'
    BY <2>2, UpdateServes DEF Served
  <2>3. ASSUME NEW u \in Users, UNCHANGED handle, calls' \in {calls, calls + 1},
               \A o \in Users \ {u} : UNCHANGED <<pc[o], call[o]>>,
               woken' \subseteq woken \ {u},
               pc'[u] \in {"idle", "lock"}, call'[u].att.ser = 0
        PROVE  Served'
    <3>1. Stamped'
      BY <2>3 DEF Served, Stamped, TypeOK, Attr
    <3>2. Serves(u)'
      BY <2>3 DEF Serves, TypeOK
    <3>3. ASSUME NEW o \in Users \ {u} PROVE Serves(o)'
      <4>1. call[o].att.ser \in Nat /\ Serves(o)
        BY DEF Served, TypeOK, Attr
      <4> QED
        BY <2>3, <3>3, <4>1 DEF Serves, Pending, TypeOK
    <3> QED
      BY <3>1, <3>2, <3>3 DEF Served
  <2>4. ASSUME NEW u \in Users, Call(u) \/ NoChange(u) \/ WaitEnds(u)
        PROVE  Served'
    <3>1. UNCHANGED handle /\ calls' \in {calls, calls + 1}
      BY <2>4 DEF Call, NoChange, WaitEnds, Asked
    <3>2. \A o \in Users \ {u} : UNCHANGED <<pc[o], call[o]>>
      BY <2>4 DEF Call, NoChange, WaitEnds, Return, TypeOK
    <3>3. woken' \subseteq woken \ {u}
      BY <2>4 DEF Call, NoChange, WaitEnds, TypeOK
    <3>4. pc'[u] \in {"idle", "lock"} /\ call'[u].att.ser = 0
      BY <2>4 DEF Call, NoChange, WaitEnds, Return, NoCall, Initially, TypeOK
    <3> QED
      BY <2>3, <3>1, <3>2, <3>3, <3>4
  <2>5. ASSUME NEW u \in Users, Mark(u) PROVE Served'
    <3>1. PICK k \in Kinds : k = call[u].kind
      BY DEF TypeOK
    <3>2. /\ pc[u] = "lock" /\ calls' = calls + 1 /\ calls \in Nat
          /\ UNCHANGED <<ctx, woken>> /\ upd' = upd \cup {k}
          /\ \A o \in Users \ {u} : pc'[o] = pc[o]
      BY <2>5, <3>1 DEF Mark, Asked, TypeOK
    <3>3. calls + 1 \in 0..MaxCalls
      BY <3>2, LockCounted, <2>5 DEF Mark, Typed
    <3>4. /\ call'[u].kind = k /\ call'[u].att.ser = calls + 1
          /\ \A o \in Users \ {u} : call'[o] = call[o]
      BY <2>5, <3>1, <3>3, StampTyped DEF Mark, TypeOK
    <3>5. /\ new'[k].ser = calls + 1
          /\ \A j \in Kinds \ {k} : new'[j] = new[j]
      BY <2>5, <3>1, <3>4 DEF Mark, TypeOK
    <3>6. \A j \in Kinds : new[j].ser \in Nat /\ ctx[j].ser \in Nat
      BY DEF TypeOK, Attr
    <3>7. Stamped'
      BY <3>2, <3>5, <3>6 DEF Served, Stamped
    <3>8. Serves(u)'
      <4>1. Pending(call[u].kind)' = new'[k]
        BY <3>2, <3>4 DEF Pending
      <4>2. u \notin woken'
        BY <3>2 DEF TypeOK
      <4> QED
        BY <3>2, <3>4, <3>5, <4>1, <4>2 DEF Serves
    <3>9. ASSUME NEW o \in Users \ {u} PROVE Serves(o)'
      <4>1. /\ Serves(o) /\ call[o].att.ser \in Nat
            /\ call[o].kind \in Kinds /\ call'[o] = call[o]
        BY <3>4 DEF Served, TypeOK, Attr
      <4>2. CASE call[o].kind = k
        <5>1. Pending(call[o].kind)' = new'[k]
          BY <3>2, <4>1, <4>2 DEF Pending
        <5> QED
          BY <3>2, <3>5, <4>1, <5>1 DEF Serves
      <4>3. CASE call[o].kind # k
        <5>1. Pending(call[o].kind)' = Pending(call[o].kind)
          BY <3>2, <3>5, <4>1, <4>3 DEF Pending
        <5> QED
          BY <3>2, <4>1, <5>1 DEF Serves
      <4> QED
        BY <4>2, <4>3
    <3> QED
      BY <3>7, <3>8, <3>9 DEF Served
  <2>6. ASSUME NEW u \in Users, CheckRunning(u) PROVE Served'
    <3>1. /\ UNCHANGED <<handle, calls, call, woken>>
          /\ pc[u] = "check" /\ \A o \in Users \ {u} : pc'[o] = pc[o]
      BY <2>6 DEF CheckRunning, TypeOK
    <3> QED
      BY <3>1 DEF Served, Stamped, Serves, Pending
  <2>7. ASSUME NEW u \in Users, Apply(u) PROVE Served'
    <3>1. /\ updateConfig /\ UNCHANGED calls /\ pc[u] = "apply"
          /\ \A o \in Users \ {u} : UNCHANGED <<pc[o], call[o]>>
          /\ pc'[u] = "idle" /\ call'[u].att.ser = 0
      BY <2>7 DEF Apply, Return, NoCall, Initially, TypeOK
    <3>2. u \notin woken'
      BY <3>1, UpdateEffect
    <3>3. Serves(u)'
      BY <3>1, <3>2 DEF Serves, TypeOK
    <3>4. Stamped' /\ \A o \in Users \ {u} : Serves(o)'
      BY <3>1, UpdateServes DEF Served
    <3> QED
      BY <3>3, <3>4 DEF Served
  <2>8. ASSUME NEW t \in Threads, Stats(t) \/ Frame(t) PROVE Served'
    BY <2>1, <2>8 DEF Stats, Frame, SetRunning, NoUpdate
  <2>9. CASE Update
    BY <2>2, <2>9 DEF Update
  <2>10. CASE Prepare \/ Prepared
    BY <2>1, <2>2, <2>10 DEF Prepare, Prepared
  <2>11. CASE Algos \/ PrepareFails \/ Start \/ Join \/ Stop \/ SetEnable
    BY <2>1, <2>11 DEF Algos, PrepareFails, Start, Join, Stop, SetEnable
  <2>12. CASE UNCHANGED vars
    BY <2>1, <2>12 DEF vars
  <2> QED
    BY <2>4, <2>5, <2>6, <2>7, <2>8, <2>9, <2>10, <2>11, <2>12
       DEF Next, Proceed, Frame, IspFrame, Threads
<1>3. QED
  BY <1>1, <1>2, TypedInvariant, PTL DEF Spec

\* When a setter that was signalled returns the algorithm has been given its
\* attribute, or a newer one of the kind, however many setters share the
\* condition.
THEOREM SignalledIsAppliedAlways == Spec => SignalledIsApplied
<1> DEFINE Back == \A u \in Users : u \in woken /\ pc'[u] = "idle" =>
                       ctx[call[u].kind].ser >= call[u].att.ser
<1>1. Served => Back
  BY DEF Served, Serves
<1>2. Back => [Back]_vars
  OBVIOUS
<1>3. QED
  BY <1>1, <1>2, ServedInvariant, PTL DEF SignalledIsApplied
=============================================================================
