----------------------------- MODULE StatsCache -----------------------------
(***************************************************************************)
(* The 3A statistics that RkAiqCore keeps for its users.  The analyzer     *)
(* thread copies the statistics of every frame into an item of a small     *)
(* pool and queues it; users take them with get3AStats (a copy) or         *)
(* get3AStatsBlk (a reference, with or without a timeout), and give a      *)
(* reference back with release3AStatsRef.  All of these run under          *)
(* ispStatsListMutex; start() and stop() of RkAiqCore do not take it.      *)
(***************************************************************************)
EXTENDS Naturals, FiniteSets, Sequences

CONSTANTS
    Users,      \* threads that read statistics
    Items,      \* items of mAiqStatsPool
    MaxFrame,   \* frame ids are told apart modulo this; frames never end
    Restarts    \* the user may start the engine again after a stop

ASSUME StatsAssumption ==
    /\ IsFiniteSet(Items)
    /\ MaxFrame \in Nat \ {0}
    /\ Restarts \in BOOLEAN

Stats == [item : Items, frame : 1..MaxFrame]
NoRef == [frame |-> 0]

VARIABLES
    mState,     \* RkAiqCore::mState
    first,      \* firstStatsReceived
    core,       \* the analyzer thread: down, idle, or with a frame's statistics
    ctl,        \* where the caller of start() or stop() is
    frame,      \* last frame analyzed
    free,       \* items in mAiqStatsPool
    content,    \* the frame whose statistics an item holds
    cached,     \* mAiqStatsCachedList
    outMap,     \* keys of mAiqStatsOutMap
    upc,        \* where each user is in get3AStatsFromCachedList
    timed,      \* the call of the user has a timeout
    held,       \* the reference each user has and has not released
    kept        \* history: a reference was held across a stop()

vars == <<mState, first, core, ctl, frame, free, content, cached,
          outMap, upc, timed, held, kept>>
control == <<mState, first, core, ctl, frame>>
store == <<free, content, cached, outMap>>
users == <<upc, timed, held>>

TypeOK ==
    /\ mState \in {"PREPARED", "STARTED", "RUNNING", "STOPED"}
    /\ first \in BOOLEAN
    /\ core \in {"down", "idle", "cache"}
    /\ ctl \in {"off", "starting", "on", "list", "map", "state", "wake"}
    /\ frame \in 0..MaxFrame
    /\ free \subseteq Items
    /\ content \in [Items -> 0..MaxFrame]
    /\ cached \in Seq(Stats)
    /\ outMap \subseteq Items
    /\ upc \in [Users -> {"idle", "locked", "wait", "woken", "expired"}]
    /\ timed \in [Users -> BOOLEAN]
    /\ held \in [Users -> Stats \cup {NoRef}]
    /\ kept \in BOOLEAN

Init ==
    /\ mState = "PREPARED"
    /\ first = FALSE
    /\ core = "down"
    /\ ctl = "off"
    /\ frame = 0
    /\ free = Items
    /\ content = [i \in Items |-> 0]
    /\ cached = <<>>
    /\ outMap = {}
    /\ upc = [u \in Users |-> "idle"]
    /\ timed = [u \in Users |-> FALSE]
    /\ held = [u \in Users |-> NoRef]
    /\ kept = FALSE

\* ispStatsListMutex: only a user about to wait keeps it across steps.
Unlocked == \A u \in Users : upc[u] # "locked"

\* Broadcast on mIspStatsCond.
Wake(pcs) == [u \in Users |-> IF pcs[u] = "wait" THEN "woken" ELSE pcs[u]]
ItemsOf(list) == {list[i].item : i \in DOMAIN list}

-----------------------------------------------------------------------------
(* The user's control thread: start, stop and prepare of RkAiqCore.        *)

StartThread ==
    /\ ctl = "off"
    /\ mState = "PREPARED" \/ (Restarts /\ mState = "STOPED")
    /\ core' = "idle"
    /\ ctl' = "starting"
    /\ UNCHANGED <<mState, first, frame, store, users, kept>>

SetStarted ==
    /\ ctl = "starting"
    /\ mState' = "STARTED"
    /\ ctl' = "on"
    /\ UNCHANGED <<first, core, frame, store, users, kept>>

\* stop() has joined the analyzer thread.
StopThread ==
    /\ ctl = "on"
    /\ core = "idle"
    /\ core' = "down"
    /\ ctl' = "list"
    /\ UNCHANGED <<mState, first, frame, store, users, kept>>

ClearCached ==
    /\ ctl = "list"
    /\ cached' = <<>>
    /\ free' = free \cup ItemsOf(cached)
    /\ ctl' = "map"
    /\ UNCHANGED <<mState, first, core, frame, content, outMap, users, kept>>

\* The items of references that users still hold go back to the pool.
ClearOutMap ==
    /\ ctl = "map"
    /\ outMap' = {}
    /\ free' = free \cup outMap
    /\ kept' = (kept \/ \E u \in Users : held[u] # NoRef)
    /\ ctl' = "state"
    /\ UNCHANGED <<mState, first, core, frame, content, cached, users>>

SetStoped ==
    /\ ctl = "state"
    /\ mState' = "STOPED"
    /\ first' = FALSE
    /\ ctl' = "wake"
    /\ UNCHANGED <<core, frame, store, users, kept>>

WakeAll ==
    /\ ctl = "wake"
    /\ upc' = Wake(upc)
    /\ ctl' = "off"
    /\ UNCHANGED <<mState, first, core, frame, store, timed, held,
                   kept>>

Prepare ==
    /\ ctl = "off"
    /\ Restarts
    /\ mState = "STOPED"
    /\ mState' = "PREPARED"
    /\ UNCHANGED <<first, core, ctl, frame, store, users, kept>>

-----------------------------------------------------------------------------
(* The analyzer thread: analyze.                                           *)

TakeStats ==
    /\ core = "idle"
    /\ frame' = (frame % MaxFrame) + 1
    /\ first' = TRUE
    /\ mState' = IF first THEN mState ELSE "RUNNING"
    /\ core' \in {"cache", "idle"}    \* idle: they could not be converted
    /\ UNCHANGED <<ctl, store, users, kept>>

\* Mutant: the item is labelled with the next frame.
QueueNextFrame(item, list) ==
    /\ cached' = Append(list, [item |-> item, frame |-> frame + 1])
    /\ content' = [content EXCEPT ![item] = frame]
    /\ upc' = Wake(upc)

\* Mutant: nobody is told of the item.
QueueSilent(item, list) ==
    /\ cached' = Append(list, [item |-> item, frame |-> frame])
    /\ content' = [content EXCEPT ![item] = frame]
    /\ upc' = upc

Queue(item, list) ==
    /\ cached' = Append(list, [item |-> item, frame |-> frame])
    /\ content' = [content EXCEPT ![item] = frame]
    /\ upc' = Wake(upc)

\* cacheIspStatsToList: a free item, else the oldest queued one, else nothing.
CacheFree ==
    /\ core = "cache"
    /\ Unlocked
    /\ \E item \in free :
          /\ free' = free \ {item}
          /\ Queue(item, cached)
    /\ core' = "idle"
    /\ UNCHANGED <<mState, first, ctl, frame, outMap, timed, held,
                   kept>>

CacheRecycled ==
    /\ core = "cache"
    /\ Unlocked
    /\ free = {}
    /\ cached # <<>>
    /\ Queue(Head(cached).item, Tail(cached))
    /\ core' = "idle"
    /\ UNCHANGED <<mState, first, ctl, frame, free, outMap, timed, held, kept>>

\* Mutant: without a free or queued item, one that is with a user is taken.
CacheOutstanding ==
    /\ core = "cache"
    /\ Unlocked
    /\ free = {}
    /\ cached = <<>>
    /\ \E item \in outMap :
          /\ outMap' = outMap \ {item}
          /\ Queue(item, <<>>)
    /\ core' = "idle"
    /\ UNCHANGED <<mState, first, ctl, frame, free, timed, held,
                   kept>>

CacheNothing ==
    /\ core = "cache"
    /\ Unlocked
    /\ free = {}
    /\ cached = <<>>
    /\ core' = "idle"
    /\ UNCHANGED <<mState, first, ctl, frame, store, users, kept>>

-----------------------------------------------------------------------------
(* The users.                                                              *)

\* One pass of the while condition of get3AStatsFromCachedList, and what
\* follows it when the user is not to wait.
TryTake(u, expired) ==
    IF mState = "STOPED"
    THEN /\ upc' = [upc EXCEPT ![u] = "idle"]       \* *stats = NULL, success
         /\ UNCHANGED <<store, held>>
    ELSE IF cached # <<>>
    THEN LET s == Head(cached) IN
         /\ cached' = Tail(cached)
         /\ outMap' = outMap \cup {s.item}
         /\ held' = [held EXCEPT ![u] = s]
         /\ upc' = [upc EXCEPT ![u] = "idle"]
         /\ UNCHANGED <<free, content>>
    ELSE /\ upc' = [upc EXCEPT ![u] = IF expired THEN "idle" ELSE "locked"]
         /\ UNCHANGED <<store, held>>

GetBlk(u) ==
    /\ upc[u] = "idle"
    /\ held[u] = NoRef       \* bound: a user holds one reference at a time
    /\ Unlocked
    /\ \E t \in BOOLEAN : timed' = [timed EXCEPT ![u] = t]
    /\ TryTake(u, FALSE)
    /\ UNCHANGED <<control, kept>>

\* pthread_cond_wait drops the mutex and enters the wait in one step.
Wait(u) ==
    /\ upc[u] = "locked"
    /\ upc' = [upc EXCEPT ![u] = "wait"]
    /\ UNCHANGED <<control, store, timed, held, kept>>

\* Mutant: the result of timedwait is not looked at.
TimeoutUnseen(u) ==
    /\ upc[u] = "wait"
    /\ timed[u]
    /\ upc' = [upc EXCEPT ![u] = "woken"]
    /\ UNCHANGED <<control, store, timed, held, kept>>

Timeout(u) ==
    /\ upc[u] = "wait"
    /\ timed[u]
    /\ upc' = [upc EXCEPT ![u] = "expired"]
    /\ UNCHANGED <<control, store, timed, held, kept>>

Retry(u) ==
    /\ upc[u] \in {"woken", "expired"}
    /\ Unlocked
    /\ TryTake(u, upc[u] = "expired")
    /\ UNCHANGED <<control, timed, kept>>

\* Mutant: the item returns to the pool but its map entry stays.
ReleaseKeepsEntry(u) ==
    /\ held[u] # NoRef
    /\ Unlocked
    /\ held' = [held EXCEPT ![u] = NoRef]
    /\ free' = free \cup (outMap \cap {held[u].item})
    /\ UNCHANGED <<control, content, cached, outMap, upc, timed, kept>>

\* release3AStatsRef: the map is searched by the address alone.
Release(u) ==
    /\ held[u] # NoRef
    /\ Unlocked
    /\ held' = [held EXCEPT ![u] = NoRef]
    /\ outMap' = outMap \ {held[u].item}
    /\ free' = free \cup (outMap \cap {held[u].item})
    /\ UNCHANGED <<control, content, cached, upc, timed, kept>>

\* get3AStats: copies the oldest item and gives it back, in any state.
Get(u) ==
    /\ upc[u] = "idle"
    /\ Unlocked
    /\ cached # <<>>
    /\ cached' = Tail(cached)
    /\ free' = free \cup {Head(cached).item}
    /\ UNCHANGED <<control, content, outMap, upc, timed, held, kept>>

-----------------------------------------------------------------------------
Stop == StopThread \/ ClearCached \/ ClearOutMap \/ SetStoped \/ WakeAll
Control == StartThread \/ SetStarted \/ Stop \/ Prepare
Core == TakeStats \/ CacheFree \/ CacheRecycled \/ CacheNothing
User(u) == GetBlk(u) \/ Wait(u) \/ Timeout(u) \/ Retry(u) \/ Release(u) \/ Get(u)

Next == Control \/ Core \/ \E u \in Users : User(u)

Spec == Init /\ [][Next]_vars

\* Threads inside a call are scheduled, timers expire, a thread that wants the
\* mutex gets it when it is free again and again, and a stop() that has begun is
\* carried through; whether a user calls is up to the user.
FairSpec ==
    /\ Spec
    /\ \A u \in Users : SF_vars(Wait(u) \/ Timeout(u) \/ Retry(u))
    /\ SF_vars(CacheFree \/ CacheRecycled \/ CacheNothing)
    /\ WF_vars(ClearCached \/ ClearOutMap \/ SetStoped \/ WakeAll)

-----------------------------------------------------------------------------
(* Properties. *)

\* No item of the pool is lost or handed out twice, whatever mix of restarts,
\* releases and recycling; each is in the pool, queued or with a user.
ItemsConserved ==
    /\ free \cup ItemsOf(cached) \cup outMap = Items
    /\ Cardinality(free) + Len(cached) + Cardinality(outMap) = Cardinality(Items)

\* What a user has a reference to does not change under it, provided nobody
\* held a reference across a stop(), which empties mAiqStatsOutMap.
RefStable ==
    ~kept => \A u \in Users : held[u] # NoRef =>
        /\ content[held[u].item] = held[u].frame
        /\ held[u].item \in outMap

\* Another user takes queued statistics.
OtherTakes(u) == Len(cached') < Len(cached) /\ \E w \in Users \ {u} : User(w)

\* A user in a call, with or without a timeout, that was woken and found the
\* item gone is not forgotten: while statistics go on being queued its call
\* returns, unless others take them, or the engine is restarted, for ever.
WaiterServed ==
    \A u \in Users :
        \/ ~[]<><<CacheFree \/ CacheRecycled>>_vars
        \/ []<><<OtherTakes(u)>>_vars
        \/ []<><<StartThread>>_vars
        \/ (upc[u] # "idle") ~> (upc[u] = "idle")

\* A call with a timeout returns, also when nothing is queued any more.  Every
\* wakeup starts the whole timeout again, so that a call need not return when
\* others take statistics, or the engine is restarted, again and again.
TimedCallReturns ==
    \A u \in Users :
        \/ []<><<OtherTakes(u)>>_vars
        \/ []<><<StartThread>>_vars
        \/ (upc[u] # "idle" /\ timed[u]) ~> (upc[u] = "idle")

\* The documented contract of timeout -1: the wait ends when the engine stops.
StopEndsWait ==
    \A u \in Users :
        (upc[u] # "idle" /\ ctl = "off" /\ mState = "STOPED") ~> (upc[u] = "idle")
=============================================================================
