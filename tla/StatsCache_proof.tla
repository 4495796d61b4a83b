-------------------------- MODULE StatsCache_proof --------------------------
(***************************************************************************)
(* Proofs about StatsCache for any pool and any users.                     *)
(***************************************************************************)
EXTENDS StatsCache, FiniteSetTheorems, SequenceTheorems, TLAPS

Distinct(c) == \A i, j \in 1..Len(c) : c[i].item = c[j].item => i = j

\* Every item is in exactly one place: pool f, list c or map o.
Parted(f, c, o) ==
    /\ Distinct(c)
    /\ f \cup ItemsOf(c) \cup o = Items
    /\ f \cap ItemsOf(c) = {}
    /\ f \cap o = {}
    /\ ItemsOf(c) \cap o = {}

Partition == Parted(free, cached, outMap)

\* There is a frame whose statistics the analyzer thread has.
Begun == core = "cache" => frame >= 1

\* Queued statistics are those of the frame they are queued for.
Labelled == \A i \in 1..Len(cached) : content[cached[i].item] = cached[i].frame

\* As long as no stop() emptied the map under a user, references are to
\* different items of the map, and to the frame they were taken for.
Owned ==
    ~kept => \A u \in Users : held[u] # NoRef =>
        /\ content[held[u].item] = held[u].frame
        /\ held[u].item \in outMap
        /\ \A v \in Users \ {u} : held[v] # NoRef => held[v].item # held[u].item

-----------------------------------------------------------------------------
(* The list. *)

LEMMA ListItems ==
    ASSUME NEW c \in Seq(Stats), NEW x
    PROVE  x \in ItemsOf(c) <=> \E i \in 1..Len(c) : c[i].item = x
BY DEF ItemsOf

LEMMA ListTyped ==
    ASSUME NEW c \in Seq(Stats)
    PROVE  ItemsOf(c) \subseteq Items
<1>1. ASSUME NEW i \in 1..Len(c) PROVE c[i].item \in Items
  <2>1. c[i] \in Stats
    OBVIOUS
  <2> QED
    BY <2>1 DEF Stats
<1> QED
  BY <1>1, ListItems

LEMMA TailItems ==
    ASSUME NEW c \in Seq(Stats), c # <<>>
    PROVE  /\ Head(c) \in Stats /\ Tail(c) \in Seq(Stats)
           /\ ItemsOf(c) = {Head(c).item} \cup ItemsOf(Tail(c))
           /\ Distinct(c) => Distinct(Tail(c)) /\ Head(c).item \notin ItemsOf(Tail(c))
<1>1. /\ Head(c) = c[1] /\ Len(c) \in Nat \ {0} /\ Tail(c) \in Seq(Stats)
      /\ Len(Tail(c)) = Len(c) - 1
      /\ \A i \in 1..Len(Tail(c)) : Tail(c)[i] = c[i + 1]
  OBVIOUS
<1>2. Head(c) \in Stats
  BY <1>1
<1>3. ASSUME NEW x
      PROVE  x \in ItemsOf(c) <=> x = Head(c).item \/ x \in ItemsOf(Tail(c))
  <2>1. ASSUME NEW i \in 1..Len(c), c[i].item = x, i # 1
        PROVE  x \in ItemsOf(Tail(c))
    <3>1. i - 1 \in 1..Len(Tail(c)) /\ Tail(c)[i - 1] = c[i]
      BY <1>1, <2>1
    <3> QED
      BY <1>1, <2>1, <3>1, ListItems
  <2>2. ASSUME NEW i \in 1..Len(Tail(c)), Tail(c)[i].item = x
        PROVE  x \in ItemsOf(c)
    <3>1. i + 1 \in 1..Len(c) /\ c[i + 1].item = x
      BY <1>1, <2>2
    <3> QED
      BY <3>1, ListItems
  <2>3. Head(c).item \in ItemsOf(c)
    BY <1>1, ListItems
  <2>4. ASSUME x \in ItemsOf(c), x # Head(c).item PROVE x \in ItemsOf(Tail(c))
    <3>1. PICK i \in 1..Len(c) : c[i].item = x
      BY <2>4, ListItems
    <3> QED
      BY <1>1, <2>1, <2>4, <3>1
  <2>5. ASSUME x \in ItemsOf(Tail(c)) PROVE x \in ItemsOf(c)
    <3>1. PICK i \in 1..Len(Tail(c)) : Tail(c)[i].item = x
      BY <1>1, <2>5, ListItems
    <3> QED
      BY <2>2, <3>1
  <2> QED
    BY <2>3, <2>4, <2>5
<1>4. ASSUME Distinct(c)
      PROVE  Distinct(Tail(c)) /\ Head(c).item \notin ItemsOf(Tail(c))
  <2>1. Distinct(Tail(c))
    <3> SUFFICES ASSUME NEW i \in 1..Len(Tail(c)), NEW j \in 1..Len(Tail(c)),
                        Tail(c)[i].item = Tail(c)[j].item
                 PROVE  i = j
      BY DEF Distinct
    <3>1. /\ i + 1 \in 1..Len(c) /\ j + 1 \in 1..Len(c)
          /\ c[i + 1].item = c[j + 1].item
      BY <1>1
    <3>2. i + 1 = j + 1
      BY <1>4, <3>1 DEF Distinct
    <3> QED
      BY <3>2
  <2>2. ASSUME NEW i \in 1..Len(Tail(c)) PROVE Tail(c)[i].item # Head(c).item
    <3>1. i + 1 \in 1..Len(c) /\ 1 \in 1..Len(c) /\ i + 1 # 1
      BY <1>1
    <3> QED
      BY <1>1, <1>4, <3>1 DEF Distinct
  <2> QED
    BY <1>1, <2>1, <2>2, ListItems, ZenonT(30)
<1> QED
  BY <1>1, <1>2, <1>3, <1>4

LEMMA AppendItems ==
    ASSUME NEW c \in Seq(Stats), NEW s \in Stats
    PROVE  /\ Append(c, s) \in Seq(Stats)
           /\ ItemsOf(Append(c, s)) = ItemsOf(c) \cup {s.item}
           /\ Distinct(c) /\ s.item \notin ItemsOf(c) => Distinct(Append(c, s))
<1> DEFINE a == Append(c, s)
<1>1. /\ a \in Seq(Stats) /\ Len(a) = Len(c) + 1 /\ Len(c) \in Nat
      /\ \A i \in 1..Len(c) : a[i] = c[i]
      /\ a[Len(c) + 1] = s
  OBVIOUS
<1> HIDE DEF a
<1>2. \A i \in 1..Len(a) : i \in 1..Len(c) \/ i = Len(c) + 1
  BY <1>1
<1>3. ASSUME NEW x PROVE x \in ItemsOf(a) <=> x \in ItemsOf(c) \/ x = s.item
  <2>1. 1..Len(c) \subseteq 1..Len(a) /\ Len(c) + 1 \in 1..Len(a)
    BY <1>1
  <2> QED
    BY <1>1, <1>2, <2>1, ListItems
<1>4. Distinct(c) /\ s.item \notin ItemsOf(c) => Distinct(a)
  <2> SUFFICES ASSUME Distinct(c), s.item \notin ItemsOf(c),
                      NEW i \in 1..Len(a), NEW j \in 1..Len(a),
                      a[i].item = a[j].item
               PROVE  i = j
    BY DEF Distinct
  <2>1. \A l \in 1..Len(c) : c[l].item # s.item
    BY ListItems
  <2> QED
    BY <1>1, <1>2, <2>1 DEF Distinct
<1> QED
  BY <1>1, <1>3, <1>4 DEF a

\* A list without repetition has as many entries as items.
LEMMA ListCount ==
    ASSUME NEW c \in Seq(Stats), Distinct(c)
    PROVE  Cardinality(ItemsOf(c)) = Len(c)
<1> DEFINE f == [i \in 1..Len(c) |-> c[i].item]
<1>1. f \in [1..Len(c) -> ItemsOf(c)]
  BY ListItems
<1>2. f \in Bijection(1..Len(c), ItemsOf(c))
  <2>1. \A i, j \in 1..Len(c) : f[i] = f[j] => i = j
    BY DEF Distinct
  <2>2. \A x \in ItemsOf(c) : \E i \in 1..Len(c) : f[i] = x
    BY ListItems
  <2> HIDE DEF f
  <2> QED
    BY <1>1, <2>1, <2>2 DEF Bijection, Injection, Surjection, IsInjective
<1>3. ExistsBijection(1..Len(c), ItemsOf(c)) /\ Len(c) \in Nat
  BY <1>2 DEF ExistsBijection
<1> QED
  BY <1>3, FS_CountingElements

-----------------------------------------------------------------------------
(* What moves an item from one place to another. *)

LEMMA PartedTake ==
    ASSUME NEW f, NEW c \in Seq(Stats), NEW o, Parted(f, c, o), c # <<>>
    PROVE  /\ Parted(f, Tail(c), o \cup {Head(c).item})
           /\ Parted(f \cup {Head(c).item}, Tail(c), o)
           /\ Head(c).item \notin o \cup f
BY TailItems DEF Parted

LEMMA PartedQueue ==
    ASSUME NEW f, NEW c \in Seq(Stats), NEW o, Parted(f, c, o),
           NEW s \in Stats, s.item \in f
    PROVE  Parted(f \ {s.item}, Append(c, s), o)
BY AppendItems DEF Parted

LEMMA PartedRecycle ==
    ASSUME NEW f, NEW c \in Seq(Stats), NEW o, Parted(f, c, o), c # <<>>,
           NEW s \in Stats, s.item = Head(c).item
    PROVE  Parted(f, Append(Tail(c), s), o)
<1>1. Parted(f \cup {s.item}, Tail(c), o) /\ s.item \notin f
  BY PartedTake
<1>2. Tail(c) \in Seq(Stats)
  OBVIOUS
<1>3. Parted((f \cup {s.item}) \ {s.item}, Append(Tail(c), s), o)
  BY <1>1, <1>2, PartedQueue
<1>4. (f \cup {s.item}) \ {s.item} = f
  BY <1>1
<1> QED
  BY <1>3, <1>4

LEMMA PartedClear ==
    ASSUME NEW f, NEW c \in Seq(Stats), NEW o, Parted(f, c, o)
    PROVE  /\ Parted(f \cup ItemsOf(c), <<>>, o)
           /\ Parted(f \cup o, c, {})
           /\ \A x : Parted(f \cup (o \cap {x}), c, o \ {x})
<1>1. ItemsOf(<<>>) = {} /\ Distinct(<<>>)
  BY DEF ItemsOf, Distinct
<1> QED
  BY <1>1 DEF Parted

\* In a partition the sizes add up.
LEMMA PartedCount ==
    ASSUME NEW f, NEW c \in Seq(Stats), NEW o, Parted(f, c, o)
    PROVE  Cardinality(f) + Len(c) + Cardinality(o) = Cardinality(Items)
<1>1. IsFiniteSet(f) /\ IsFiniteSet(o) /\ IsFiniteSet(ItemsOf(c))
  BY StatsAssumption, FS_Subset DEF StatsAssumption, Parted
<1>2. Cardinality(ItemsOf(c)) = Len(c)
  BY ListCount DEF Parted
<1>3. /\ IsFiniteSet(f \cup ItemsOf(c))
      /\ Cardinality(f \cup ItemsOf(c)) = Cardinality(f) + Len(c)
  <2>1. Cardinality(f \cap ItemsOf(c)) = 0
    BY FS_EmptySet DEF Parted
  <2>2. Cardinality(f \cup ItemsOf(c))
           = Cardinality(f) + Cardinality(ItemsOf(c)) - Cardinality(f \cap ItemsOf(c))
    BY <1>1, FS_Union
  <2>3. Cardinality(f) \in Nat /\ Cardinality(ItemsOf(c)) \in Nat
    BY <1>1, FS_CardinalityType
  <2>4. IsFiniteSet(f \cup ItemsOf(c))
    BY <1>1, FS_Union
  <2> QED
    BY <1>2, <2>1, <2>2, <2>3, <2>4
<1>4. Cardinality(Items) = Cardinality(f \cup ItemsOf(c)) + Cardinality(o)
  <2>1. (f \cup ItemsOf(c)) \cap o = {}
    BY DEF Parted
  <2>2. Items = (f \cup ItemsOf(c)) \cup o
    BY DEF Parted
  <2>3. Cardinality((f \cup ItemsOf(c)) \cap o) = 0
    BY <2>1, FS_EmptySet
  <2> DEFINE g == f \cup ItemsOf(c)
  <2>4. Cardinality(g \cup o) = Cardinality(g) + Cardinality(o) - Cardinality(g \cap o)
    BY <1>1, <1>3, FS_Union
  <2>5. Cardinality(g) \in Nat /\ Cardinality(o) \in Nat
    BY <1>1, <1>3, FS_CardinalityType
  <2> QED
    BY <2>2, <2>3, <2>4, <2>5
<1>5. Cardinality(f) \in Nat /\ Cardinality(o) \in Nat /\ Len(c) \in Nat
  BY <1>1, FS_CardinalityType
<1> QED
  BY <1>3, <1>4, <1>5

-----------------------------------------------------------------------------
(* The steps that move items, as the proofs below use them. *)

\* What a user gets out of one pass: nothing, or the oldest statistics.
Takes(u) ==
    /\ cached # <<>>
    /\ cached' = Tail(cached)
    /\ outMap' = outMap \cup {Head(cached).item}
    /\ held' = [held EXCEPT ![u] = Head(cached)]
    /\ UNCHANGED <<free, content>>

LEMMA UserTakes ==
    ASSUME NEW u \in Users, GetBlk(u) \/ Retry(u)
    PROVE  /\ UNCHANGED <<control, kept>>
           /\ UNCHANGED <<store, held>> \/ Takes(u)
           /\ \E st \in {"idle", "locked"} : upc' = [upc EXCEPT ![u] = st]
           /\ timed' = timed \/ \E t \in BOOLEAN : timed' = [timed EXCEPT ![u] = t]
BY DEF GetBlk, Retry, TryTake, Takes

\* The item that cacheIspStatsToList fills, and where it comes from.
CacheStep(s) ==
    /\ s \in Stats /\ s.frame = frame /\ core = "cache"
    /\ \/ s.item \in free /\ free' = free \ {s.item} /\ cached' = Append(cached, s)
       \/ /\ cached # <<>> /\ s.item = Head(cached).item
          /\ free' = free /\ cached' = Append(Tail(cached), s)
    /\ content' = [content EXCEPT ![s.item] = frame]
    /\ UNCHANGED <<frame, outMap, held, kept>>

LEMMA CoreCaches ==
    ASSUME TypeOK, Begun, CacheFree \/ CacheRecycled
    PROVE  \E s \in Stats : CacheStep(s)
<1>1. core = "cache" /\ frame \in 1..MaxFrame
  BY DEF CacheFree, CacheRecycled, Begun, TypeOK
<1>2. CASE CacheFree
  <2>1. PICK i \in free : free' = free \ {i} /\ Queue(i, cached)
    BY <1>2 DEF CacheFree
  <2>2. [item |-> i, frame |-> frame] \in Stats
    BY <1>1 DEF TypeOK, Stats
  <2> QED
    BY <1>1, <1>2, <2>1, <2>2 DEF CacheFree, Queue, CacheStep
<1>3. CASE CacheRecycled
  <2>1. Head(cached) \in Stats
    BY <1>3, TailItems DEF CacheRecycled, TypeOK
  <2>2. [item |-> Head(cached).item, frame |-> frame] \in Stats
    BY <1>1, <2>1 DEF Stats
  <2> QED
    BY <1>1, <1>3, <2>2 DEF CacheRecycled, Queue, CacheStep
<1> QED
  BY <1>2, <1>3

-----------------------------------------------------------------------------
(* Every item stays in exactly one place.                                  *)
LEMMA PartitionInvariant == Spec => [](TypeOK /\ Begun /\ Partition)
<1> USE StatsAssumption DEF StatsAssumption
<1> DEFINE Inv == TypeOK /\ Begun /\ Partition
<1>1. Init => Inv
  <2> SUFFICES ASSUME Init PROVE Inv
    OBVIOUS
  <2>1. TypeOK
    <3>1. frame \in 0..MaxFrame
      BY DEF Init
    <3>2. content \in [Items -> 0..MaxFrame] /\ cached \in Seq(Stats)
      BY DEF Init
    <3> QED
      BY <3>1, <3>2 DEF Init, TypeOK
  <2>2. Begun
    BY DEF Init, Begun
  <2>3. Partition
    BY DEF Init, Partition, Parted, ItemsOf, Distinct
  <2> QED
    BY <2>1, <2>2, <2>3
<1>2. Inv /\ [Next]_vars => Inv'
  <2> SUFFICES ASSUME TypeOK, Begun, Partition, [Next]_vars PROVE Inv'
    OBVIOUS
  <2> USE DEF control, store, users
  <2>1. Wake(upc) \in [Users -> {"idle", "locked", "wait", "woken", "expired"}]
    BY DEF Wake, TypeOK
  <2>2. CASE StartThread
    BY <2>2 DEF StartThread, TypeOK, Begun, Partition
  <2>3. CASE SetStarted \/ StopThread \/ SetStoped \/ Prepare
    BY <2>3 DEF SetStarted, StopThread, SetStoped, Prepare, TypeOK, Begun,
                Partition
  <2>4. CASE ClearCached
    <3>1. Parted(free \cup ItemsOf(cached), <<>>, outMap)
      BY PartedClear DEF TypeOK, Partition
    <3>2. TypeOK'
      BY <2>4, ListTyped DEF ClearCached, TypeOK
    <3> QED
      BY <2>4, <3>1, <3>2 DEF ClearCached, Partition, Begun
  <2>5. CASE ClearOutMap
    <3>1. Parted(free \cup outMap, cached, {})
      BY PartedClear DEF TypeOK, Partition
    <3>2. TypeOK'
      BY <2>5 DEF ClearOutMap, TypeOK
    <3> QED
      BY <2>5, <3>1, <3>2 DEF ClearOutMap, Partition, Begun
  <2>6. CASE WakeAll
    BY <2>1, <2>6 DEF WakeAll, TypeOK, Begun, Partition
  <2>7. CASE TakeStats
    <3>1. (frame % MaxFrame) + 1 \in 1..MaxFrame
      BY DEF TypeOK
    <3> QED
      BY <2>7, <3>1 DEF TakeStats, TypeOK, Begun, Partition
  <2>8. CASE CacheFree \/ CacheRecycled
    <3>1. PICK s \in Stats : CacheStep(s)
      BY <2>8, CoreCaches
    <3>2. Partition'
      <4>1. CASE s.item \in free /\ free' = free \ {s.item}
                 /\ cached' = Append(cached, s)
        BY <3>1, <4>1, PartedQueue DEF CacheStep, Partition, TypeOK
      <4>2. CASE cached # <<>> /\ s.item = Head(cached).item
                 /\ free' = free /\ cached' = Append(Tail(cached), s)
        BY <3>1, <4>2, PartedRecycle DEF CacheStep, Partition, TypeOK
      <4> QED
        BY <3>1, <4>1, <4>2 DEF CacheStep
    <3>3. cached' \in Seq(Stats)
      <4>1. cached \in Seq(Stats)
        BY DEF TypeOK
      <4>2. CASE cached' = Append(cached, s)
        BY <4>1, <4>2
      <4>3. CASE cached # <<>> /\ cached' = Append(Tail(cached), s)
        <5>1. Tail(cached) \in Seq(Stats)
          BY <4>1, <4>3
        <5> QED
          BY <4>3, <5>1
      <4> QED
        BY <3>1, <4>2, <4>3 DEF CacheStep
    <3>4. content' \in [Items -> 0..MaxFrame]
      BY <3>1 DEF CacheStep, TypeOK
    <3>5. TypeOK'
      BY <2>1, <2>8, <3>3, <3>4 DEF CacheFree, CacheRecycled, Queue, TypeOK
    <3>6. Begun'
      BY <2>8 DEF CacheFree, CacheRecycled, Begun, TypeOK
    <3> QED
      BY <3>2, <3>5, <3>6
  <2>9. CASE CacheNothing
    BY <2>9 DEF CacheNothing, TypeOK, Begun, Partition
  <2>10. ASSUME NEW u \in Users, GetBlk(u) \/ Retry(u) PROVE Inv'
    <3>1. /\ UNCHANGED <<control, kept>>
          /\ upc' \in [Users -> {"idle", "locked", "wait", "woken", "expired"}]
          /\ timed' \in [Users -> BOOLEAN]
      BY <2>10, UserTakes DEF TypeOK
    <3>2. CASE UNCHANGED <<store, held>>
      BY <3>1, <3>2 DEF TypeOK, Begun, Partition
    <3>3. CASE Takes(u)
      <4>1. Partition'
        BY <3>3, PartedTake DEF Takes, Partition, TypeOK
      <4>2. Head(cached) \in Stats /\ Tail(cached) \in Seq(Stats)
        BY <3>3, TailItems DEF Takes, TypeOK
      <4>3. TypeOK'
        BY <3>1, <3>3, <4>2 DEF Takes, TypeOK, Stats
      <4>4. Begun'
        BY <3>1, <3>3 DEF Takes, Begun
      <4> QED
        BY <4>1, <4>3, <4>4
    <3> QED
      BY <2>10, <3>2, <3>3, UserTakes
  <2>11. ASSUME NEW u \in Users, Wait(u) \/ Timeout(u) PROVE Inv'
    BY <2>11 DEF Wait, Timeout, TypeOK, Begun, Partition
  <2>12. ASSUME NEW u \in Users, Release(u) PROVE Inv'
    <3>1. Parted(free \cup (outMap \cap {held[u].item}), cached,
                 outMap \ {held[u].item})
      BY PartedClear DEF TypeOK, Partition
    <3>2. TypeOK'
      BY <2>12 DEF Release, TypeOK
    <3> QED
      BY <2>12, <3>1, <3>2 DEF Release, Partition, Begun
  <2>15. ASSUME NEW u \in Users, Get(u) PROVE Inv'
    <3>1. /\ cached # <<>> /\ cached' = Tail(cached) /\ outMap' = outMap
          /\ free' = free \cup {Head(cached).item}
      BY <2>15 DEF Get
    <3>2. Partition'
      BY <3>1, PartedTake DEF Partition, TypeOK
    <3>3. Head(cached).item \in Items /\ Tail(cached) \in Seq(Stats)
      BY <3>1, TailItems DEF TypeOK, Stats
    <3> QED
      BY <2>15, <3>1, <3>2, <3>3 DEF Get, TypeOK, Begun
  <2>14. CASE UNCHANGED vars
    BY <2>14 DEF vars, TypeOK, Begun, Partition
  <2> QED
    BY <2>2, <2>3, <2>4, <2>5, <2>6, <2>7, <2>8, <2>9, <2>10, <2>11, <2>12,
       <2>15, <2>14 DEF Next, Control, Stop, Core, User
<1>3. QED
  BY <1>1, <1>2, PTL DEF Spec

\* The pool, the list, the map and the references of RkAiqCore stay well typed:
\* in particular a reference is always to statistics of a frame.
THEOREM TypeCorrect == Spec => []TypeOK
BY PartitionInvariant, PTL

\* For any pool and any number of users, items are neither lost nor handed out
\* twice, whatever mix of recycling, releases, copies and restarts.
THEOREM ItemsConservedAlways == Spec => []ItemsConserved
<1>1. TypeOK /\ Partition => ItemsConserved
  <2> SUFFICES ASSUME TypeOK, Partition PROVE ItemsConserved
    OBVIOUS
  <2>1. cached \in Seq(Stats) /\ Parted(free, cached, outMap)
    BY DEF TypeOK, Partition
  <2>2. free \cup ItemsOf(cached) \cup outMap = Items
    BY <2>1 DEF Parted
  <2>3. Cardinality(free) + Len(cached) + Cardinality(outMap) = Cardinality(Items)
    BY <2>1, PartedCount
  <2> QED
    BY <2>2, <2>3 DEF ItemsConserved
<1> QED
  BY <1>1, PartitionInvariant, PTL

-----------------------------------------------------------------------------
(* References. *)

LEMMA OwnedInvariant == Spec => [](Labelled /\ Owned)
<1> DEFINE Inv == TypeOK /\ Begun /\ Partition
           Own == Labelled /\ Owned
<1>1. Init => Own
  BY DEF Init, Labelled, Owned
<1>2. Inv /\ Own /\ [Next]_vars => Own'
  <2> SUFFICES ASSUME TypeOK, Begun, Partition, Labelled, Owned, [Next]_vars
               PROVE  Labelled' /\ Owned'
    OBVIOUS
  <2> USE DEF control, store, users
  <2>1. cached \in Seq(Stats) /\ Parted(free, cached, outMap)
    BY DEF TypeOK, Partition
  <2>2. CASE UNCHANGED <<content, cached, outMap, held, kept>>
    BY <2>2 DEF Labelled, Owned
  <2>3. CASE StartThread \/ SetStarted \/ StopThread \/ SetStoped \/ Prepare
    BY <2>2, <2>3 DEF StartThread, SetStarted, StopThread, SetStoped, Prepare
  <2>4. CASE ClearCached
    BY <2>4 DEF ClearCached, Labelled, Owned
  <2>5. CASE ClearOutMap
    BY <2>5 DEF ClearOutMap, Labelled, Owned
  <2>6. CASE WakeAll \/ TakeStats \/ CacheNothing
    BY <2>2, <2>6 DEF WakeAll, TakeStats, CacheNothing
  <2>7. CASE CacheFree \/ CacheRecycled
    <3>1. PICK s \in Stats : CacheStep(s)
      BY <2>7, CoreCaches
    <3>2. s.item \notin outMap /\ s.item \in Items
      <4>1. cached # <<>> => Head(cached).item \notin outMap
        BY <2>1, PartedTake
      <4> QED
        BY <2>1, <3>1, <4>1 DEF CacheStep, Parted, Stats
    <3>3. Owned'
      <4>1. \A i \in Items \ {s.item} : content'[i] = content[i]
        BY <3>1 DEF CacheStep, TypeOK
      <4>2. outMap' = outMap /\ held' = held /\ kept' = kept /\ outMap \subseteq Items
        BY <3>1 DEF CacheStep, TypeOK
      <4> QED
        BY <3>2, <4>1, <4>2 DEF Owned
    <3>4. PICK c \in Seq(Stats) :
             /\ cached' = Append(c, s) /\ s.item \notin ItemsOf(c)
             /\ \A i \in 1..Len(c) : content[c[i].item] = c[i].frame
      <4>1. CASE s.item \in free /\ cached' = Append(cached, s)
        BY <2>1, <4>1 DEF Parted, Labelled
      <4>2. CASE cached # <<>> /\ s.item = Head(cached).item
                 /\ cached' = Append(Tail(cached), s)
        <5>1. Tail(cached) \in Seq(Stats) /\ s.item \notin ItemsOf(Tail(cached))
          BY <2>1, <4>2, TailItems DEF Parted
        <5>2. \A i \in 1..Len(Tail(cached)) :
                 content[Tail(cached)[i].item] = Tail(cached)[i].frame
          BY <2>1, <4>2, HeadTailProperties DEF Labelled
        <5> QED
          BY <4>2, <5>1, <5>2
      <4> QED
        BY <3>1, <4>1, <4>2 DEF CacheStep
    <3>5. Labelled'
      <4>1. /\ s.frame = frame /\ content \in [Items -> 0..MaxFrame]
            /\ content' = [content EXCEPT ![s.item] = frame]
        BY <3>1 DEF CacheStep, TypeOK
      <4>2. ASSUME NEW i \in 1..Len(c) PROVE content'[c[i].item] = c[i].frame
        <5>1. c[i].item # s.item /\ c[i].item \in Items
          BY <3>4, ListItems, ListTyped
        <5> QED
          BY <3>4, <4>1, <5>1
      <4>3. content'[s.item] = s.frame
        BY <3>2, <4>1
      <4>4. \A i \in 1..Len(cached') :
               \/ i \in 1..Len(c) /\ cached'[i] = c[i]
               \/ cached'[i] = s
        BY <3>4
      <4> QED
        BY <4>2, <4>3, <4>4 DEF Labelled
    <3> QED
      BY <3>3, <3>5
  <2>8. ASSUME NEW u \in Users, GetBlk(u) \/ Retry(u) PROVE Labelled' /\ Owned'
    <3>1. CASE UNCHANGED <<store, held>>
      BY <2>2, <2>8, <3>1, UserTakes
    <3>2. CASE Takes(u)
      <4>1. /\ Head(cached).item \notin outMap
            /\ content[Head(cached).item] = Head(cached).frame
        <5>1. cached # <<>> /\ 1 \in 1..Len(cached) /\ Head(cached) = cached[1]
          BY <2>1, <3>2 DEF Takes
        <5> QED
          BY <2>1, <5>1, PartedTake DEF Labelled
      <4>2. Labelled'
        BY <2>1, <3>2, HeadTailProperties DEF Takes, Labelled
      <4>3. Owned'
        <5> SUFFICES ASSUME ~kept' PROVE Owned'
          BY DEF Owned
        <5>1. ~kept
          BY <2>8, UserTakes
        <5>2. /\ outMap' = outMap \cup {Head(cached).item} /\ content' = content
              /\ \A v \in Users \ {u} : held'[v] = held[v]
              /\ held'[u].item = Head(cached).item
              /\ held'[u].frame = Head(cached).frame
          BY <3>2 DEF Takes, TypeOK
        <5>3. \A v \in Users : held[v] # NoRef =>
                 /\ content[held[v].item] = held[v].frame
                 /\ held[v].item \in outMap
                 /\ \A w \in Users \ {v} :
                       held[w] # NoRef => held[w].item # held[v].item
          BY <5>1 DEF Owned
        <5>4. ASSUME NEW v \in Users, held'[v] # NoRef
              PROVE  /\ content'[held'[v].item] = held'[v].frame
                     /\ held'[v].item \in outMap'
                     /\ \A w \in Users \ {v} :
                           held'[w] # NoRef => held'[w].item # held'[v].item
          <6>1. CASE v = u
            BY <4>1, <5>2, <5>3, <6>1
          <6>2. CASE v # u
            BY <4>1, <5>2, <5>3, <5>4, <6>2
          <6> QED
            BY <6>1, <6>2
        <5> QED
          BY <5>4 DEF Owned
      <4> QED
        BY <4>2, <4>3
    <3> QED
      BY <2>8, <3>1, <3>2, UserTakes
  <2>9. ASSUME NEW u \in Users, Wait(u) \/ Timeout(u) PROVE Labelled' /\ Owned'
    BY <2>2, <2>9 DEF Wait, Timeout
  <2>10. ASSUME NEW u \in Users, Release(u) PROVE Labelled' /\ Owned'
    <3>1. Labelled'
      BY <2>10 DEF Release, Labelled
    <3>2. Owned'
      BY <2>10 DEF Release, Owned, TypeOK
    <3> QED
      BY <3>1, <3>2
  <2>11. ASSUME NEW u \in Users, Get(u) PROVE Labelled' /\ Owned'
    <3>1. Labelled'
      BY <2>1, <2>11, HeadTailProperties DEF Get, Labelled
    <3>2. Owned'
      BY <2>11 DEF Get, Owned
    <3> QED
      BY <3>1, <3>2
  <2> QED
    BY <2>2, <2>3, <2>4, <2>5, <2>6, <2>7, <2>8, <2>9, <2>10, <2>11
       DEF Next, Control, Stop, Core, User, vars
<1>3. QED
  BY <1>1, <1>2, PartitionInvariant, PTL DEF Spec

\* What a user holds a reference to is neither overwritten nor dropped from the
\* map under it, for any pool and users, as long as no stop() emptied the map.
THEOREM RefStableAlways == Spec => []RefStable
<1>1. Owned => RefStable
  BY DEF Owned, RefStable
<1> QED
  BY <1>1, OwnedInvariant, PTL
=============================================================================
