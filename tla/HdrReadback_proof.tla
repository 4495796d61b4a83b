------------------------- MODULE HdrReadback_proof --------------------------
(***************************************************************************)
(* Proofs about HdrReadback for any number of devices, any buffers and any *)
(* bounds.                                                                 *)
(***************************************************************************)
EXTENDS HdrReadback, SetLemmas, SequenceTheorems, TLAPS

\* Only one thread is inside sync_tx_buf.
OneInside ==
    \A t, u \in Devs :
        txpc[t] \in {"mark", "trigger"} /\ txpc[u] \in {"mark", "trigger"} => t = u

Below(s, n) == \A i \in 1..Len(s) : s[i].seq <= n
Before(s, t) == \A i \in 1..Len(s), j \in 1..Len(t) : s[i].seq < t[j].seq

\* The frames of a device in cache c, list t and buffers l, n being captured.
Streamed(c, t, l, n) ==
    /\ Rising(c) /\ Rising(t) /\ Rising(l)
    /\ Before(c, t) /\ Before(c, l) /\ Before(t, l)
    /\ Below(c, n) /\ Below(t, n) /\ Below(l, n)

Ordered == \A d \in Devs : Streamed(cache[d], txlist[d], filled[d], captured[d])

Has(s, f) == \E i \in 1..Len(s) : s[i].seq = f

\* Every device has what is ready, and what is being marked as its newest.
Cached ==
    /\ \A d \in Devs, f \in ready : Has(cache[d], f)
    /\ \A t, d \in Devs : txpc[t] = "mark" =>
          cache[d] # <<>> /\ Last(cache[d]).seq = Marking(t)

\* Nothing else is cached unless an rx device had no index.
Matched ==
    ~missed => \A d \in Devs : \A i \in 1..Len(cache[d]) : cache[d][i].seq \in Marked

\* What is triggered is queued.
Fed == \A d \in Devs : Len(isp) <= Len(rxq[d])

\* The buffers of s are in l, not earlier than k places later.
Kept(s, l, k) == \A i \in 1..Len(s) : \E j \in 1..Len(l) : i + k <= j /\ l[j].buf = s[i].buf

\* Each buffer on its way through an rx device is in buf_list, where the pops
\* for the buffers before it do not reach it.
Covered ==
    ~unqueued => \A d \in Devs : /\ Kept(rxdone[d], rxlist[d], 0)
                                 /\ Kept(rxq[d], rxlist[d], Len(rxdone[d]))

\* Frames skipped since the mirror/flip call; if none is older than the call
\* they are the first of the window.
Skips == skip.to - skip.from - skip.num
Window ==
    /\ skip.from <= skip.to
    /\ 0 <= Skips
    /\ skip.to - skip.from <= MaxFlip
    /\ skip.old <= Skips
    /\ skip.old = 0 => \A d \in Devs :
          /\ Skips = 0 \/ skip.from + Skips <= captured[d] + 1
          /\ \A i \in 1..Len(txlist[d]) :
                skip.from <= txlist[d][i].seq => skip.from + Skips <= txlist[d][i].seq
          /\ \A i \in 1..Len(filled[d]) :
                skip.from <= filled[d][i].seq => skip.from + Skips <= filled[d][i].seq

\* Frames made ready, read or dropped are older than those to come.
Past ==
    \A f \in Frames : fate[f] # "none" \/ f \in ready =>
        /\ \A d \in Devs :
              /\ f <= captured[d]
              /\ \A i \in 1..Len(txlist[d]) : f < txlist[d][i].seq
              /\ \A i \in 1..Len(filled[d]) : f < filled[d][i].seq
        /\ \A t \in Devs : txpc[t] = "mark" => f < Marking(t)
Undecided == \A f \in ready : fate[f] = "none"

Inv ==
    /\ TypeOK
    /\ OneInside
    /\ Ordered
    /\ Cached
    /\ Matched
    /\ Fed
    /\ SameExposure
    /\ Covered
    /\ Window
    /\ Past
    /\ Undecided

-----------------------------------------------------------------------------
(* The lists. *)

Buffers == Seq(TxBuf)

LEMMA HeadFacts ==
    ASSUME NEW T, NEW s \in Seq(T), s # <<>>
    PROVE  /\ Head(s) \in T /\ Tail(s) \in Seq(T) /\ Head(s) = s[1]
           /\ Len(s) \in Nat \ {0} /\ Len(Tail(s)) = Len(s) - 1
           /\ \A i \in 1..Len(Tail(s)) : Tail(s)[i] = s[i + 1] /\ i + 1 \in 1..Len(s)
           /\ \A i \in 1..Len(s) : i = 1 \/ i - 1 \in 1..Len(Tail(s))
BY HeadTailProperties

LEMMA AppendFacts ==
    ASSUME NEW T, NEW s \in Seq(T), NEW e \in T
    PROVE  /\ Append(s, e) \in Seq(T) /\ Len(Append(s, e)) = Len(s) + 1
           /\ Append(s, e) # <<>> /\ Last(Append(s, e)) = e
           /\ \A i \in 1..Len(s) : Append(s, e)[i] = s[i] /\ i \in 1..Len(Append(s, e))
           /\ Append(s, e)[Len(s) + 1] = e /\ Len(s) + 1 \in 1..Len(Append(s, e))
           /\ \A i \in 1..Len(Append(s, e)) : i \in 1..Len(s) \/ i = Len(s) + 1
BY AppendProperties DEF Last

LEMMA SeqTyped ==
    ASSUME NEW s \in Buffers, NEW i \in 1..Len(s)
    PROVE  s[i] \in TxBuf /\ s[i].seq \in Nat /\ s[i].seq \in Frames /\ s[i].buf \in Bufs
<1>1. s[i] \in TxBuf
  BY DEF Buffers
<1> QED
  BY <1>1, HdrAssumption DEF TxBuf, Frames

LEMMA TailOrder ==
    ASSUME NEW s \in Buffers, s # <<>>
    PROVE  /\ Rising(s) => /\ Rising(Tail(s))
                           /\ \A i \in 1..Len(Tail(s)) : Head(s).seq < Tail(s)[i].seq
           /\ \A x \in Buffers : Before(x, s) => Before(x, Tail(s))
           /\ \A x \in Buffers : Before(s, x) =>
                 /\ Before(Tail(s), x)
                 /\ \A i \in 1..Len(x) : Head(s).seq < x[i].seq
           /\ \A n \in Nat : Below(s, n) => Below(Tail(s), n) /\ Head(s).seq <= n
<1> DEFINE k == Tail(s)
<1>1. /\ \A i \in 1..Len(k) : k[i] = s[i + 1] /\ i + 1 \in 1..Len(s)
      /\ 1 \in 1..Len(s) /\ Head(s) = s[1]
      /\ DOMAIN k = 1..Len(k) /\ DOMAIN s = 1..Len(s)
      /\ Len(k) \in Nat
  BY HeadFacts DEF Buffers
<1> HIDE DEF k
<1>2. ASSUME Rising(s)
      PROVE  Rising(k) /\ \A i \in 1..Len(k) : s[1].seq < k[i].seq
  <2>1. ASSUME NEW i \in 1..Len(k), NEW j \in 1..Len(k), i < j
        PROVE  k[i].seq < k[j].seq
    <3>1. i + 1 \in 1..Len(s) /\ j + 1 \in 1..Len(s) /\ i + 1 < j + 1
      BY <1>1, <2>1
    <3> QED
      BY <1>1, <1>2, <3>1 DEF Rising
  <2>2. ASSUME NEW i \in 1..Len(k) PROVE s[1].seq < k[i].seq
    <3>1. i + 1 \in 1..Len(s) /\ 1 < i + 1
      BY <1>1
    <3> QED
      BY <1>1, <1>2, <3>1 DEF Rising
  <2> QED
    BY <1>1, <2>1, <2>2 DEF Rising
<1>3. \A x \in Buffers : Before(x, s) => Before(x, k)
  BY <1>1 DEF Before
<1>4. \A x \in Buffers : Before(s, x) =>
          Before(k, x) /\ \A i \in 1..Len(x) : s[1].seq < x[i].seq
  BY <1>1 DEF Before
<1>5. \A n \in Nat : Below(s, n) => Below(k, n) /\ s[1].seq <= n
  BY <1>1 DEF Below
<1> QED
  BY <1>1, <1>2, <1>3, <1>4, <1>5 DEF k

LEMMA AppendOrder ==
    ASSUME NEW s \in Buffers, NEW b \in TxBuf
    PROVE  /\ Rising(s) /\ (\A i \in 1..Len(s) : s[i].seq < b.seq) => Rising(Append(s, b))
           /\ \A x \in Buffers :
                 Before(s, x) /\ (\A i \in 1..Len(x) : b.seq < x[i].seq) =>
                     Before(Append(s, b), x)
           /\ \A x \in Buffers :
                 Before(x, s) /\ (\A i \in 1..Len(x) : x[i].seq < b.seq) =>
                     Before(x, Append(s, b))
           /\ \A n \in Nat : Below(s, n) /\ b.seq <= n => Below(Append(s, b), n)
<1> DEFINE k == Append(s, b)
<1>1. /\ k[Len(s) + 1] = b
      /\ \A i \in 1..Len(s) : k[i] = s[i]
      /\ \A i \in 1..Len(k) : i \in 1..Len(s) \/ i = Len(s) + 1
      /\ DOMAIN k = 1..Len(k) /\ DOMAIN s = 1..Len(s) /\ Len(s) \in Nat
      /\ Len(k) = Len(s) + 1
  BY AppendFacts DEF Buffers
<1> HIDE DEF k
<1>2. ASSUME Rising(s), \A i \in 1..Len(s) : s[i].seq < b.seq PROVE Rising(k)
  <2> SUFFICES ASSUME NEW i \in 1..Len(k), NEW j \in 1..Len(k), i < j
               PROVE  k[i].seq < k[j].seq
    BY <1>1 DEF Rising
  <2>1. i \in 1..Len(s)
    BY <1>1
  <2>2. CASE j \in 1..Len(s)
    BY <1>1, <1>2, <2>1, <2>2 DEF Rising
  <2>3. CASE j = Len(s) + 1
    BY <1>1, <1>2, <2>1, <2>3
  <2> QED
    BY <1>1, <2>2, <2>3
<1>3. \A x \in Buffers : Before(s, x) /\ (\A i \in 1..Len(x) : b.seq < x[i].seq) => Before(k, x)
  BY <1>1 DEF Before
<1>4. \A x \in Buffers : Before(x, s) /\ (\A i \in 1..Len(x) : x[i].seq < b.seq) => Before(x, k)
  BY <1>1 DEF Before
<1>5. \A n \in Nat : Below(s, n) /\ b.seq <= n => Below(k, n)
  BY <1>1 DEF Below
<1> QED
  BY <1>2, <1>3, <1>4, <1>5 DEF k

\* A frame is lost for want of a buffer.
LEMMA StreamLost ==
    ASSUME NEW c \in Buffers, NEW t \in Buffers, NEW l \in Buffers, NEW n \in Nat,
           Streamed(c, t, l, n)
    PROVE  Streamed(c, t, l, n + 1)
<1>1. ASSUME NEW s \in Buffers, Below(s, n) PROVE Below(s, n + 1)
  <2>1. ASSUME NEW i \in 1..Len(s) PROVE s[i].seq \in Nat /\ s[i].seq <= n
    BY <1>1, SeqTyped DEF Below
  <2> QED
    BY <2>1 DEF Below
<1> QED
  BY <1>1 DEF Streamed

\* A frame is captured.
LEMMA StreamCapture ==
    ASSUME NEW c \in Buffers, NEW t \in Buffers, NEW l \in Buffers, NEW n \in Nat,
           Streamed(c, t, l, n), NEW b \in TxBuf, b.seq = n + 1
    PROVE  Streamed(c, t, Append(l, b), n + 1)
<1>1. ASSUME NEW s \in Buffers, Below(s, n)
      PROVE  \A i \in 1..Len(s) : s[i].seq < n + 1
  <2>1. ASSUME NEW i \in 1..Len(s) PROVE s[i].seq \in Nat /\ s[i].seq <= n
    BY <1>1, SeqTyped DEF Below
  <2> QED
    BY <2>1
<1>2. n + 1 \in Nat /\ b.seq <= n + 1
  OBVIOUS
<1>3. /\ Below(c, n) /\ Below(t, n) /\ Below(l, n)
      /\ Before(c, l) /\ Before(t, l) /\ Rising(l)
  BY DEF Streamed
<1>4. Below(Append(l, b), n + 1) /\ Rising(Append(l, b))
  <2>1. Streamed(c, t, l, n + 1)
    BY StreamLost
  <2>2. Below(l, n + 1)
    BY <2>1 DEF Streamed
  <2> QED
    BY <1>1, <1>2, <1>3, <2>2, AppendOrder
<1>5. Before(c, Append(l, b)) /\ Before(t, Append(l, b))
  BY <1>1, <1>2, <1>3, AppendOrder
<1>6. Streamed(c, t, l, n + 1)
  BY StreamLost
<1> QED
  BY <1>4, <1>5, <1>6 DEF Streamed

\* The oldest buffer of the driver is put in the list.
LEMMA StreamPush ==
    ASSUME NEW c \in Buffers, NEW t \in Buffers, NEW l \in Buffers, NEW n \in Nat,
           Streamed(c, t, l, n), l # <<>>
    PROVE  Streamed(c, Append(t, Head(l)), Tail(l), n)
<1>1. Head(l) \in TxBuf /\ Tail(l) \in Buffers /\ Head(l) = l[1] /\ 1 \in 1..Len(l)
  BY HeadFacts DEF Buffers
<1>2. /\ Below(c, n) /\ Below(t, n) /\ Below(l, n)
      /\ Before(c, t) /\ Before(c, l) /\ Before(t, l)
      /\ Rising(c) /\ Rising(t) /\ Rising(l)
  BY DEF Streamed
<1>3. /\ Rising(Tail(l)) /\ Before(c, Tail(l)) /\ Before(t, Tail(l))
      /\ Below(Tail(l), n) /\ Head(l).seq <= n
      /\ \A i \in 1..Len(Tail(l)) : Head(l).seq < Tail(l)[i].seq
  BY <1>2, TailOrder
<1>4. /\ \A i \in 1..Len(t) : t[i].seq < Head(l).seq
      /\ \A i \in 1..Len(c) : c[i].seq < Head(l).seq
  BY <1>1, <1>2 DEF Before
<1>5. /\ Rising(Append(t, Head(l))) /\ Before(c, Append(t, Head(l)))
      /\ Below(Append(t, Head(l)), n) /\ Before(Append(t, Head(l)), Tail(l))
  BY <1>1, <1>2, <1>3, <1>4, AppendOrder
<1> QED
  BY <1>2, <1>3, <1>5 DEF Streamed

\* The oldest of the list is taken off it, and perhaps cached.
LEMMA StreamMatch ==
    ASSUME NEW c \in Buffers, NEW t \in Buffers, NEW l \in Buffers, NEW n \in Nat,
           Streamed(c, t, l, n), t # <<>>
    PROVE  /\ Streamed(c, Tail(t), l, n)
           /\ Streamed(Append(c, Head(t)), Tail(t), l, n)
<1>1. Head(t) \in TxBuf /\ Tail(t) \in Buffers /\ Head(t) = t[1] /\ 1 \in 1..Len(t)
  BY HeadFacts DEF Buffers
<1>2. /\ Below(c, n) /\ Below(t, n) /\ Below(l, n)
      /\ Before(c, t) /\ Before(c, l) /\ Before(t, l)
      /\ Rising(c) /\ Rising(t) /\ Rising(l)
  BY DEF Streamed
<1>3. /\ Rising(Tail(t)) /\ Before(c, Tail(t)) /\ Before(Tail(t), l)
      /\ Below(Tail(t), n) /\ Head(t).seq <= n
      /\ \A i \in 1..Len(Tail(t)) : Head(t).seq < Tail(t)[i].seq
      /\ \A i \in 1..Len(l) : Head(t).seq < l[i].seq
  BY <1>2, TailOrder
<1>4. \A i \in 1..Len(c) : c[i].seq < Head(t).seq
  BY <1>1, <1>2 DEF Before
<1>5. /\ Rising(Append(c, Head(t))) /\ Before(Append(c, Head(t)), l)
      /\ Below(Append(c, Head(t)), n) /\ Before(Append(c, Head(t)), Tail(t))
  BY <1>1, <1>2, <1>3, <1>4, AppendOrder
<1> QED
  BY <1>2, <1>3, <1>5 DEF Streamed

\* The oldest is taken from the cache.
LEMMA StreamPop ==
    ASSUME NEW c \in Buffers, NEW t \in Buffers, NEW l \in Buffers, NEW n \in Nat,
           Streamed(c, t, l, n), c # <<>>
    PROVE  Streamed(Tail(c), t, l, n)
BY TailOrder DEF Streamed

-----------------------------------------------------------------------------
(* trigger_readback. *)

\* What it takes: the lowest ready frame, with a cached buffer on each device.
LEMMA LowestReady ==
    ASSUME TypeOK, Ordered, Cached, ready # {}
    PROVE  /\ Min(ready) \in ready /\ Min(ready) \in Frames
           /\ \A g \in ready : Min(ready) <= g
           /\ \A d \in Devs : cache[d] # <<>> /\ Head(cache[d]).seq <= Min(ready)
<1>1. ready \subseteq Int /\ IsFiniteSet(ready)
  <2>1. ready \subseteq 1..MaxSeq /\ MaxSeq \in Int
    BY HdrAssumption DEF TypeOK, Frames
  <2>2. IsFiniteSet(1..MaxSeq) /\ 1..MaxSeq \subseteq Int
    BY <2>1, FS_Interval
  <2>3. IsFiniteSet(ready)
    BY <2>1, <2>2, FS_Subset
  <2> QED
    BY <2>1, <2>2, <2>3
<1>2. Min(ready) \in ready /\ \A g \in ready : Min(ready) <= g
  BY <1>1, MinExists
<1>3. ASSUME NEW d \in Devs
      PROVE  cache[d] # <<>> /\ Head(cache[d]).seq <= Min(ready)
  <2>1. cache[d] \in Buffers /\ Rising(cache[d])
    BY DEF TypeOK, Ordered, Streamed, Buffers
  <2>2. PICK i \in 1..Len(cache[d]) : cache[d][i].seq = Min(ready)
    BY <1>2 DEF Cached, Has
  <2>3. cache[d] # <<>> /\ Head(cache[d]) = cache[d][1] /\ 1 \in 1..Len(cache[d])
    BY <2>1, <2>2, HeadFacts DEF Buffers
  <2>4. cache[d][1].seq \in Nat /\ cache[d][i].seq \in Nat
    BY <2>1, <2>3, SeqTyped
  <2> QED
    BY <2>1, <2>2, <2>3, <2>4 DEF Rising
<1> QED
  BY <1>2, <1>3 DEF TypeOK

\* What it changes, whatever becomes of the frame.
Popped(f) ==
    /\ f \in ready
    /\ \A g \in ready : f <= g
    /\ \A d \in Devs : cache[d] # <<>> /\ Head(cache[d]).seq <= f
    /\ ready' = ready \ {f}
    /\ \E s \in {"read", "dropped"} : fate' = [fate EXCEPT ![f] = s]
    /\ cache' = [d \in Devs |-> cache'[d]]
    /\ \A d \in Devs : cache'[d] \in {cache[d], Tail(cache[d])}
    /\ missed' \in BOOLEAN /\ unqueued' \in BOOLEAN
    /\ missed => missed'
    /\ unqueued => unqueued'
    /\ ~missed' => \A d \in Devs : cache'[d] = Tail(cache[d])
    /\ DropFrame(f) \/ NoRxBuffer(f) \/ QueueFails(f) \/ ReadBack(f)

LEMMA TriggerEffect ==
    ASSUME TypeOK, Ordered, Cached, TriggerReadback
    PROVE  /\ luma' \subseteq luma
           /\ \/ UNCHANGED <<ready, cache, rx, fate, history>>
              \/ \E f \in Frames : Popped(f)
<1>1. luma' \subseteq luma
  BY DEF TriggerReadback, PruneLuma
<1>2. CASE UNCHANGED <<ready, cache, rx, fate, history>>
  BY <1>1, <1>2
<1>3. CASE ~ UNCHANGED <<ready, cache, rx, fate, history>>
  <2> DEFINE f == Min(ready)
  <2>1. /\ ready # {} /\ ready' = ready \ {f}
        /\ DropFrame(f) \/ NoRxBuffer(f) \/ QueueFails(f) \/ ReadBack(f)
    BY <1>3 DEF TriggerReadback
  <2>2. /\ f \in ready /\ f \in Frames /\ \A g \in ready : f <= g
        /\ \A d \in Devs : cache[d] # <<>> /\ Head(cache[d]).seq <= f
    BY <2>1, LowestReady
  <2> HIDE DEF f
  <2>3. missed \in BOOLEAN /\ unqueued \in BOOLEAN
    BY DEF TypeOK
  <2>4. \E m \in SUBSET Devs :
            /\ cache' = [d \in Devs |-> IF d \in m THEN Tail(cache[d]) ELSE cache[d]]
            /\ ~missed' => m = Devs
    <3>1. CASE NoRxBuffer(f)
      <4>1. PICK d \in Devs : MoveToRx(1..(d - 1))
        BY <3>1 DEF NoRxBuffer
      <4>2. 1..(d - 1) \subseteq Devs
        BY HdrAssumption DEF Devs
      <4> QED
        BY <3>1, <4>1, <4>2 DEF MoveToRx, NoRxBuffer
    <3>2. CASE DropFrame(f) \/ QueueFails(f)
      <4>1. cache' = [d \in Devs |-> IF d \in Devs THEN Tail(cache[d]) ELSE cache[d]]
        BY <3>2 DEF DropFrame, QueueFails
      <4> QED
        BY <4>1
    <3>3. CASE ReadBack(f)
      BY <3>3 DEF ReadBack, MoveToRx
    <3> QED
      BY <2>1, <3>1, <3>2, <3>3
  <2>5. /\ cache' = [d \in Devs |-> cache'[d]]
        /\ \A d \in Devs : cache'[d] \in {cache[d], Tail(cache[d])}
        /\ ~missed' => \A d \in Devs : cache'[d] = Tail(cache[d])
    BY <2>4
  <2>6. \E s \in {"read", "dropped"} : fate' = [fate EXCEPT ![f] = s]
    BY <2>1 DEF DropFrame, NoRxBuffer, QueueFails, ReadBack
  <2>7. /\ missed' \in BOOLEAN /\ unqueued' \in BOOLEAN
        /\ missed => missed'
        /\ unqueued => unqueued'
    <3>1. (missed' = missed \/ missed' = TRUE) /\ (unqueued' = unqueued \/ unqueued' = TRUE)
      BY <2>1 DEF DropFrame, NoRxBuffer, QueueFails, ReadBack, history
    <3>2. missed' \in BOOLEAN /\ (missed => missed')
      <4>1. CASE missed' = missed
        BY <2>3, <4>1
      <4>2. CASE missed' = TRUE
        BY <4>2
      <4> QED
        BY <3>1, <4>1, <4>2
    <3>3. unqueued' \in BOOLEAN /\ (unqueued => unqueued')
      <4>1. CASE unqueued' = unqueued
        BY <2>3, <4>1
      <4>2. CASE unqueued' = TRUE
        BY <4>2
      <4> QED
        BY <3>1, <4>1, <4>2
    <3> QED
      BY <3>2, <3>3
  <2>8. Popped(f)
    BY <2>1, <2>2, <2>5, <2>6, <2>7 DEF Popped
  <2> QED
    BY <1>1, <2>2, <2>8
<1> QED
  BY <1>2, <1>3

-----------------------------------------------------------------------------
(* Typing. *)

LEMMA InitTyped == Init => TypeOK
<1> SUFFICES ASSUME Init PROVE TypeOK
  OBVIOUS
<1>1. MaxSeq \in Nat /\ MaxFlip \in Nat
  BY HdrAssumption
<1>2. captured \in [Devs -> 0..MaxSeq] /\ lumaSeq \in 0..MaxSeq
  BY <1>1 DEF Init
<1>3. skip \in [num : 0..MaxFlip, from : 0..MaxSeq, to : 0..MaxSeq + MaxFlip,
                old : 0..MaxFlip]
  BY <1>1 DEF Init, NoSkip
<1>4. /\ filled \in [Devs -> Seq(TxBuf)] /\ txlist \in [Devs -> Seq(TxBuf)]
      /\ cache \in [Devs -> Seq(TxBuf)] /\ rxlist \in [Devs -> Seq(TxBuf)]
      /\ rxq \in [Devs -> Seq(RxBuf)] /\ rxdone \in [Devs -> Seq(RxBuf)]
      /\ isp \in Seq(Frames)
  BY DEF Init, Empty
<1>5. /\ txpc \in [Devs -> {"poll", "sync", "mark", "trigger"}]
      /\ hold \in [Devs -> SUBSET [dev : Devs, seq : Frames, buf : Bufs]]
      /\ queued \in [Devs -> SUBSET Bufs] /\ closing \in [Devs -> SUBSET Bufs]
      /\ fate \in [Frames -> {"none", "read", "dropped"}]
      /\ ready \subseteq Frames /\ luma \subseteq Frames
      /\ lumaPc \in {"wait", "trigger"} /\ missed \in BOOLEAN /\ unqueued \in BOOLEAN
  BY DEF Init
<1> QED
  BY <1>2, <1>3, <1>4, <1>5 DEF TypeOK

\* What trigger_readback moves is of the right kind.
LEMMA PoppedTyped ==
    ASSUME TypeOK, NEW f \in Frames, Popped(f)
    PROVE  /\ cache' \in [Devs -> Seq(TxBuf)] /\ rxlist' \in [Devs -> Seq(TxBuf)]
           /\ rxq' \in [Devs -> Seq(RxBuf)] /\ rxdone' \in [Devs -> Seq(RxBuf)]
           /\ queued' \in [Devs -> SUBSET Bufs] /\ closing' \in [Devs -> SUBSET Bufs]
           /\ isp' \in Seq(Frames) /\ ready' \subseteq Frames
           /\ fate' \in [Frames -> {"none", "read", "dropped"}]
           /\ missed' \in BOOLEAN /\ unqueued' \in BOOLEAN
<1>1. /\ cache \in [Devs -> Seq(TxBuf)] /\ rxlist \in [Devs -> Seq(TxBuf)]
      /\ rxq \in [Devs -> Seq(RxBuf)] /\ rxdone \in [Devs -> Seq(RxBuf)]
      /\ queued \in [Devs -> SUBSET Bufs] /\ closing \in [Devs -> SUBSET Bufs]
      /\ isp \in Seq(Frames) /\ ready \subseteq Frames
      /\ fate \in [Frames -> {"none", "read", "dropped"}]
  BY DEF TypeOK
<1>2. \A d \in Devs : Head(cache[d]) \in TxBuf /\ Tail(cache[d]) \in Seq(TxBuf)
  <2> TAKE d \in Devs
  <2>1. cache[d] \in Seq(TxBuf) /\ cache[d] # <<>>
    BY <1>1 DEF Popped
  <2> QED
    BY <2>1, HeadFacts
<1>3. \A d \in Devs : Append(rxlist[d], Head(cache[d])) \in Seq(TxBuf)
  BY <1>1, <1>2, AppendFacts
<1>4. \A d \in Devs, x \in Bufs :
          Append(rxq[d], [seq |-> Head(cache[d]).seq, buf |-> Head(cache[d]).buf,
                          rx |-> x]) \in Seq(RxBuf)
  <2> TAKE d \in Devs, x \in Bufs
  <2>1. [seq |-> Head(cache[d]).seq, buf |-> Head(cache[d]).buf, rx |-> x] \in RxBuf
    BY <1>2 DEF TxBuf, RxBuf
  <2> QED
    BY <1>1, <2>1, AppendFacts
<1>5. cache' \in [Devs -> Seq(TxBuf)]
  <2>1. \A d \in Devs : cache'[d] \in Seq(TxBuf)
    BY <1>1, <1>2 DEF Popped
  <2> QED
    BY <2>1 DEF Popped
<1>6. fate' \in [Frames -> {"none", "read", "dropped"}]
  <2>1. PICK s \in {"read", "dropped"} : fate' = [fate EXCEPT ![f] = s]
    BY DEF Popped
  <2> QED
    BY <1>1, <2>1
<1>7. ready' \subseteq Frames /\ missed' \in BOOLEAN /\ unqueued' \in BOOLEAN
  BY <1>1 DEF Popped
<1>8. rxdone' = rxdone /\ closing' = closing /\ isp' \in {isp, Append(isp, f)}
  BY DEF Popped, DropFrame, NoRxBuffer, QueueFails, ReadBack, rx
<1>9. Append(isp, f) \in Seq(Frames)
  BY <1>1
<1>10. \A m \in SUBSET Devs : MoveToRx(m) => rxlist' \in [Devs -> Seq(TxBuf)]
  BY <1>1, <1>3 DEF MoveToRx
<1>11. ASSUME NEW m \in SUBSET Devs, NEW x \in [Devs -> Bufs], QueueRx(x, m)
       PROVE  rxq' \in [Devs -> Seq(RxBuf)] /\ queued' \in [Devs -> SUBSET Bufs]
  <2>1. \A d \in Devs : x[d] \in Bufs
    BY <1>11
  <2>2. rxq' \in [Devs -> Seq(RxBuf)]
    BY <1>1, <1>4, <1>11, <2>1 DEF QueueRx
  <2>3. queued' \in [Devs -> SUBSET Bufs]
    BY <1>1, <1>11, <2>1 DEF QueueRx
  <2> QED
    BY <2>2, <2>3
<1>12. /\ rxlist' \in [Devs -> Seq(TxBuf)]
       /\ rxq' \in [Devs -> Seq(RxBuf)] /\ queued' \in [Devs -> SUBSET Bufs]
  <2>1. CASE DropFrame(f)
    BY <1>1, <2>1 DEF DropFrame, rx
  <2>2. CASE NoRxBuffer(f)
    <3>1. PICK d \in Devs : MoveToRx(1..(d - 1))
      BY <2>2 DEF NoRxBuffer
    <3>2. 1..(d - 1) \subseteq Devs
      BY HdrAssumption DEF Devs
    <3> QED
      BY <1>1, <1>10, <2>2, <3>1, <3>2 DEF NoRxBuffer
  <2>3. CASE QueueFails(f)
    <3>1. PICK d \in Devs, x \in [Devs -> Bufs] :
              /\ QueueRx(x, 1..(d - 1))
              /\ rxlist' = [e \in Devs |->
                     LET l == Append(rxlist[e], Head(cache[e]))
                     IN IF e = d THEN Tail(l) ELSE l]
      BY <2>3 DEF QueueFails
    <3>2. 1..(d - 1) \subseteq Devs
      BY HdrAssumption DEF Devs
    <3>3. \A e \in Devs : Tail(Append(rxlist[e], Head(cache[e]))) \in Seq(TxBuf)
      <4> TAKE e \in Devs
      <4>1. /\ Append(rxlist[e], Head(cache[e])) \in Seq(TxBuf)
            /\ Append(rxlist[e], Head(cache[e])) # <<>>
        <5>1. rxlist[e] \in Seq(TxBuf) /\ Head(cache[e]) \in TxBuf
          BY <1>1, <1>2
        <5> QED
          BY <5>1, AppendFacts
      <4> QED
        BY <4>1, HeadFacts
    <3>4. rxlist' \in [Devs -> Seq(TxBuf)]
      BY <1>3, <3>1, <3>3
    <3> QED
      BY <1>11, <3>1, <3>2, <3>4
  <2>4. CASE ReadBack(f)
    <3>1. PICK x \in [Devs -> Bufs] : MoveToRx(Devs) /\ QueueRx(x, Devs)
      BY <2>4 DEF ReadBack
    <3> QED
      BY <1>10, <1>11, <3>1
  <2> QED
    BY <2>1, <2>2, <2>3, <2>4 DEF Popped
<1> QED
  BY <1>1, <1>5, <1>6, <1>7, <1>8, <1>9, <1>12

LEMMA TypedInvariant == Inv /\ [Next]_vars => TypeOK'
<1> SUFFICES ASSUME Inv, [Next]_vars PROVE TypeOK'
  OBVIOUS
<1> USE DEF capture, tx, rx, analysis, history
<1>1. TypeOK /\ Ordered /\ Cached /\ Fed /\ Window
  BY DEF Inv
<1>2. /\ filled \in [Devs -> Seq(TxBuf)] /\ txlist \in [Devs -> Seq(TxBuf)]
      /\ cache \in [Devs -> Seq(TxBuf)] /\ rxlist \in [Devs -> Seq(TxBuf)]
      /\ rxq \in [Devs -> Seq(RxBuf)] /\ rxdone \in [Devs -> Seq(RxBuf)]
  BY <1>1 DEF TypeOK
<1>3. MaxSeq \in Nat /\ MaxFlip \in Nat /\ NDev \in Nat \ {0}
  BY HdrAssumption
<1>4. ASSUME NEW d \in Devs, Capture(d) PROVE TypeOK'
  <2>1. captured' \in [Devs -> 0..MaxSeq] /\ captured'[d] \in Frames
    <3>1. captured[d] + 1 \in 0..MaxSeq /\ captured[d] + 1 \in Frames
      BY <1>1, <1>3, <1>4, SMTT(30) DEF TypeOK, Capture, Frames
    <3> QED
      BY <1>1, <1>4, <3>1 DEF TypeOK, Capture
  <2>2. filled' \in [Devs -> Seq(TxBuf)]
    <3>1. CASE Free(d) = {}
      BY <1>2, <1>4, <3>1 DEF Capture
    <3>2. CASE Free(d) # {}
      <4>1. PICK b \in Free(d) : filled' = [filled EXCEPT
                    ![d] = Append(@, [seq |-> captured'[d], buf |-> b])]
        BY <1>4, <3>2 DEF Capture
      <4>2. [seq |-> captured'[d], buf |-> b] \in TxBuf
        BY <2>1 DEF TxBuf, Free
      <4>3. Append(filled[d], [seq |-> captured'[d], buf |-> b]) \in Seq(TxBuf)
        BY <1>2, <4>2, AppendFacts
      <4> QED
        BY <1>2, <4>1, <4>3
    <3> QED
      BY <3>1, <3>2
  <2> QED
    BY <1>1, <1>4, <2>1, <2>2 DEF TypeOK, Capture
<1>5. ASSUME NEW d \in Devs, TxPush(d) PROVE TypeOK'
  <2>1. filled[d] \in Seq(TxBuf) /\ filled[d] # <<>>
    BY <1>2, <1>5 DEF TxPush
  <2>2. Head(filled[d]) \in TxBuf /\ Tail(filled[d]) \in Seq(TxBuf)
    BY <2>1, HeadFacts
  <2>3. Append(txlist[d], Head(filled[d])) \in Seq(TxBuf)
    BY <1>2, <2>2, AppendFacts
  <2>4. filled' \in [Devs -> Seq(TxBuf)] /\ txlist' \in [Devs -> Seq(TxBuf)]
    BY <1>2, <1>5, <2>2, <2>3 DEF TxPush
  <2>5. hold' \in [Devs -> SUBSET [dev : Devs, seq : Frames, buf : Bufs]]
    BY <1>1, <1>5, <2>2, SMTT(30) DEF TypeOK, TxPush, TxBuf
  <2>6. txpc' \in [Devs -> {"poll", "sync", "mark", "trigger"}]
    BY <1>1, <1>5 DEF TypeOK, TxPush
  <2> QED
    BY <1>1, <1>5, <2>4, <2>5, <2>6 DEF TypeOK, TxPush
<1>6. ASSUME NEW d \in Devs, SyncNothing(d) PROVE TypeOK'
  BY <1>1, <1>6 DEF TypeOK, SyncNothing
<1>7. ASSUME NEW d \in Devs, Complete
      PROVE  txlist[d] # <<>> /\ Head(txlist[d]) \in TxBuf /\ Tail(txlist[d]) \in Seq(TxBuf)
  <2>1. txlist[d] \in Seq(TxBuf) /\ txlist[d] # <<>>
    BY <1>2, <1>7 DEF Complete
  <2> QED
    BY <2>1, HeadFacts
<1>8. ASSUME NEW d \in Devs, SyncSkip(d) PROVE TypeOK'
  <2>1. Complete
    BY <1>8 DEF SyncSkip
  <2>2. txlist' \in [Devs -> Seq(TxBuf)]
    BY <1>7, <1>8, <2>1 DEF SyncSkip
  <2>3. Head(txlist[d]).seq \in Frames
    BY <1>7, <2>1 DEF TxBuf
  <2>4. fate' \in [Frames -> {"none", "read", "dropped"}]
    BY <1>1, <1>8, <2>3 DEF TypeOK, SyncSkip
  <2>5. skip' \in [num : 0..MaxFlip, from : 0..MaxSeq, to : 0..MaxSeq + MaxFlip,
                   old : 0..MaxFlip]
    <3>1. skip.num > 0 /\ skip.num \in 0..MaxFlip /\ skip.old \in 0..MaxFlip
          /\ skip.to \in Int /\ skip.from \in Int
      BY <1>1, <1>3, <1>8 DEF TypeOK, SyncSkip, Skipped
    <3>2. skip.old <= skip.to - skip.from - skip.num /\ skip.to - skip.from <= MaxFlip
      BY <1>1 DEF Window, Skips
    <3>3. skip.num - 1 \in 0..MaxFlip /\ skip.old + 1 \in 0..MaxFlip
      BY <1>3, <3>1, <3>2
    <3> QED
      BY <1>1, <1>8, <3>3 DEF TypeOK, SyncSkip
  <2> QED
    BY <1>1, <1>8, <2>2, <2>4, <2>5 DEF TypeOK, SyncSkip
<1>9. ASSUME NEW d \in Devs, SyncMatch(d) PROVE TypeOK'
  <2>1. Complete
    BY <1>9 DEF SyncMatch
  <2>2. txlist' \in [Devs -> Seq(TxBuf)]
    BY <1>7, <1>9, <2>1 DEF SyncMatch
  <2>3. \A e \in Devs : Append(cache[e], Head(txlist[e])) \in Seq(TxBuf)
    BY <1>2, <1>7, <2>1, AppendFacts
  <2>4. cache' \in [Devs -> Seq(TxBuf)]
    BY <1>9, <2>3 DEF SyncMatch
  <2>5. Heads \subseteq [dev : Devs, seq : Frames, buf : Bufs]
    BY <1>7, <2>1 DEF Heads, TxBuf
  <2>6. hold' \in [Devs -> SUBSET [dev : Devs, seq : Frames, buf : Bufs]]
    BY <1>1, <1>9, <2>5 DEF TypeOK, SyncMatch
  <2> QED
    BY <1>1, <1>9, <2>2, <2>4, <2>6 DEF TypeOK, SyncMatch
<1>10. ASSUME NEW d \in Devs, MarkReady(d) PROVE TypeOK'
  <2>1. Marking(d) \in Frames
    <3>1. cache[d] \in Buffers /\ cache[d] # <<>>
      BY <1>1, <1>2, <1>10 DEF MarkReady, Cached, Buffers
    <3>2. Len(cache[d]) \in 1..Len(cache[d])
      BY <3>1, HeadFacts DEF Buffers
    <3> QED
      BY <3>1, <3>2, SeqTyped DEF Marking, Last
  <2> QED
    BY <1>1, <1>10, <2>1 DEF TypeOK, MarkReady
<1>11. ASSUME TriggerReadback, UNCHANGED <<capture, txlist, skip>>,
              txpc' \in [Devs -> {"poll", "sync", "mark", "trigger"}],
              hold' \in [Devs -> SUBSET [dev : Devs, seq : Frames, buf : Bufs]],
              lumaPc' \in {"wait", "trigger"}, lumaSeq' = lumaSeq
       PROVE  TypeOK'
  <2>1. luma' \subseteq luma
    BY <1>1, <1>11, TriggerEffect
  <2>2. CASE UNCHANGED <<ready, cache, rx, fate, history>>
    BY <1>1, <1>11, <2>1, <2>2 DEF TypeOK
  <2>3. CASE \E f \in Frames : Popped(f)
    <3>1. PICK f \in Frames : Popped(f)
      BY <2>3
    <3>2. /\ cache' \in [Devs -> Seq(TxBuf)] /\ rxlist' \in [Devs -> Seq(TxBuf)]
          /\ rxq' \in [Devs -> Seq(RxBuf)] /\ rxdone' \in [Devs -> Seq(RxBuf)]
          /\ queued' \in [Devs -> SUBSET Bufs] /\ closing' \in [Devs -> SUBSET Bufs]
          /\ isp' \in Seq(Frames) /\ ready' \subseteq Frames
          /\ fate' \in [Frames -> {"none", "read", "dropped"}]
          /\ missed' \in BOOLEAN /\ unqueued' \in BOOLEAN
      BY <1>1, <3>1, PoppedTyped
    <3> QED
      BY <1>1, <1>11, <2>1, <3>2 DEF TypeOK
  <2> QED
    BY <1>1, <1>11, <2>2, <2>3, TriggerEffect
<1>12. ASSUME NEW d \in Devs, TxTrigger(d) PROVE TypeOK'
  <2>1. /\ txpc' \in [Devs -> {"poll", "sync", "mark", "trigger"}]
        /\ hold' \in [Devs -> SUBSET [dev : Devs, seq : Frames, buf : Bufs]]
        /\ lumaPc' \in {"wait", "trigger"}
    BY <1>1, <1>12 DEF TypeOK, TxTrigger
  <2> QED
    BY <1>11, <1>12, <2>1 DEF TxTrigger
<1>13. ASSUME LumaTrigger PROVE TypeOK'
  <2>1. /\ txpc' \in [Devs -> {"poll", "sync", "mark", "trigger"}]
        /\ hold' \in [Devs -> SUBSET [dev : Devs, seq : Frames, buf : Bufs]]
        /\ lumaPc' \in {"wait", "trigger"}
    BY <1>1, <1>13 DEF TypeOK, LumaTrigger
  <2> QED
    BY <1>11, <1>13, <2>1 DEF LumaTrigger
<1>14. ASSUME NEW f \in Frames, LumaInfo(f) PROVE TypeOK'
  <2>1. f \in 0..MaxSeq
    BY <1>3 DEF Frames
  <2> QED
    BY <1>1, <1>14, <2>1 DEF TypeOK, LumaInfo
<1>15. ASSUME IspRead PROVE TypeOK'
  <2>1. isp \in Seq(Frames) /\ isp # <<>>
    BY <1>1, <1>15 DEF TypeOK, IspRead
  <2>2. Tail(isp) \in Seq(Frames) /\ Len(isp) \in Nat \ {0}
    BY <2>1, HeadFacts
  <2>3. \A d \in Devs : /\ rxq[d] \in Seq(RxBuf) /\ rxq[d] # <<>>
    BY <1>1, <1>2, <2>2 DEF Fed
  <2>4. \A d \in Devs : Head(rxq[d]) \in RxBuf /\ Tail(rxq[d]) \in Seq(RxBuf)
    BY <2>3, HeadFacts
  <2>5. \A d \in Devs : Append(rxdone[d], Head(rxq[d])) \in Seq(RxBuf)
    BY <1>2, <2>4, AppendFacts
  <2>6. rxq' \in [Devs -> Seq(RxBuf)] /\ rxdone' \in [Devs -> Seq(RxBuf)]
    BY <1>15, <2>4, <2>5 DEF IspRead
  <2> QED
    BY <1>1, <1>15, <2>2, <2>6 DEF TypeOK, IspRead
<1>16. ASSUME NEW d \in Devs, RxDequeue(d) PROVE TypeOK'
  <2>1. rxdone[d] \in Seq(RxBuf) /\ rxdone[d] # <<>> /\ rxlist[d] \in Seq(TxBuf)
    BY <1>2, <1>16 DEF RxDequeue
  <2>2. Head(rxdone[d]) \in RxBuf /\ Tail(rxdone[d]) \in Seq(RxBuf)
    BY <2>1, HeadFacts
  <2>3. rxlist[d] # <<>> => Tail(rxlist[d]) \in Seq(TxBuf)
    BY <2>1, HeadFacts
  <2>4. rxdone' \in [Devs -> Seq(RxBuf)] /\ rxlist' \in [Devs -> Seq(TxBuf)]
    BY <1>2, <1>16, <2>1, <2>2, <2>3 DEF RxDequeue
  <2>5. closing' \in [Devs -> SUBSET Bufs]
    BY <1>1, <1>16, <2>2 DEF TypeOK, RxDequeue, RxBuf
  <2> QED
    BY <1>1, <1>16, <2>4, <2>5 DEF TypeOK, RxDequeue
<1>17. ASSUME NEW d \in Devs, RxReturn(d) PROVE TypeOK'
  BY <1>1, <1>17 DEF TypeOK, RxReturn
<1>18. ASSUME NEW n \in 1..MaxFlip, SkipFrames(n) PROVE TypeOK'
  <2>1. PICK s \in 0..MaxSeq : skip' = [num |-> n, from |-> s, to |-> s + n, old |-> 0]
    BY <1>18 DEF SkipFrames
  <2>2. n \in 0..MaxFlip /\ s + n \in 0..MaxSeq + MaxFlip /\ 0 \in 0..MaxFlip
    BY <1>3
  <2> QED
    BY <1>1, <1>18, <2>1, <2>2 DEF TypeOK, SkipFrames
<1>19. ASSUME StopStart PROVE TypeOK'
  <2>1. /\ captured' \in [Devs -> 0..MaxSeq] /\ lumaSeq' \in 0..MaxSeq
        /\ skip' \in [num : 0..MaxFlip, from : 0..MaxSeq, to : 0..MaxSeq + MaxFlip,
                      old : 0..MaxFlip]
    BY <1>3, <1>19 DEF StopStart, NoSkip
  <2>2. /\ filled' \in [Devs -> Seq(TxBuf)] /\ txlist' \in [Devs -> Seq(TxBuf)]
        /\ cache' \in [Devs -> Seq(TxBuf)] /\ rxlist' \in [Devs -> Seq(TxBuf)]
        /\ rxq' \in [Devs -> Seq(RxBuf)] /\ rxdone' \in [Devs -> Seq(RxBuf)]
        /\ isp' \in Seq(Frames)
    BY <1>19 DEF StopStart, Empty
  <2>3. /\ hold' \in [Devs -> SUBSET [dev : Devs, seq : Frames, buf : Bufs]]
        /\ queued' \in [Devs -> SUBSET Bufs]
        /\ fate' \in [Frames -> {"none", "read", "dropped"}]
        /\ ready' \subseteq Frames /\ luma' \subseteq Frames
        /\ missed' \in BOOLEAN /\ unqueued' \in BOOLEAN
    BY <1>19 DEF StopStart
  <2> QED
    BY <1>1, <1>19, <2>1, <2>2, <2>3 DEF TypeOK, StopStart
<1>20. CASE UNCHANGED vars
  BY <1>1, <1>20 DEF TypeOK, vars
<1> QED
  BY <1>4, <1>5, <1>6, <1>8, <1>9, <1>10, <1>12, <1>13, <1>14, <1>15, <1>16,
     <1>17, <1>18, <1>19, <1>20 DEF Next, TxThread, RxThread, LumaThread

-----------------------------------------------------------------------------
(* The order of the frames. *)

\* sync_tx_buf moves buffers of one frame.
LEMMA HeadsAgree ==
    ASSUME TypeOK, Complete
    PROVE  /\ \A d \in Devs : txlist[d] # <<>> /\ txlist[d] \in Buffers
                              /\ Head(txlist[d]) \in TxBuf
           /\ \A d, e \in Devs : Head(txlist[d]).seq = Head(txlist[e]).seq
<1>1. \A d \in Devs : txlist[d] # <<>> /\ txlist[d] \in Buffers
  BY DEF TypeOK, Complete, Buffers
<1>2. \A d \in Devs : Head(txlist[d]) \in TxBuf
  BY <1>1, HeadFacts DEF Buffers
<1> DEFINE h == [d \in Devs |-> Head(txlist[d]).seq]
           S == {h[d] : d \in Devs}
<1>3. {k.seq : k \in Heads} = S
  <2> DEFINE k(d) == [dev |-> d, seq |-> Head(txlist[d]).seq,
                      buf |-> Head(txlist[d]).buf]
  <2>1. \A d \in Devs : k(d).seq = h[d]
    OBVIOUS
  <2>2. Heads = {k(d) : d \in Devs}
    BY DEF Heads
  <2> HIDE DEF k, h
  <2> QED
    BY <2>1, <2>2
<1>4. IsFiniteSet(S)
  <2>1. IsFiniteSet(Devs) /\ DOMAIN h = Devs
    BY HdrAssumption, FS_Interval DEF Devs
  <2> HIDE DEF h
  <2> QED
    BY <2>1, ImageFinite
<1>5. \E x : S = {x}
  <2>1. Cardinality(S) = 1
    BY <1>3 DEF Complete
  <2> HIDE DEF S
  <2> QED
    BY <1>4, <2>1, FS_Singleton
<1> QED
  BY <1>1, <1>2, <1>5

LEMMA OrderedInvariant == Inv /\ [Next]_vars => Ordered'
<1> SUFFICES ASSUME Inv, [Next]_vars PROVE Ordered'
  OBVIOUS
<1> USE DEF capture, tx, rx, analysis, history
<1>1. TypeOK /\ Ordered /\ Cached
  BY DEF Inv
<1>2. /\ \A d \in Devs : /\ filled[d] \in Buffers /\ txlist[d] \in Buffers
                         /\ cache[d] \in Buffers /\ captured[d] \in Nat
      /\ filled \in [Devs -> Buffers] /\ txlist \in [Devs -> Buffers]
      /\ captured \in [Devs -> 0..MaxSeq]
  BY <1>1, HdrAssumption DEF TypeOK, Buffers
<1>3. \A d \in Devs : Streamed(cache[d], txlist[d], filled[d], captured[d])
  BY <1>1 DEF Ordered
<1>4. ASSUME NEW d \in Devs, Capture(d) PROVE Ordered'
  <2>1. captured[d] + 1 \in Frames
    BY <1>1, <1>4, HdrAssumption, SMTT(30) DEF TypeOK, Capture, Frames
  <2>2. captured'[d] = captured[d] + 1
    BY <1>2, <1>4 DEF Capture
  <2>3. \/ filled' = filled
        \/ \E b \in TxBuf : b.seq = captured[d] + 1
                            /\ filled' = [filled EXCEPT ![d] = Append(@, b)]
    <3>1. CASE Free(d) = {}
      BY <1>4, <3>1 DEF Capture
    <3>2. CASE Free(d) # {}
      <4>1. PICK b \in Free(d) : filled' = [filled EXCEPT
                    ![d] = Append(@, [seq |-> captured'[d], buf |-> b])]
        BY <1>4, <3>2 DEF Capture
      <4>2. [seq |-> captured'[d], buf |-> b] \in TxBuf
        BY <2>1, <2>2 DEF TxBuf, Free
      <4> QED
        BY <2>2, <4>1, <4>2
    <3> QED
      BY <3>1, <3>2
  <2>4. filled'[d] = filled[d]
        \/ \E b \in TxBuf : b.seq = captured[d] + 1 /\ filled'[d] = Append(filled[d], b)
    BY <1>2, <2>3
  <2>5. Streamed(cache[d], txlist[d], filled'[d], captured'[d])
    <3>1. CASE filled'[d] = filled[d]
      BY <1>2, <1>3, <2>2, <3>1, StreamLost
    <3>2. ASSUME NEW b \in TxBuf, b.seq = captured[d] + 1,
                 filled'[d] = Append(filled[d], b)
          PROVE  Streamed(cache[d], txlist[d], filled'[d], captured'[d])
      BY <1>2, <1>3, <2>2, <3>2, StreamCapture
    <3> QED
      BY <2>4, <3>1, <3>2
  <2>6. \A e \in Devs \ {d} : filled'[e] = filled[e] /\ captured'[e] = captured[e]
    BY <1>2, <1>4, <2>3 DEF Capture
  <2>7. cache' = cache /\ txlist' = txlist
    BY <1>4 DEF Capture
  <2> QED
    BY <1>3, <2>5, <2>6, <2>7 DEF Ordered
<1>5. ASSUME NEW d \in Devs, TxPush(d) PROVE Ordered'
  <2>1. /\ filled[d] # <<>> /\ filled'[d] = Tail(filled[d])
        /\ txlist'[d] = Append(txlist[d], Head(filled[d]))
        /\ \A e \in Devs \ {d} : filled'[e] = filled[e] /\ txlist'[e] = txlist[e]
        /\ cache' = cache /\ captured' = captured
    BY <1>2, <1>5 DEF TxPush
  <2>2. Streamed(cache[d], txlist'[d], filled'[d], captured[d])
    BY <1>2, <1>3, <2>1, StreamPush
  <2> QED
    BY <1>3, <2>1, <2>2 DEF Ordered
<1>6. ASSUME NEW d \in Devs, SyncSkip(d) \/ SyncMatch(d) PROVE Ordered'
  <2>1. \A e \in Devs : txlist[e] # <<>>
    BY <1>6 DEF SyncSkip, SyncMatch, Complete
  <2>2. /\ txlist' = [e \in Devs |-> Tail(txlist[e])]
        /\ filled' = filled /\ captured' = captured
        /\ \/ cache' = cache
           \/ cache' = [e \in Devs |-> Append(cache[e], Head(txlist[e]))]
    BY <1>6 DEF SyncSkip, SyncMatch
  <2>3. ASSUME NEW e \in Devs
        PROVE  Streamed(cache'[e], txlist'[e], filled'[e], captured'[e])
    <3>1. txlist'[e] = Tail(txlist[e])
      BY <2>2
    <3>2. cache'[e] = cache[e] \/ cache'[e] = Append(cache[e], Head(txlist[e]))
      BY <2>2
    <3>3. /\ Streamed(cache[e], Tail(txlist[e]), filled[e], captured[e])
          /\ Streamed(Append(cache[e], Head(txlist[e])), Tail(txlist[e]), filled[e],
                      captured[e])
      BY <1>2, <1>3, <2>1, StreamMatch
    <3> QED
      BY <2>2, <3>1, <3>2, <3>3
  <2> QED
    BY <2>3 DEF Ordered
<1>7. ASSUME TriggerReadback, UNCHANGED <<captured, filled, txlist>> PROVE Ordered'
  <2>1. CASE cache' = cache
    BY <1>3, <1>7, <2>1 DEF Ordered
  <2>2. CASE \E f \in Frames : Popped(f)
    <3>1. \A d \in Devs : cache[d] # <<>> /\ cache'[d] \in {cache[d], Tail(cache[d])}
      BY <2>2 DEF Popped
    <3>2. \A d \in Devs : Streamed(cache'[d], txlist[d], filled[d], captured[d])
      BY <1>2, <1>3, <3>1, StreamPop
    <3> QED
      BY <1>7, <3>2 DEF Ordered
  <2> QED
    BY <1>1, <1>7, <2>1, <2>2, TriggerEffect
<1>8. ASSUME StopStart PROVE Ordered'
  <2>1. \A d \in Devs : /\ cache'[d] = <<>> /\ txlist'[d] = <<>> /\ filled'[d] = <<>>
    BY <1>8 DEF StopStart, Empty
  <2> QED
    BY <2>1 DEF Ordered, Streamed, Rising, Before, Below
<1>9. CASE UNCHANGED <<cache, txlist, filled, captured>>
  BY <1>3, <1>9 DEF Ordered
<1>10. \/ \E d \in Devs : \/ Capture(d) \/ TxPush(d)
                          \/ SyncSkip(d) \/ SyncMatch(d)
       \/ TriggerReadback /\ UNCHANGED <<captured, filled, txlist>>
       \/ StopStart
       \/ UNCHANGED <<cache, txlist, filled, captured>>
  <2>1. ASSUME NEW d \in Devs,
               SyncNothing(d) \/ MarkReady(d) \/ RxDequeue(d) \/ RxReturn(d)
        PROVE  UNCHANGED <<cache, txlist, filled, captured>>
    BY <2>1 DEF SyncNothing, MarkReady, RxDequeue, RxReturn
  <2>2. ASSUME NEW f \in Frames, LumaInfo(f)
        PROVE  UNCHANGED <<cache, txlist, filled, captured>>
    BY <2>2 DEF LumaInfo
  <2>3. ASSUME NEW n \in 1..MaxFlip, SkipFrames(n)
        PROVE  UNCHANGED <<cache, txlist, filled, captured>>
    BY <2>3 DEF SkipFrames
  <2>4. ASSUME IspRead \/ UNCHANGED vars
        PROVE  UNCHANGED <<cache, txlist, filled, captured>>
    BY <2>4 DEF IspRead, vars
  <2>5. ASSUME LumaTrigger \/ \E d \in Devs : TxTrigger(d)
        PROVE  TriggerReadback /\ UNCHANGED <<captured, filled, txlist>>
    BY <2>5 DEF LumaTrigger, TxTrigger
  <2> QED
    BY <2>1, <2>2, <2>3, <2>4, <2>5 DEF Next, TxThread, RxThread, LumaThread
<1> QED
  BY <1>4, <1>5, <1>6, <1>7, <1>8, <1>9, <1>10

-----------------------------------------------------------------------------
(* What is cached. *)

LEMMA OneInsideInvariant == Inv /\ [Next]_vars => OneInside'
<1> SUFFICES ASSUME Inv, [Next]_vars PROVE OneInside'
  OBVIOUS
<1> USE DEF capture, tx, rx, analysis, history
<1>1. OneInside /\ txpc \in [Devs -> {"poll", "sync", "mark", "trigger"}]
  BY DEF Inv, TypeOK
<1>2. ASSUME NEW d \in Devs, SyncMatch(d) PROVE OneInside'
  BY <1>1, <1>2 DEF SyncMatch, SyncFree, OneInside
<1>3. ASSUME NEW d \in Devs,
             txpc' \in {[txpc EXCEPT ![d] = "sync"], [txpc EXCEPT ![d] = "poll"]}
      PROVE  OneInside'
  BY <1>1, <1>3 DEF OneInside
<1>4. ASSUME NEW d \in Devs, MarkReady(d) PROVE OneInside'
  BY <1>1, <1>4 DEF OneInside, MarkReady
<1>5. CASE txpc' = txpc
  BY <1>1, <1>5 DEF OneInside
<1>6. ASSUME NEW d \in Devs,
             TxPush(d) \/ SyncNothing(d) \/ SyncSkip(d) \/ TxTrigger(d)
      PROVE  txpc' \in {[txpc EXCEPT ![d] = "sync"], [txpc EXCEPT ![d] = "poll"]}
  BY <1>6 DEF TxPush, SyncNothing, SyncSkip, TxTrigger
<1>7. ASSUME NEW d \in Devs, Capture(d) \/ RxDequeue(d) \/ RxReturn(d)
      PROVE  txpc' = txpc
  BY <1>7 DEF Capture, RxDequeue, RxReturn
<1>8. ASSUME LumaThread \/ IspRead \/ StopStart \/ UNCHANGED vars
      PROVE  txpc' = txpc
  BY <1>8 DEF LumaThread, LumaTrigger, LumaInfo, IspRead, StopStart, vars
<1>9. ASSUME NEW n \in 1..MaxFlip, SkipFrames(n) PROVE txpc' = txpc
  BY <1>9 DEF SkipFrames
<1> QED
  BY <1>2, <1>3, <1>4, <1>5, <1>6, <1>7, <1>8, <1>9 DEF Next, TxThread, RxThread

\* When the lowest ready frame goes, what is ready and marked stays cached.
LEMMA PoppedCache ==
    ASSUME TypeOK, Ordered, Cached, Past, NEW f \in Frames, Popped(f), NEW d \in Devs
    PROVE  /\ \A g \in ready' : Has(cache'[d], g)
           /\ \A t \in Devs : txpc[t] = "mark" =>
                 cache'[d] # <<>> /\ Last(cache'[d]) = Last(cache[d])
<1>1. /\ cache[d] \in Buffers /\ cache[d] # <<>> /\ Head(cache[d]).seq <= f
      /\ Rising(cache[d]) /\ cache'[d] \in {cache[d], Tail(cache[d])}
      /\ DOMAIN cache[d] = 1..Len(cache[d])
  BY DEF TypeOK, Ordered, Streamed, Popped, Buffers
<1> DEFINE s == cache[d]
           k == Tail(cache[d])
<1>2. /\ Head(s) = s[1] /\ Len(s) \in Nat \ {0} /\ Len(k) = Len(s) - 1 /\ 1 \in 1..Len(s)
      /\ k \in Buffers
      /\ \A i \in 1..Len(k) : k[i] = s[i + 1]
      /\ \A i \in 1..Len(s) : i = 1 \/ i - 1 \in 1..Len(k)
  BY <1>1, HeadFacts DEF Buffers
<1>3. \A i \in 1..Len(s) : s[i].seq \in Nat
  BY <1>1, SeqTyped
<1>4. ASSUME NEW g \in ready, g # f PROVE Has(s, g) /\ Has(k, g)
  <2>1. PICK i \in 1..Len(s) : s[i].seq = g
    BY DEF Cached, Has
  <2>2. f \in Nat /\ g \in Nat /\ g > f
    <3>1. f \in Nat /\ g \in Nat
      BY DEF TypeOK, Frames
    <3>2. f <= g
      BY DEF Popped
    <3> QED
      BY <1>4, <3>1, <3>2
  <2>3. i # 1
    <3>1. s[1].seq <= f
      BY <1>1, <1>2
    <3>2. s[1].seq \in Nat
      BY <1>2, <1>3
    <3> QED
      BY <2>1, <2>2, <3>1, <3>2
  <2>4. i - 1 \in 1..Len(k) /\ k[i - 1].seq = g
    BY <1>2, <2>1, <2>3
  <2> QED
    BY <2>1, <2>4 DEF Has
<1>5. \A g \in ready' : Has(cache'[d], g)
  BY <1>1, <1>4 DEF Popped
<1>6. ASSUME NEW t \in Devs, txpc[t] = "mark" PROVE k # <<>> /\ Last(k) = Last(s)
  <2>1. f < Marking(t) /\ Last(s).seq = Marking(t)
    BY <1>6 DEF Past, Cached, Popped
  <2>2. PICK i \in 1..Len(s) : s[i].seq = f
    BY DEF Cached, Has, Popped
  <2>3. i # Len(s)
    BY <1>3, <2>1, <2>2 DEF Last
  <2>4. Len(k) \in 1..Len(k) /\ k[Len(k)] = s[Len(s)]
    BY <1>2, <2>2, <2>3
  <2> QED
    <3>1. k # <<>>
      <4> HIDE DEF k, s
      <4> QED
        BY <2>4
    <3> QED
      BY <1>2, <2>4, <3>1 DEF Last
<1> QED
  BY <1>1, <1>5, <1>6

LEMMA CachedInvariant == Inv /\ [Next]_vars => Cached'
<1> SUFFICES ASSUME Inv, [Next]_vars PROVE Cached'
  OBVIOUS
<1> USE DEF capture, tx, rx, analysis, history
<1>1. TypeOK /\ OneInside /\ Ordered /\ Cached /\ Past
  BY DEF Inv
<1>2. /\ \A d \in Devs : cache[d] \in Buffers
      /\ txpc \in [Devs -> {"poll", "sync", "mark", "trigger"}]
  BY <1>1 DEF TypeOK, Buffers
<1>3. ASSUME NEW d \in Devs, SyncMatch(d) PROVE Cached'
  <2>1. Complete /\ SyncFree
    BY <1>3 DEF SyncMatch
  <2>2. \A e \in Devs : /\ Head(txlist[e]) \in TxBuf
                        /\ Head(txlist[e]).seq = Head(txlist[d]).seq
    BY <1>1, <2>1, HeadsAgree
  <2>3. \A e \in Devs : /\ cache'[e] = Append(cache[e], Head(txlist[e]))
    BY <1>3 DEF SyncMatch
  <2>4. \A e \in Devs : /\ cache'[e] # <<>> /\ Last(cache'[e]) = Head(txlist[e])
                        /\ \A i \in 1..Len(cache[e]) : cache'[e][i] = cache[e][i]
                              /\ i \in 1..Len(cache'[e])
    <3> TAKE e \in Devs
    <3>1. cache[e] \in Seq(TxBuf) /\ Head(txlist[e]) \in TxBuf
      BY <1>2, <2>2 DEF Buffers
    <3>2. cache'[e] = Append(cache[e], Head(txlist[e]))
      BY <2>3
    <3> QED
      BY <3>1, <3>2, AppendFacts
  <2>5. \A e \in Devs, f \in ready' : Has(cache'[e], f)
    <3>1. ready' = ready
      BY <1>3 DEF SyncMatch
    <3> QED
      BY <1>1, <2>4, <3>1, SMTT(30) DEF Cached, Has
  <2>6. \A t \in Devs : txpc'[t] = "mark" => t = d
    BY <1>2, <1>3, <2>1 DEF SyncMatch, SyncFree
  <2> QED
    BY <2>2, <2>4, <2>5, <2>6 DEF Cached, Marking
<1>4. ASSUME NEW d \in Devs, MarkReady(d) PROVE Cached'
  <2>1. ready' = ready \cup {Marking(d)} /\ cache' = cache /\ txpc[d] = "mark"
    BY <1>4 DEF MarkReady
  <2>2. \A t \in Devs : txpc'[t] # "mark"
    BY <1>1, <1>2, <1>4 DEF MarkReady, OneInside
  <2>3. \A e \in Devs : Has(cache[e], Marking(d))
    <3> TAKE e \in Devs
    <3>1. cache[e] # <<>> /\ Last(cache[e]).seq = Marking(d)
      BY <1>1, <2>1 DEF Cached
    <3>2. Len(cache[e]) \in 1..Len(cache[e])
      BY <1>2, <3>1, HeadFacts DEF Buffers
    <3> QED
      BY <3>1, <3>2 DEF Has, Last
  <2> QED
    BY <1>1, <2>1, <2>2, <2>3 DEF Cached
<1>5. ASSUME ready' = ready, cache' = cache,
             \A t \in Devs : txpc'[t] = "mark" => txpc[t] = "mark"
      PROVE  Cached'
  BY <1>1, <1>5 DEF Cached, Marking
<1>6. ASSUME TriggerReadback, \A t \in Devs : txpc'[t] = "mark" => txpc[t] = "mark"
      PROVE  Cached'
  <2>1. CASE \E f \in Frames : Popped(f)
    <3>1. \A d \in Devs : /\ \A g \in ready' : Has(cache'[d], g)
                          /\ \A t \in Devs : txpc[t] = "mark" =>
                                cache'[d] # <<>> /\ Last(cache'[d]) = Last(cache[d])
      BY <1>1, <2>1, PoppedCache
    <3>2. \A t, d \in Devs : txpc'[t] = "mark" => Last(cache[d]).seq = Last(cache[t]).seq
      BY <1>1, <1>6 DEF Cached, Marking
    <3> QED
      BY <1>6, <3>1, <3>2 DEF Cached, Marking
  <2> QED
    BY <1>1, <1>5, <1>6, <2>1, TriggerEffect
<1>7. ASSUME NEW d \in Devs, TxTrigger(d) PROVE Cached'
  BY <1>2, <1>6, <1>7 DEF TxTrigger
<1>8. ASSUME LumaTrigger PROVE Cached'
  BY <1>6, <1>8 DEF LumaTrigger
<1>9. ASSUME NEW d \in Devs, TxPush(d) \/ SyncNothing(d) \/ SyncSkip(d) PROVE Cached'
  BY <1>2, <1>5, <1>9 DEF TxPush, SyncNothing, SyncSkip
<1>10. ASSUME NEW d \in Devs, Capture(d) \/ RxDequeue(d) \/ RxReturn(d) PROVE Cached'
  BY <1>5, <1>10 DEF Capture, RxDequeue, RxReturn
<1>11. ASSUME NEW f \in Frames, LumaInfo(f) PROVE Cached'
  BY <1>5, <1>11 DEF LumaInfo
<1>12. ASSUME NEW n \in 1..MaxFlip, SkipFrames(n) PROVE Cached'
  BY <1>5, <1>12 DEF SkipFrames
<1>13. ASSUME IspRead \/ UNCHANGED vars PROVE Cached'
  BY <1>5, <1>13 DEF IspRead, vars
<1>14. ASSUME StopStart PROVE Cached'
  <2>1. ready' = {} /\ \A t \in Devs : txpc'[t] = "poll"
    BY <1>14 DEF StopStart
  <2> QED
    BY <2>1 DEF Cached
<1> QED
  BY <1>3, <1>4, <1>7, <1>8, <1>9, <1>10, <1>11, <1>12, <1>13, <1>14
     DEF Next, TxThread, RxThread, LumaThread

\* The lowest ready frame is the head of every cache.
LEMMA HeadIsLowest ==
    ASSUME TypeOK, Cached, Matched, Past, ~missed, NEW f \in Frames, Popped(f),
           NEW d \in Devs
    PROVE  Head(cache[d]).seq = f
<1>1. /\ cache[d] \in Buffers /\ cache[d] # <<>> /\ Head(cache[d]).seq <= f
      /\ f \in ready /\ \A g \in ready : f <= g
  BY DEF TypeOK, Popped, Buffers
<1>2. Head(cache[d]) = cache[d][1] /\ 1 \in 1..Len(cache[d])
  BY <1>1, HeadFacts DEF Buffers
<1>3. cache[d][1].seq \in Nat /\ cache[d][1].seq \in Marked
  BY <1>1, <1>2, SeqTyped DEF Matched
<1>4. CASE cache[d][1].seq \in ready
  BY <1>1, <1>2, <1>3, <1>4 DEF Frames
<1>5. ASSUME NEW t \in Devs, txpc[t] = "mark", cache[d][1].seq = Marking(t)
      PROVE  FALSE
  <2>1. f < Marking(t)
    BY <1>1, <1>5 DEF Past
  <2> QED
    BY <1>1, <1>2, <1>3, <1>5, <2>1 DEF Frames
<1> QED
  BY <1>3, <1>4, <1>5 DEF Marked

LEMMA MatchedInvariant == Inv /\ [Next]_vars => Matched'
<1> SUFFICES ASSUME Inv, [Next]_vars PROVE Matched'
  OBVIOUS
<1> USE DEF capture, tx, rx, analysis, history
<1>1. TypeOK /\ OneInside /\ Ordered /\ Cached /\ Matched /\ Past
  BY DEF Inv
<1>2. /\ \A d \in Devs : cache[d] \in Buffers
      /\ txpc \in [Devs -> {"poll", "sync", "mark", "trigger"}]
  BY <1>1 DEF TypeOK, Buffers
<1>3. ASSUME NEW d \in Devs, SyncMatch(d) PROVE Matched'
  <2>1. Complete /\ SyncFree /\ missed' = missed /\ ready' = ready
    BY <1>3 DEF SyncMatch
  <2>2. \A e \in Devs : /\ Head(txlist[e]) \in TxBuf
                        /\ Head(txlist[e]).seq = Head(txlist[d]).seq
    BY <1>1, <2>1, HeadsAgree
  <2>3. \A e \in Devs : cache'[e] = Append(cache[e], Head(txlist[e]))
    BY <1>3 DEF SyncMatch
  <2>4. \A e \in Devs :
            /\ Last(cache'[e]) = Head(txlist[e])
            /\ \A i \in 1..Len(cache'[e]) : \/ i \in 1..Len(cache[e])
                                               /\ cache'[e][i] = cache[e][i]
                                            \/ cache'[e][i] = Head(txlist[e])
    <3> TAKE e \in Devs
    <3>1. cache[e] \in Seq(TxBuf) /\ Head(txlist[e]) \in TxBuf
      BY <1>2, <2>2 DEF Buffers
    <3>2. cache'[e] = Append(cache[e], Head(txlist[e]))
      BY <2>3
    <3> QED
      BY <3>1, <3>2, AppendFacts
  <2>5. Marked = ready
    BY <2>1 DEF Marked, SyncFree
  <2>6. txpc'[d] = "mark" /\ Marking(d)' = Head(txlist[d]).seq
    BY <1>2, <1>3, <2>4 DEF SyncMatch, Marking
  <2>7. ready \subseteq Marked' /\ Head(txlist[d]).seq \in Marked'
    BY <2>1, <2>6 DEF Marked
  <2> QED
    BY <1>1, <2>1, <2>2, <2>4, <2>5, <2>7 DEF Matched
<1>4. ASSUME cache' = cache, missed' = missed, Marked \subseteq Marked' PROVE Matched'
  BY <1>1, <1>4 DEF Matched
<1>5. ASSUME NEW d \in Devs, MarkReady(d) PROVE Matched'
  <2>1. ready' = ready \cup {Marking(d)} /\ cache' = cache /\ txpc[d] = "mark"
        /\ missed' = missed
    BY <1>5 DEF MarkReady
  <2>2. \A t \in Devs : txpc[t] = "mark" => t = d
    BY <1>1, <2>1 DEF OneInside
  <2> QED
    BY <1>4, <2>1, <2>2 DEF Marked
<1>6. ASSUME cache' = cache, missed' = missed, ready' = ready,
             \A t \in Devs : txpc[t] = "mark" => txpc'[t] = "mark"
      PROVE  Matched'
  BY <1>4, <1>6 DEF Marked, Marking
<1>7. ASSUME TriggerReadback, \A t \in Devs : txpc[t] = "mark" => txpc'[t] = "mark"
      PROVE  Matched'
  <2>1. ASSUME NEW f \in Frames, Popped(f) PROVE Matched'
    <3> SUFFICES ASSUME ~missed', NEW d \in Devs, NEW i \in 1..Len(cache'[d])
                 PROVE  cache'[d][i].seq \in Marked'
      BY DEF Matched
    <3>1. /\ ~missed /\ cache'[d] = Tail(cache[d]) /\ cache[d] # <<>>
          /\ Head(cache[d]).seq <= f /\ ready' = ready \ {f} /\ f \in ready
          /\ \A g \in ready : f <= g
      BY <2>1 DEF Popped
    <3>2. /\ cache'[d][i] = cache[d][i + 1] /\ i + 1 \in 1..Len(cache[d])
          /\ 1 \in 1..Len(cache[d]) /\ Head(cache[d]) = cache[d][1]
      BY <1>2, <3>1, HeadFacts DEF Buffers
    <3>3. /\ cache[d][1].seq \in Marked /\ cache[d][i + 1].seq \in Marked
          /\ cache[d][1].seq \in Nat /\ cache[d][i + 1].seq \in Nat
      BY <1>1, <1>2, <3>1, <3>2, SeqTyped DEF Matched
    <3>4. cache[d][1].seq < cache[d][i + 1].seq
      <4>1. DOMAIN cache[d] = 1..Len(cache[d]) /\ Rising(cache[d])
        BY <1>1, <1>2 DEF Buffers, Ordered, Streamed
      <4> QED
        BY <3>2, <4>1 DEF Rising
    <3>5. ASSUME NEW t \in Devs, txpc[t] = "mark"
          PROVE  f < Marking(t) /\ txpc'[t] = "mark" /\ Marking(t)' = Marking(t)
      <4>1. Last(cache'[t]) = Last(cache[t])
        BY <1>1, <2>1, <3>5, PoppedCache
      <4> QED
        BY <1>1, <1>7, <3>1, <3>5, <4>1 DEF Past, Marking
    <3>6. cache[d][1].seq = f
      BY <1>1, <2>1, <3>1, <3>2, HeadIsLowest
    <3>7. cache[d][i + 1].seq # f
      BY <3>3, <3>4, <3>6
    <3>8. CASE cache[d][i + 1].seq \in ready
      BY <3>1, <3>2, <3>7, <3>8 DEF Marked
    <3>9. ASSUME NEW t \in Devs, txpc[t] = "mark", cache[d][i + 1].seq = Marking(t)
          PROVE  cache'[d][i].seq \in Marked'
      BY <3>2, <3>5, <3>9 DEF Marked
    <3> QED
      BY <3>3, <3>8, <3>9 DEF Marked
  <2> QED
    BY <1>1, <1>6, <1>7, <2>1, TriggerEffect
<1>8. ASSUME NEW d \in Devs, TxTrigger(d) PROVE Matched'
  BY <1>2, <1>7, <1>8 DEF TxTrigger
<1>9. ASSUME LumaTrigger PROVE Matched'
  BY <1>7, <1>9 DEF LumaTrigger
<1>10. ASSUME NEW d \in Devs, TxPush(d) \/ SyncNothing(d) \/ SyncSkip(d) PROVE Matched'
  BY <1>2, <1>6, <1>10 DEF TxPush, SyncNothing, SyncSkip
<1>11. ASSUME NEW d \in Devs, Capture(d) \/ RxDequeue(d) \/ RxReturn(d) PROVE Matched'
  BY <1>6, <1>11 DEF Capture, RxDequeue, RxReturn
<1>12. ASSUME NEW f \in Frames, LumaInfo(f) PROVE Matched'
  BY <1>6, <1>12 DEF LumaInfo
<1>13. ASSUME NEW n \in 1..MaxFlip, SkipFrames(n) PROVE Matched'
  BY <1>6, <1>13 DEF SkipFrames
<1>14. ASSUME IspRead \/ UNCHANGED vars PROVE Matched'
  BY <1>6, <1>14 DEF IspRead, vars
<1>15. ASSUME StopStart PROVE Matched'
  <2>1. \A d \in Devs : cache'[d] = <<>>
    BY <1>15 DEF StopStart, Empty
  <2> QED
    BY <2>1 DEF Matched
<1> QED
  BY <1>3, <1>5, <1>8, <1>9, <1>10, <1>11, <1>12, <1>13, <1>14, <1>15
     DEF Next, TxThread, RxThread, LumaThread

-----------------------------------------------------------------------------
(* What the rx devices are given. *)

\* The outcomes of a trigger, as the rx devices see them.
LEMMA PoppedQueues ==
    ASSUME TypeOK, NEW f \in Frames, Popped(f)
    PROVE  /\ rxdone' = rxdone
           /\ \A d \in Devs :
                 /\ cache[d] \in Buffers /\ cache[d] # <<>> /\ Head(cache[d]) \in TxBuf
                 /\ rxq[d] \in Seq(RxBuf)
                 /\ \/ rxq'[d] = rxq[d]
                    \/ \E b \in RxBuf : b.seq = Head(cache[d]).seq
                                        /\ b.buf = Head(cache[d]).buf
                                        /\ rxq'[d] = Append(rxq[d], b)
           /\ \/ isp' = isp
              \/ /\ isp' = Append(isp, f)
                 /\ \A d \in Devs : \E b \in RxBuf : b.seq = Head(cache[d]).seq
                                                     /\ b.buf = Head(cache[d]).buf
                                                     /\ rxq'[d] = Append(rxq[d], b)
           /\ ~missed' /\ ~unqueued' /\ isp' = isp => rxq' = rxq
           /\ ~unqueued' => \A d \in Devs :
                 \/ rxlist'[d] = Append(rxlist[d], Head(cache[d]))
                 \/ rxlist'[d] = rxlist[d] /\ rxq'[d] = rxq[d]
<1>1. \A d \in Devs : /\ cache[d] \in Buffers /\ cache[d] # <<>>
                      /\ rxq[d] \in Seq(RxBuf)
  BY DEF TypeOK, Popped, Buffers
<1>2. \A d \in Devs : Head(cache[d]) \in TxBuf
  BY <1>1, HeadFacts DEF Buffers
<1>3. ASSUME NEW x \in [Devs -> Bufs], NEW m \in SUBSET Devs, QueueRx(x, m), NEW d \in Devs
      PROVE  IF d \in m THEN \E b \in RxBuf : b.seq = Head(cache[d]).seq
                                              /\ b.buf = Head(cache[d]).buf
                                              /\ rxq'[d] = Append(rxq[d], b)
                        ELSE rxq'[d] = rxq[d]
  <2> DEFINE b == [seq |-> Head(cache[d]).seq, buf |-> Head(cache[d]).buf, rx |-> x[d]]
  <2>1. b \in RxBuf /\ b.seq = Head(cache[d]).seq /\ b.buf = Head(cache[d]).buf
    BY <1>2 DEF TxBuf, RxBuf
  <2>2. rxq'[d] = IF d \in m THEN Append(rxq[d], b) ELSE rxq[d]
    BY <1>3 DEF QueueRx
  <2> HIDE DEF b
  <2> QED
    BY <2>1, <2>2
<1>4. rxdone' = rxdone
  BY DEF Popped, DropFrame, NoRxBuffer, QueueFails, ReadBack, rx
<1>5. CASE DropFrame(f)
  BY <1>1, <1>2, <1>4, <1>5 DEF DropFrame, rx
<1>6. CASE NoRxBuffer(f)
  <2>1. PICK d \in Devs : MoveToRx(1..(d - 1))
    BY <1>6 DEF NoRxBuffer
  <2>2. \A e \in Devs : \/ rxlist'[e] = Append(rxlist[e], Head(cache[e]))
                        \/ rxlist'[e] = rxlist[e]
    BY <2>1 DEF MoveToRx
  <2>3. rxq' = rxq /\ isp' = isp /\ missed'
    BY <1>6 DEF NoRxBuffer
  <2> QED
    BY <1>1, <1>2, <1>4, <2>2, <2>3
<1>7. CASE QueueFails(f)
  <2>1. PICK d \in Devs, x \in [Devs -> Bufs] : QueueRx(x, 1..(d - 1))
    BY <1>7 DEF QueueFails
  <2>2. 1..(d - 1) \in SUBSET Devs
    BY HdrAssumption DEF Devs
  <2>3. \A e \in Devs : \/ rxq'[e] = rxq[e]
                        \/ \E b \in RxBuf : b.seq = Head(cache[e]).seq
                                            /\ b.buf = Head(cache[e]).buf
                                            /\ rxq'[e] = Append(rxq[e], b)
    BY <1>3, <2>1, <2>2
  <2>4. isp' = isp /\ unqueued'
    BY <1>7 DEF QueueFails
  <2> QED
    BY <1>1, <1>2, <1>4, <2>3, <2>4
<1>8. CASE ReadBack(f)
  <2>1. PICK x \in [Devs -> Bufs] : QueueRx(x, Devs) /\ MoveToRx(Devs)
    BY <1>8 DEF ReadBack
  <2>2. \A e \in Devs : \E b \in RxBuf : b.seq = Head(cache[e]).seq
                                         /\ b.buf = Head(cache[e]).buf
                                         /\ rxq'[e] = Append(rxq[e], b)
    BY <1>3, <2>1
  <2>3. \A e \in Devs : rxlist'[e] = Append(rxlist[e], Head(cache[e]))
    BY <2>1 DEF MoveToRx
  <2>4. isp' = Append(isp, f)
    BY <1>8 DEF ReadBack
  <2>5. isp' # isp
    <3>1. isp \in Seq(Frames)
      BY DEF TypeOK
    <3> QED
      BY <2>4, <3>1
  <2> QED
    BY <1>1, <1>2, <1>4, <2>2, <2>3, <2>4, <2>5
<1> QED
  BY <1>5, <1>6, <1>7, <1>8 DEF Popped

\* Steps that do nothing to the rx side.
LEMMA RxUntouched ==
    ASSUME [Next]_vars
    PROVE  \/ \E d \in Devs : RxDequeue(d)
           \/ IspRead
           \/ StopStart
           \/ TriggerReadback
           \/ UNCHANGED <<rxq, rxdone, rxlist, isp, missed, unqueued>>
<1> USE DEF capture, tx, rx, analysis, history
<1>1. ASSUME NEW d \in Devs, Capture(d) \/ TxPush(d) \/ SyncNothing(d) \/ SyncSkip(d)
                             \/ SyncMatch(d) \/ MarkReady(d) \/ RxReturn(d)
      PROVE  UNCHANGED <<rxq, rxdone, rxlist, isp, missed, unqueued>>
  BY <1>1 DEF Capture, TxPush, SyncNothing, SyncSkip, SyncMatch, MarkReady, RxReturn
<1>2. ASSUME NEW f \in Frames, LumaInfo(f)
      PROVE  UNCHANGED <<rxq, rxdone, rxlist, isp, missed, unqueued>>
  BY <1>2 DEF LumaInfo
<1>3. ASSUME NEW n \in 1..MaxFlip, SkipFrames(n)
      PROVE  UNCHANGED <<rxq, rxdone, rxlist, isp, missed, unqueued>>
  BY <1>3 DEF SkipFrames
<1>4. ASSUME UNCHANGED vars
      PROVE  UNCHANGED <<rxq, rxdone, rxlist, isp, missed, unqueued>>
  BY <1>4 DEF vars
<1>5. ASSUME LumaTrigger \/ \E d \in Devs : TxTrigger(d) PROVE TriggerReadback
  BY <1>5 DEF LumaTrigger, TxTrigger
<1> QED
  BY <1>1, <1>2, <1>3, <1>4, <1>5 DEF Next, TxThread, RxThread, LumaThread

LEMMA FedInvariant == Inv /\ [Next]_vars => Fed'
<1> SUFFICES ASSUME Inv, [Next]_vars PROVE Fed'
  OBVIOUS
<1>1. TypeOK /\ Ordered /\ Cached /\ Fed
  BY DEF Inv
<1>2. isp \in Seq(Frames) /\ \A d \in Devs : rxq[d] \in Seq(RxBuf) /\ Len(isp) <= Len(rxq[d])
  BY <1>1 DEF TypeOK, Fed
<1>3. ASSUME IspRead PROVE Fed'
  <2>1. isp # <<>> /\ isp' = Tail(isp) /\ \A d \in Devs : rxq'[d] = Tail(rxq[d])
    BY <1>3 DEF IspRead
  <2>2. Len(isp) \in Nat \ {0} /\ Len(isp') = Len(isp) - 1
    BY <1>2, <2>1, HeadFacts
  <2>3. ASSUME NEW d \in Devs PROVE Len(rxq'[d]) = Len(rxq[d]) - 1 /\ Len(rxq[d]) \in Nat
    <3>1. rxq[d] # <<>>
      BY <1>2, <2>2
    <3> QED
      BY <1>2, <2>1, <3>1, HeadFacts
  <2> QED
    BY <1>2, <2>2, <2>3 DEF Fed
<1>4. ASSUME NEW f \in Frames, Popped(f) PROVE Fed'
  <2>1. \A d \in Devs, b \in RxBuf : Len(Append(rxq[d], b)) = Len(rxq[d]) + 1
    BY <1>2, AppendFacts
  <2>2. Len(Append(isp, f)) = Len(isp) + 1 /\ Len(isp) \in Nat
    BY <1>2, AppendFacts
  <2>3. \A d \in Devs : Len(rxq[d]) \in Nat
    BY <1>2
  <2>4. CASE isp' = isp
    <3>1. \A d \in Devs : \/ rxq'[d] = rxq[d]
                          \/ \E b \in RxBuf : rxq'[d] = Append(rxq[d], b)
      BY <1>1, <1>4, PoppedQueues
    <3> QED
      BY <1>2, <2>1, <2>2, <2>3, <2>4, <3>1 DEF Fed
  <2>5. CASE isp' # isp
    <3>1. /\ isp' = Append(isp, f)
          /\ \A d \in Devs : \E b \in RxBuf : rxq'[d] = Append(rxq[d], b)
      BY <1>1, <1>4, <2>5, PoppedQueues
    <3> QED
      BY <1>2, <2>1, <2>2, <2>3, <3>1 DEF Fed
  <2> QED
    BY <2>4, <2>5
<1>5. ASSUME isp' = isp, rxq' = rxq PROVE Fed'
  BY <1>1, <1>5 DEF Fed
<1>6. ASSUME TriggerReadback PROVE Fed'
  BY <1>1, <1>4, <1>5, <1>6, TriggerEffect DEF rx
<1>7. ASSUME NEW d \in Devs, RxDequeue(d) PROVE Fed'
  BY <1>5, <1>7 DEF RxDequeue
<1>8. ASSUME StopStart PROVE Fed'
  <2>1. isp' = <<>> /\ \A d \in Devs : rxq'[d] = <<>>
    BY <1>8 DEF StopStart, Empty
  <2> QED
    BY <2>1 DEF Fed
<1> QED
  BY <1>3, <1>5, <1>6, <1>7, <1>8, RxUntouched

\* Queue q of a device holds the frames of s.
Carries(q, s) == Len(q) = Len(s) /\ \A i \in 1..Len(q) : q[i].seq = s[i]

LEMMA CarriesMeaning ==
    ASSUME NEW q \in Seq(RxBuf), NEW s \in Seq(Frames)
    PROVE  SeqsOf(q) = s <=> Carries(q, s)
<1>1. /\ DOMAIN q = 1..Len(q) /\ DOMAIN s = 1..Len(s)
      /\ Len(q) \in Nat /\ Len(s) \in Nat
      /\ s = [i \in 1..Len(s) |-> s[i]]
  OBVIOUS
<1>2. SeqsOf(q) = [i \in 1..Len(q) |-> q[i].seq]
  BY <1>1 DEF SeqsOf
<1>3. ASSUME SeqsOf(q) = s PROVE Carries(q, s)
  <2>1. 1..Len(q) = 1..Len(s)
    BY <1>1, <1>2, <1>3
  <2>2. Len(q) = Len(s)
    <3>1. ASSUME Len(q) < Len(s) PROVE FALSE
      <4>1. Len(s) \in 1..Len(s) /\ Len(s) \notin 1..Len(q)
        BY <1>1, <3>1
      <4> QED
        BY <2>1, <4>1
    <3>2. ASSUME Len(s) < Len(q) PROVE FALSE
      <4>1. Len(q) \in 1..Len(q) /\ Len(q) \notin 1..Len(s)
        BY <1>1, <3>2
      <4> QED
        BY <2>1, <4>1
    <3>3. Len(q) \in Nat /\ Len(s) \in Nat
      BY <1>1
    <3> QED
      BY <3>1, <3>2, <3>3
  <2> QED
    BY <1>2, <1>3, <2>2 DEF Carries
<1>4. ASSUME Carries(q, s) PROVE SeqsOf(q) = s
  BY <1>1, <1>2, <1>4 DEF Carries
<1> QED
  BY <1>3, <1>4

LEMMA CarriesAppend ==
    ASSUME NEW q \in Seq(RxBuf), NEW s \in Seq(Frames), Carries(q, s),
           NEW b \in RxBuf, NEW f \in Frames, b.seq = f
    PROVE  Carries(Append(q, b), Append(s, f))
BY AppendFacts DEF Carries

LEMMA CarriesTail ==
    ASSUME NEW q \in Seq(RxBuf), NEW s \in Seq(Frames), Carries(q, s), s # <<>>
    PROVE  Carries(Tail(q), Tail(s))
<1>1. q # <<>>
  BY DEF Carries
<1> QED
  BY <1>1, HeadFacts DEF Carries

LEMMA SameExposureInvariant == Inv /\ [Next]_vars => SameExposure'
<1> SUFFICES ASSUME Inv, [Next]_vars PROVE SameExposure'
  OBVIOUS
<1>1. TypeOK /\ Ordered /\ Cached /\ Matched /\ Past /\ SameExposure /\ TypeOK'
  BY TypedInvariant DEF Inv
<1>2. /\ isp \in Seq(Frames) /\ \A d \in Devs : rxq[d] \in Seq(RxBuf)
      /\ isp' \in Seq(Frames) /\ \A d \in Devs : rxq'[d] \in Seq(RxBuf)
  BY <1>1 DEF TypeOK
<1>3. ~missed /\ ~unqueued => \A d \in Devs : Carries(rxq[d], isp)
  BY <1>1, <1>2, CarriesMeaning DEF SameExposure
<1>4. ASSUME ~missed' /\ ~unqueued' => \A d \in Devs : Carries(rxq'[d], isp')
      PROVE  SameExposure'
  BY <1>2, <1>4, CarriesMeaning DEF SameExposure
<1>5. ASSUME IspRead PROVE SameExposure'
  <2>1. /\ isp # <<>> /\ isp' = Tail(isp) /\ \A d \in Devs : rxq'[d] = Tail(rxq[d])
        /\ missed' = missed /\ unqueued' = unqueued
    BY <1>5 DEF IspRead, history
  <2> QED
    BY <1>2, <1>3, <1>4, <2>1, CarriesTail
<1>6. ASSUME NEW f \in Frames, Popped(f) PROVE SameExposure'
  <2> SUFFICES ASSUME ~missed', ~unqueued', NEW d \in Devs PROVE Carries(rxq'[d], isp')
    BY <1>4
  <2>1. ~missed /\ ~unqueued
    BY <1>6 DEF Popped
  <2>2. Head(cache[d]).seq = f
    BY <1>1, <1>6, <2>1, HeadIsLowest
  <2>3. CASE isp' = isp
    <3>1. rxq' = rxq
      BY <1>1, <1>6, <2>3, PoppedQueues
    <3> QED
      BY <1>3, <2>1, <2>3, <3>1
  <2>4. CASE isp' # isp
    <3>1. isp' = Append(isp, f)
      BY <1>1, <1>6, <2>4, PoppedQueues
    <3>2. PICK b \in RxBuf : b.seq = Head(cache[d]).seq /\ rxq'[d] = Append(rxq[d], b)
      BY <1>1, <1>6, <2>4, PoppedQueues
    <3> QED
      BY <1>2, <1>3, <2>1, <2>2, <3>1, <3>2, CarriesAppend
  <2> QED
    BY <2>3, <2>4
<1>7. ASSUME UNCHANGED <<rxq, isp, missed, unqueued>> PROVE SameExposure'
  BY <1>1, <1>7 DEF SameExposure
<1>8. ASSUME TriggerReadback PROVE SameExposure'
  BY <1>1, <1>6, <1>7, <1>8, TriggerEffect DEF rx, history
<1>9. ASSUME NEW d \in Devs, RxDequeue(d) PROVE SameExposure'
  BY <1>7, <1>9 DEF RxDequeue, history
<1>10. ASSUME StopStart PROVE SameExposure'
  <2>1. isp' = <<>> /\ \A d \in Devs : rxq'[d] = <<>>
    BY <1>10 DEF StopStart, Empty
  <2> QED
    BY <1>4, <2>1 DEF Carries
<1> QED
  BY <1>5, <1>7, <1>8, <1>9, <1>10, RxUntouched

-----------------------------------------------------------------------------
(* The tx buffers that the ISP still needs. *)

LEMMA KeptAppend ==
    ASSUME NEW s, NEW l \in Buffers, NEW k \in Nat, Kept(s, l, k), NEW b \in TxBuf
    PROVE  Kept(s, Append(l, b), k)
<1>1. \A j \in 1..Len(l) : j \in 1..Len(Append(l, b)) /\ Append(l, b)[j] = l[j]
  BY AppendFacts DEF Buffers
<1> QED
  BY <1>1 DEF Kept

LEMMA KeptLength ==
    ASSUME NEW dn \in Seq(RxBuf), NEW q \in Seq(RxBuf), NEW l \in Buffers,
           Kept(dn, l, 0), Kept(q, l, Len(dn))
    PROVE  Len(dn) + Len(q) <= Len(l)
<1>1. Len(dn) \in Nat /\ Len(q) \in Nat /\ Len(l) \in Nat
  BY DEF Buffers
<1>2. CASE Len(q) = 0
  BY <1>1, <1>2 DEF Kept
<1>3. CASE Len(q) # 0
  <2>1. Len(q) \in 1..Len(q)
    BY <1>1, <1>3
  <2>2. PICK j \in 1..Len(l) : Len(q) + Len(dn) <= j
    BY <2>1 DEF Kept
  <2> QED
    BY <1>1, <2>2
<1> QED
  BY <1>2, <1>3

LEMMA KeptQueue ==
    ASSUME NEW dn \in Seq(RxBuf), NEW q \in Seq(RxBuf), NEW l \in Buffers,
           Kept(dn, l, 0), Kept(q, l, Len(dn)),
           NEW r \in RxBuf, NEW b \in TxBuf, r.buf = b.buf
    PROVE  Kept(dn, Append(l, b), 0) /\ Kept(Append(q, r), Append(l, b), Len(dn))
<1> DEFINE m == Append(l, b)
           p == Append(q, r)
<1>1. /\ Len(dn) + Len(q) <= Len(l) /\ Len(dn) \in Nat /\ Len(q) \in Nat /\ Len(l) \in Nat
  BY KeptLength DEF Buffers
<1>2. Kept(dn, m, 0) /\ Kept(q, m, Len(dn))
  BY <1>1, KeptAppend
<1>3. /\ Len(l) + 1 \in 1..Len(m) /\ m[Len(l) + 1] = b
  BY AppendFacts DEF Buffers
<1>4. /\ \A i \in 1..Len(p) : i \in 1..Len(q) \/ i = Len(q) + 1
      /\ \A i \in 1..Len(q) : p[i] = q[i]
      /\ p[Len(q) + 1] = r
  BY AppendFacts
<1> HIDE DEF m, p
<1>5. Kept(p, m, Len(dn))
  <2> SUFFICES ASSUME NEW i \in 1..Len(p)
               PROVE  \E j \in 1..Len(m) : i + Len(dn) <= j /\ m[j].buf = p[i].buf
    BY DEF Kept
  <2>1. CASE i \in 1..Len(q)
    <3>1. PICK j \in 1..Len(m) : i + Len(dn) <= j /\ m[j].buf = q[i].buf
      BY <1>2, <2>1 DEF Kept
    <3> QED
      BY <1>4, <2>1, <3>1
  <2>2. CASE i = Len(q) + 1
    BY <1>1, <1>3, <1>4, <2>2
  <2> QED
    BY <1>4, <2>1, <2>2
<1> QED
  BY <1>2, <1>5 DEF m, p

LEMMA KeptRead ==
    ASSUME NEW dn \in Seq(RxBuf), NEW q \in Seq(RxBuf), NEW l \in Buffers,
           Kept(dn, l, 0), Kept(q, l, Len(dn)), q # <<>>
    PROVE  /\ Kept(Append(dn, Head(q)), l, 0)
           /\ Kept(Tail(q), l, Len(Append(dn, Head(q))))
<1> DEFINE p == Append(dn, Head(q))
           k == Tail(q)
<1>1. /\ \A i \in 1..Len(k) : k[i] = q[i + 1] /\ i + 1 \in 1..Len(q)
      /\ Head(q) = q[1] /\ 1 \in 1..Len(q) /\ Head(q) \in RxBuf
      /\ Len(k) \in Nat
  BY HeadFacts
<1>2. /\ \A i \in 1..Len(p) : i \in 1..Len(dn) \/ i = Len(dn) + 1
      /\ \A i \in 1..Len(dn) : p[i] = dn[i]
      /\ p[Len(dn) + 1] = q[1] /\ Len(p) = Len(dn) + 1 /\ Len(dn) \in Nat
  BY <1>1, AppendFacts
<1>3. Len(l) \in Nat
  BY DEF Buffers
<1> HIDE DEF p, k
<1>4. Kept(p, l, 0)
  <2> SUFFICES ASSUME NEW i \in 1..Len(p)
               PROVE  \E j \in 1..Len(l) : i + 0 <= j /\ l[j].buf = p[i].buf
    BY DEF Kept
  <2>1. CASE i \in 1..Len(dn)
    <3>1. PICK j \in 1..Len(l) : i + 0 <= j /\ l[j].buf = dn[i].buf
      BY <2>1 DEF Kept
    <3> QED
      BY <1>2, <2>1, <3>1
  <2>2. CASE i = Len(dn) + 1
    <3>1. PICK j \in 1..Len(l) : 1 + Len(dn) <= j /\ l[j].buf = q[1].buf
      BY <1>1 DEF Kept
    <3> QED
      BY <1>2, <2>2, <3>1
  <2> QED
    BY <1>2, <2>1, <2>2
<1>5. Kept(k, l, Len(p))
  <2> SUFFICES ASSUME NEW i \in 1..Len(k)
               PROVE  \E j \in 1..Len(l) : i + Len(p) <= j /\ l[j].buf = k[i].buf
    BY DEF Kept
  <2>1. PICK j \in 1..Len(l) : i + 1 + Len(dn) <= j /\ l[j].buf = q[i + 1].buf
    BY <1>1 DEF Kept
  <2> QED
    BY <1>1, <1>2, <1>3, <2>1
<1> QED
  BY <1>4, <1>5 DEF p, k

LEMMA KeptDequeue ==
    ASSUME NEW dn \in Seq(RxBuf), NEW q \in Seq(RxBuf), NEW l \in Buffers,
           Kept(dn, l, 0), Kept(q, l, Len(dn)), dn # <<>>
    PROVE  /\ l # <<>>
           /\ Kept(Tail(dn), Tail(l), 0)
           /\ Kept(q, Tail(l), Len(Tail(dn)))
<1> DEFINE m == Tail(l)
           k == Tail(dn)
<1>1. /\ \A i \in 1..Len(k) : k[i] = dn[i + 1] /\ i + 1 \in 1..Len(dn)
      /\ 1 \in 1..Len(dn) /\ Len(k) = Len(dn) - 1 /\ Len(dn) \in Nat
  BY HeadFacts
<1>2. l # <<>>
  <2>1. PICK j \in 1..Len(l) : 1 <= j
    BY <1>1 DEF Kept
  <2> QED
    BY <2>1
<1>3. /\ \A j \in 1..Len(l) : j = 1 \/ j - 1 \in 1..Len(m)
      /\ \A j \in 1..Len(m) : m[j] = l[j + 1]
      /\ Len(m) \in Nat /\ Len(l) \in Nat
  BY <1>2, HeadFacts DEF Buffers
<1> HIDE DEF m, k
<1>4. Kept(k, m, 0)
  <2> SUFFICES ASSUME NEW i \in 1..Len(k)
               PROVE  \E j \in 1..Len(m) : i + 0 <= j /\ m[j].buf = k[i].buf
    BY DEF Kept
  <2>1. PICK j \in 1..Len(l) : i + 1 + 0 <= j /\ l[j].buf = dn[i + 1].buf
    BY <1>1 DEF Kept
  <2>2. j - 1 \in 1..Len(m) /\ m[j - 1] = l[j] /\ i + 0 <= j - 1
    BY <1>1, <1>3, <2>1, SMTT(30)
  <2> QED
    BY <1>1, <2>1, <2>2
<1>5. Kept(q, m, Len(k))
  <2> SUFFICES ASSUME NEW i \in 1..Len(q)
               PROVE  \E j \in 1..Len(m) : i + Len(k) <= j /\ m[j].buf = q[i].buf
    BY DEF Kept
  <2>1. PICK j \in 1..Len(l) : i + Len(dn) <= j /\ l[j].buf = q[i].buf
    BY DEF Kept
  <2>2. j - 1 \in 1..Len(m) /\ m[j - 1] = l[j] /\ i + Len(k) <= j - 1
    BY <1>1, <1>3, <2>1, SMTT(30)
  <2> QED
    BY <2>1, <2>2
<1> QED
  BY <1>2, <1>4, <1>5 DEF m, k

LEMMA CoveredInvariant == Inv /\ [Next]_vars => Covered'
<1> SUFFICES ASSUME Inv, [Next]_vars PROVE Covered'
  OBVIOUS
<1> USE DEF capture, tx, rx, analysis, history
<1>1. TypeOK /\ Ordered /\ Cached /\ Fed /\ Covered
  BY DEF Inv
<1>2. /\ isp \in Seq(Frames)
      /\ \A d \in Devs : /\ rxq[d] \in Seq(RxBuf) /\ rxdone[d] \in Seq(RxBuf)
                         /\ rxlist[d] \in Buffers
      /\ rxdone \in [Devs -> Seq(RxBuf)] /\ rxlist \in [Devs -> Buffers]
  BY <1>1 DEF TypeOK, Buffers
<1>3. ASSUME IspRead PROVE Covered'
  <2>1. /\ isp # <<>> /\ unqueued' = unqueued /\ rxlist' = rxlist
        /\ \A d \in Devs : /\ rxq'[d] = Tail(rxq[d])
                           /\ rxdone'[d] = Append(rxdone[d], Head(rxq[d]))
    BY <1>3 DEF IspRead
  <2>2. Len(isp) \in Nat \ {0}
    BY <1>2, <2>1, HeadFacts
  <2>3. \A d \in Devs : rxq[d] # <<>>
    BY <1>1, <1>2, <2>2 DEF Fed
  <2>4. ASSUME NEW d \in Devs, ~unqueued
        PROVE  /\ Kept(Append(rxdone[d], Head(rxq[d])), rxlist[d], 0)
               /\ Kept(Tail(rxq[d]), rxlist[d], Len(Append(rxdone[d], Head(rxq[d]))))
    <3>1. Kept(rxdone[d], rxlist[d], 0) /\ Kept(rxq[d], rxlist[d], Len(rxdone[d]))
      BY <1>1, <2>4 DEF Covered
    <3> QED
      BY <1>2, <2>3, <3>1, KeptRead
  <2> QED
    BY <2>1, <2>4 DEF Covered
<1>4. ASSUME NEW d \in Devs, RxDequeue(d) PROVE Covered'
  <2> SUFFICES ASSUME ~unqueued', NEW e \in Devs
               PROVE  /\ Kept(rxdone'[e], rxlist'[e], 0)
                      /\ Kept(rxq'[e], rxlist'[e], Len(rxdone'[e]))
    BY DEF Covered
  <2>1. ~unqueued /\ rxq' = rxq /\ rxdone[d] # <<>>
    BY <1>4 DEF RxDequeue
  <2>2. Kept(rxdone[e], rxlist[e], 0) /\ Kept(rxq[e], rxlist[e], Len(rxdone[e]))
    BY <1>1, <2>1 DEF Covered
  <2>3. CASE e = d
    <3>1. /\ rxlist[d] # <<>>
          /\ Kept(Tail(rxdone[d]), Tail(rxlist[d]), 0)
          /\ Kept(rxq[d], Tail(rxlist[d]), Len(Tail(rxdone[d])))
      BY <1>2, <2>1, <2>2, <2>3, KeptDequeue
    <3>2. rxdone'[d] = Tail(rxdone[d]) /\ rxlist'[d] = Tail(rxlist[d])
      BY <1>2, <1>4, <3>1 DEF RxDequeue
    <3> QED
      BY <2>1, <2>3, <3>1, <3>2
  <2>4. CASE e # d
    <3>1. rxdone'[e] = rxdone[e] /\ rxlist'[e] = rxlist[e]
      BY <1>2, <1>4, <2>4 DEF RxDequeue
    <3> QED
      BY <2>1, <2>2, <3>1
  <2> QED
    BY <2>3, <2>4
<1>5. ASSUME NEW f \in Frames, Popped(f) PROVE Covered'
  <2> SUFFICES ASSUME ~unqueued', NEW d \in Devs
               PROVE  /\ Kept(rxdone'[d], rxlist'[d], 0)
                      /\ Kept(rxq'[d], rxlist'[d], Len(rxdone'[d]))
    BY DEF Covered
  <2>1. ~unqueued
    BY <1>5 DEF Popped
  <2>2. Kept(rxdone[d], rxlist[d], 0) /\ Kept(rxq[d], rxlist[d], Len(rxdone[d]))
    BY <1>1, <2>1 DEF Covered
  <2>3. rxdone' = rxdone /\ Len(rxdone[d]) \in Nat /\ Head(cache[d]) \in TxBuf
    BY <1>1, <1>2, <1>5, PoppedQueues
  <2>4. \/ rxlist'[d] = Append(rxlist[d], Head(cache[d]))
        \/ rxlist'[d] = rxlist[d] /\ rxq'[d] = rxq[d]
    BY <1>1, <1>5, PoppedQueues
  <2>5. \/ rxq'[d] = rxq[d]
        \/ \E b \in RxBuf : b.buf = Head(cache[d]).buf /\ rxq'[d] = Append(rxq[d], b)
    BY <1>1, <1>5, PoppedQueues
  <2>6. CASE rxlist'[d] = rxlist[d] /\ rxq'[d] = rxq[d]
    BY <2>2, <2>3, <2>6
  <2>7. CASE rxlist'[d] = Append(rxlist[d], Head(cache[d])) /\ rxq'[d] = rxq[d]
    BY <1>2, <2>2, <2>3, <2>7, KeptAppend
  <2>8. ASSUME rxlist'[d] = Append(rxlist[d], Head(cache[d])),
               NEW b \in RxBuf, b.buf = Head(cache[d]).buf, rxq'[d] = Append(rxq[d], b)
        PROVE  /\ Kept(rxdone'[d], rxlist'[d], 0)
               /\ Kept(rxq'[d], rxlist'[d], Len(rxdone'[d]))
    BY <1>2, <2>2, <2>3, <2>8, KeptQueue
  <2> QED
    BY <2>4, <2>5, <2>6, <2>7, <2>8
<1>6. ASSUME UNCHANGED <<rxq, rxdone, rxlist, unqueued>> PROVE Covered'
  BY <1>1, <1>6 DEF Covered
<1>7. ASSUME TriggerReadback PROVE Covered'
  BY <1>1, <1>5, <1>6, <1>7, TriggerEffect
<1>8. ASSUME StopStart PROVE Covered'
  <2>1. \A d \in Devs : rxq'[d] = <<>> /\ rxdone'[d] = <<>>
    BY <1>8 DEF StopStart, Empty
  <2> QED
    BY <2>1 DEF Covered, Kept
<1> QED
  BY <1>3, <1>4, <1>6, <1>7, <1>8, RxUntouched

-----------------------------------------------------------------------------
(* The window of a mirror/flip call. *)

\* The frames of s that are not older than a are not older than b.
Beyond(s, a, b) == \A i \in 1..Len(s) : a <= s[i].seq => b <= s[i].seq

LEMMA BeyondTail ==
    ASSUME NEW s \in Buffers, s # <<>>, NEW a \in Nat, NEW b \in Nat, Beyond(s, a, b)
    PROVE  /\ Beyond(Tail(s), a, b)
           /\ a <= Head(s).seq => b <= Head(s).seq
BY HeadFacts DEF Beyond, Buffers

LEMMA BeyondAppend ==
    ASSUME NEW s \in Buffers, NEW e \in TxBuf, NEW a \in Nat, NEW b \in Nat,
           Beyond(s, a, b), a <= e.seq => b <= e.seq
    PROVE  Beyond(Append(s, e), a, b)
BY AppendFacts DEF Beyond, Buffers

\* Window for one device.
WindowOf(d) ==
    /\ Skips = 0 \/ skip.from + Skips <= captured[d] + 1
    /\ Beyond(txlist[d], skip.from, skip.from + Skips)
    /\ Beyond(filled[d], skip.from, skip.from + Skips)

LEMMA WindowInvariant == Inv /\ [Next]_vars => Window'
<1> SUFFICES ASSUME Inv, [Next]_vars PROVE Window'
  OBVIOUS
<1> USE DEF capture, tx, rx, analysis, history
<1>1. TypeOK /\ Ordered /\ Window
  BY DEF Inv
<1>2. /\ \A d \in Devs : /\ filled[d] \in Buffers /\ txlist[d] \in Buffers
                         /\ captured[d] \in Nat
      /\ filled \in [Devs -> Buffers] /\ txlist \in [Devs -> Buffers]
      /\ captured \in [Devs -> 0..MaxSeq]
      /\ skip.num \in Nat /\ skip.from \in Nat /\ skip.to \in Nat /\ skip.old \in Nat
      /\ skip \in [num : 0..MaxFlip, from : 0..MaxSeq, to : 0..MaxSeq + MaxFlip,
                   old : 0..MaxFlip]
  BY <1>1, HdrAssumption DEF TypeOK, Buffers
<1>3. /\ Skips \in Nat /\ skip.from + Skips \in Nat
      /\ skip.old = 0 => \A d \in Devs : WindowOf(d)
  BY <1>1, <1>2 DEF Window, WindowOf, Beyond, Skips
<1>4. ASSUME skip' = skip, skip.old = 0 => \A d \in Devs : WindowOf(d)' PROVE Window'
  <2>1. Skips' = Skips
    BY <1>4 DEF Skips
  <2> QED
    BY <1>1, <1>4, <2>1 DEF Window, WindowOf, Beyond
<1>5. ASSUME NEW d \in Devs, Capture(d) PROVE Window'
  <2>1. skip' = skip /\ txlist' = txlist /\ Skips' = Skips
    BY <1>5 DEF Capture, Skips
  <2>2. /\ captured'[d] = captured[d] + 1 /\ captured[d] + 1 \in Frames
        /\ \A e \in Devs \ {d} : captured'[e] = captured[e]
    BY <1>1, <1>2, <1>5, HdrAssumption, SMTT(30) DEF TypeOK, Capture, Frames
  <2>3. \/ filled' = filled
        \/ \E b \in TxBuf : b.seq = captured[d] + 1
                            /\ filled' = [filled EXCEPT ![d] = Append(@, b)]
    <3>1. CASE Free(d) = {}
      BY <1>5, <3>1 DEF Capture
    <3>2. CASE Free(d) # {}
      <4>1. PICK b \in Free(d) : filled' = [filled EXCEPT
                    ![d] = Append(@, [seq |-> captured'[d], buf |-> b])]
        BY <1>5, <3>2 DEF Capture
      <4>2. [seq |-> captured'[d], buf |-> b] \in TxBuf
        BY <2>2 DEF TxBuf, Free
      <4> QED
        BY <2>2, <4>1, <4>2
    <3> QED
      BY <3>1, <3>2
  <2>4. ASSUME NEW e \in Devs, WindowOf(e)
        PROVE  WindowOf(e)'
    <3>1. Skips = 0 \/ skip.from + Skips <= captured[e] + 1
      BY <2>4 DEF WindowOf
    <3>2. Skips = 0 \/ skip.from + Skips <= captured'[e] + 1
      BY <1>2, <1>3, <2>2, <3>1
    <3>3. Beyond(filled'[e], skip.from, skip.from + Skips)
      <4>1. CASE filled'[e] = filled[e]
        BY <2>4, <4>1 DEF WindowOf
      <4>2. ASSUME NEW b \in TxBuf, b.seq = captured[e] + 1,
                   filled'[e] = Append(filled[e], b)
            PROVE  Beyond(filled'[e], skip.from, skip.from + Skips)
        <5>1. skip.from <= b.seq => skip.from + Skips <= b.seq
          BY <1>2, <1>3, <3>1, <4>2
        <5> QED
          BY <1>2, <1>3, <2>4, <4>2, <5>1, BeyondAppend DEF WindowOf
      <4>3. \/ filled'[e] = filled[e]
            \/ \E b \in TxBuf : b.seq = captured[e] + 1 /\ filled'[e] = Append(filled[e], b)
        BY <1>2, <2>3
      <4> QED
        BY <4>1, <4>2, <4>3
    <3> QED
      BY <2>1, <2>4, <3>2, <3>3 DEF WindowOf
  <2> QED
    BY <1>3, <1>4, <2>1, <2>4
<1>6. ASSUME NEW d \in Devs, TxPush(d) PROVE Window'
  <2>1. /\ filled[d] # <<>> /\ filled'[d] = Tail(filled[d])
        /\ txlist'[d] = Append(txlist[d], Head(filled[d]))
        /\ \A e \in Devs \ {d} : filled'[e] = filled[e] /\ txlist'[e] = txlist[e]
        /\ skip' = skip /\ captured' = captured /\ Skips' = Skips
    BY <1>2, <1>6 DEF TxPush, Skips
  <2>2. Head(filled[d]) \in TxBuf
    BY <1>2, <2>1, HeadFacts DEF Buffers
  <2>3. ASSUME WindowOf(d) PROVE WindowOf(d)'
    <3>1. /\ Beyond(Tail(filled[d]), skip.from, skip.from + Skips)
          /\ skip.from <= Head(filled[d]).seq => skip.from + Skips <= Head(filled[d]).seq
      BY <1>2, <1>3, <2>1, <2>3, BeyondTail DEF WindowOf
    <3>2. Beyond(Append(txlist[d], Head(filled[d])), skip.from, skip.from + Skips)
      BY <1>2, <1>3, <2>2, <2>3, <3>1, BeyondAppend DEF WindowOf
    <3> QED
      BY <2>1, <2>3, <3>1, <3>2 DEF WindowOf
  <2>4. ASSUME NEW e \in Devs \ {d}, WindowOf(e) PROVE WindowOf(e)'
    BY <2>1, <2>4 DEF WindowOf
  <2> QED
    BY <1>3, <1>4, <2>1, <2>3, <2>4
<1>7. ASSUME NEW d \in Devs, SyncSkip(d) PROVE Window'
  <2> DEFINE f == Head(txlist[d]).seq
  <2>1. Complete /\ skip.num > 0
    BY <1>7 DEF SyncSkip, Skipped
  <2>2. /\ \A e \in Devs : txlist[e] # <<>> /\ Head(txlist[e]).seq = f
        /\ f \in Nat
    BY <1>1, <2>1, HeadsAgree, HdrAssumption DEF TxBuf, Frames
  <2>3. /\ skip'.num = skip.num - 1 /\ skip'.from = skip.from /\ skip'.to = skip.to
        /\ skip'.old = IF f < skip.from THEN skip.old + 1 ELSE skip.old
    BY <1>2, <1>7 DEF SyncSkip
  <2>4. captured' = captured /\ filled' = filled /\ \A e \in Devs : txlist'[e] = Tail(txlist[e])
    BY <1>7 DEF SyncSkip
  <2> HIDE DEF f
  <2>5. Skips' = Skips + 1
    BY <1>2, <2>3 DEF Skips
  <2>6. ASSUME skip'.old = 0, NEW e \in Devs PROVE WindowOf(e)'
    <3>1. skip.old = 0 /\ skip.from <= f
      BY <1>2, <2>2, <2>3, <2>6
    <3>2. Streamed(cache[e], txlist[e], filled[e], captured[e]) /\ WindowOf(e)
      BY <1>1, <1>3, <3>1 DEF Ordered
    <3>3. skip.from + Skips <= f
      BY <1>2, <1>3, <2>2, <3>1, <3>2, BeyondTail DEF WindowOf
    <3>4. /\ f <= captured[e]
          /\ \A i \in 1..Len(Tail(txlist[e])) : f < Tail(txlist[e])[i].seq
          /\ \A i \in 1..Len(filled[e]) : f < filled[e][i].seq
      BY <1>2, <2>2, <3>2, TailOrder, SMTT(30) DEF Streamed
    <3>5. skip.from + (Skips + 1) <= captured[e] + 1
      BY <1>2, <1>3, <2>2, <3>3, <3>4
    <3>6. Beyond(Tail(txlist[e]), skip.from, skip.from + (Skips + 1))
      <4>1. Tail(txlist[e]) \in Buffers
        BY <1>2, <2>2, HeadFacts DEF Buffers
      <4>2. ASSUME NEW i \in 1..Len(Tail(txlist[e]))
            PROVE  skip.from + (Skips + 1) <= Tail(txlist[e])[i].seq
        <5>1. Tail(txlist[e])[i].seq \in Nat /\ f < Tail(txlist[e])[i].seq
          BY <3>4, <4>1, SeqTyped
        <5> QED
          BY <1>2, <1>3, <2>2, <3>3, <5>1, SMTT(30)
      <4> QED
        BY <4>2 DEF Beyond
    <3>7. Beyond(filled[e], skip.from, skip.from + (Skips + 1))
      <4>1. ASSUME NEW i \in 1..Len(filled[e])
            PROVE  skip.from + (Skips + 1) <= filled[e][i].seq
        <5>1. filled[e][i].seq \in Nat /\ f < filled[e][i].seq
          BY <1>2, <3>4, SeqTyped
        <5> QED
          BY <1>2, <1>3, <2>2, <3>3, <5>1, SMTT(30)
      <4> QED
        BY <4>1 DEF Beyond
    <3> QED
      BY <2>3, <2>4, <2>5, <3>5, <3>6, <3>7 DEF WindowOf
  <2>7. /\ skip.from <= skip.to /\ 0 <= Skips /\ skip.to - skip.from <= MaxFlip
        /\ skip.old <= Skips
    BY <1>1 DEF Window
  <2>8. /\ skip'.from <= skip'.to /\ 0 <= Skips' /\ skip'.to - skip'.from <= MaxFlip
        /\ skip'.old <= Skips'
    BY <1>2, <1>3, <2>3, <2>5, <2>7
  <2> QED
    BY <2>6, <2>8 DEF Window, WindowOf, Beyond
<1>8. ASSUME NEW d \in Devs, SyncMatch(d) PROVE Window'
  <2>1. \A e \in Devs : txlist[e] # <<>>
    BY <1>8 DEF SyncMatch, Complete
  <2>2. /\ captured' = captured /\ filled' = filled /\ skip' = skip /\ Skips' = Skips
        /\ \A e \in Devs : txlist'[e] = Tail(txlist[e])
    BY <1>8 DEF SyncMatch, Skips
  <2>3. ASSUME NEW e \in Devs, WindowOf(e) PROVE WindowOf(e)'
    <3>1. Beyond(Tail(txlist[e]), skip.from, skip.from + Skips)
      BY <1>2, <1>3, <2>1, <2>3, BeyondTail DEF WindowOf
    <3> QED
      BY <2>2, <2>3, <3>1 DEF WindowOf
  <2> QED
    BY <1>3, <1>4, <2>2, <2>3
<1>9. ASSUME NEW n \in 1..MaxFlip, SkipFrames(n) PROVE Window'
  <2>1. PICK s \in 0..MaxSeq : skip' = [num |-> n, from |-> s, to |-> s + n, old |-> 0]
    BY <1>9 DEF SkipFrames
  <2>2. captured' = captured /\ filled' = filled /\ txlist' = txlist
    BY <1>9 DEF SkipFrames
  <2>3. Skips' = 0 /\ skip'.from = s /\ skip'.to = s + n /\ skip'.old = 0 /\ s \in Nat
        /\ n \in Nat /\ n <= MaxFlip
    BY <2>1, HdrAssumption DEF Skips
  <2>4. \A e \in Devs : WindowOf(e)'
    BY <2>3 DEF WindowOf, Beyond
  <2> QED
    BY <2>3, <2>4, HdrAssumption DEF Window, WindowOf, Beyond
<1>10. ASSUME StopStart PROVE Window'
  <2>1. \A d \in Devs : txlist'[d] = <<>> /\ filled'[d] = <<>>
    BY <1>10 DEF StopStart, Empty
  <2>2. skip' = NoSkip /\ Skips' = 0
    BY <1>10 DEF StopStart, NoSkip, Skips
  <2> QED
    BY <2>1, <2>2, HdrAssumption DEF Window, NoSkip
<1>11. CASE UNCHANGED <<skip, txlist, filled, captured>>
  <2>1. Skips' = Skips
    BY <1>11 DEF Skips
  <2> QED
    BY <1>1, <1>11, <2>1 DEF Window
<1>12. ASSUME NEW d \in Devs, SyncNothing(d) \/ MarkReady(d) \/ TxTrigger(d)
                              \/ RxDequeue(d) \/ RxReturn(d)
       PROVE  UNCHANGED <<skip, txlist, filled, captured>>
  BY <1>12 DEF SyncNothing, MarkReady, TxTrigger, RxDequeue, RxReturn
<1>13. ASSUME LumaThread \/ IspRead \/ UNCHANGED vars
       PROVE  UNCHANGED <<skip, txlist, filled, captured>>
  BY <1>13 DEF LumaThread, LumaTrigger, LumaInfo, IspRead, vars
<1> QED
  BY <1>5, <1>6, <1>7, <1>8, <1>9, <1>10, <1>11, <1>12, <1>13
     DEF Next, TxThread, RxThread

-----------------------------------------------------------------------------
(* The life of a frame. *)

\* Past for the frame f.
Behind(f) ==
    /\ \A d \in Devs :
          /\ f <= captured[d]
          /\ \A i \in 1..Len(txlist[d]) : f < txlist[d][i].seq
          /\ \A i \in 1..Len(filled[d]) : f < filled[d][i].seq
    /\ \A t \in Devs : txpc[t] = "mark" => f < Marking(t)

\* A frame that no device will deliver any more stays so.
LEMMA BehindStays ==
    ASSUME Inv, [Next]_vars, ~StopStart, NEW f \in Frames, Behind(f)
    PROVE  Behind(f)'
<1> USE DEF capture, tx, rx, analysis, history
<1>1. TypeOK /\ OneInside /\ Ordered /\ Cached /\ Past
  BY DEF Inv
<1>2. /\ \A d \in Devs : /\ filled[d] \in Buffers /\ txlist[d] \in Buffers
                         /\ captured[d] \in Nat
                         /\ cache[d] \in Buffers
      /\ filled \in [Devs -> Buffers] /\ txlist \in [Devs -> Buffers]
      /\ captured \in [Devs -> 0..MaxSeq]
      /\ txpc \in [Devs -> {"poll", "sync", "mark", "trigger"}]
      /\ f \in Nat
  BY <1>1, HdrAssumption DEF TypeOK, Buffers, Frames
<1>3. ASSUME UNCHANGED <<captured, filled, txlist>>,
             \A t \in Devs : txpc'[t] = "mark" => txpc[t] = "mark" /\ Marking(t)' = Marking(t)
      PROVE  Behind(f)'
  BY <1>3 DEF Behind
<1>4. ASSUME NEW d \in Devs, Capture(d) PROVE Behind(f)'
  <2>1. /\ captured'[d] = captured[d] + 1 /\ captured[d] + 1 \in Frames
        /\ \A e \in Devs \ {d} : captured'[e] = captured[e]
        /\ txlist' = txlist /\ txpc' = txpc /\ cache' = cache
    BY <1>1, <1>2, <1>4, HdrAssumption, SMTT(30) DEF TypeOK, Capture, Frames
  <2>2. \/ filled' = filled
        \/ \E b \in TxBuf : b.seq = captured[d] + 1
                            /\ filled' = [filled EXCEPT ![d] = Append(@, b)]
    <3>1. CASE Free(d) = {}
      BY <1>4, <3>1 DEF Capture
    <3>2. CASE Free(d) # {}
      <4>1. PICK b \in Free(d) : filled' = [filled EXCEPT
                    ![d] = Append(@, [seq |-> captured'[d], buf |-> b])]
        BY <1>4, <3>2 DEF Capture
      <4>2. [seq |-> captured'[d], buf |-> b] \in TxBuf
        BY <2>1 DEF TxBuf, Free
      <4> QED
        BY <2>1, <4>1, <4>2
    <3> QED
      BY <3>1, <3>2
  <2>3. ASSUME NEW e \in Devs PROVE f <= captured'[e]
    BY <1>2, <2>1, SMTT(30) DEF Behind
  <2>4. ASSUME NEW e \in Devs, NEW i \in 1..Len(filled'[e]) PROVE f < filled'[e][i].seq
    <3>1. CASE filled'[e] = filled[e]
      BY <2>4, <3>1 DEF Behind
    <3>2. ASSUME NEW b \in TxBuf, b.seq = captured[e] + 1,
                 filled'[e] = Append(filled[e], b)
          PROVE  f < filled'[e][i].seq
      <4>1. (i \in 1..Len(filled[e]) /\ filled'[e][i] = filled[e][i]) \/ filled'[e][i] = b
        BY <1>2, <2>4, <3>2, AppendFacts DEF Buffers
      <4>2. f < b.seq
        BY <1>2, <3>2 DEF Behind
      <4> QED
        BY <4>1, <4>2 DEF Behind
    <3>3. \/ filled'[e] = filled[e]
          \/ \E b \in TxBuf : b.seq = captured[e] + 1 /\ filled'[e] = Append(filled[e], b)
      BY <1>2, <2>2
    <3> QED
      BY <3>1, <3>2, <3>3
  <2> QED
    BY <2>1, <2>3, <2>4 DEF Behind, Marking
<1>5. ASSUME NEW d \in Devs, TxPush(d) PROVE Behind(f)'
  <2>1. /\ filled[d] # <<>> /\ filled'[d] = Tail(filled[d])
        /\ txlist'[d] = Append(txlist[d], Head(filled[d]))
        /\ \A e \in Devs \ {d} : filled'[e] = filled[e] /\ txlist'[e] = txlist[e]
        /\ captured' = captured /\ cache' = cache
        /\ \A t \in Devs : txpc'[t] = "mark" => txpc[t] = "mark"
    BY <1>2, <1>5 DEF TxPush
  <2>2. /\ Head(filled[d]) \in TxBuf /\ Head(filled[d]) = filled[d][1]
        /\ 1 \in 1..Len(filled[d])
        /\ \A i \in 1..Len(Tail(filled[d])) : Tail(filled[d])[i] = filled[d][i + 1]
              /\ i + 1 \in 1..Len(filled[d])
    BY <1>2, <2>1, HeadFacts DEF Buffers
  <2>3. \A i \in 1..Len(filled'[d]) : f < filled'[d][i].seq
    BY <2>1, <2>2 DEF Behind
  <2>4. \A i \in 1..Len(txlist'[d]) : f < txlist'[d][i].seq
    <3> TAKE i \in 1..Len(txlist'[d])
    <3>1. \/ i \in 1..Len(txlist[d]) /\ txlist'[d][i] = txlist[d][i]
          \/ txlist'[d][i] = Head(filled[d])
      BY <1>2, <2>1, <2>2, AppendFacts DEF Buffers
    <3> QED
      BY <2>2, <3>1 DEF Behind
  <2> QED
    BY <2>1, <2>3, <2>4 DEF Behind, Marking
<1>6. ASSUME \A e \in Devs : txlist[e] # <<>> /\ txlist'[e] = Tail(txlist[e])
      PROVE  \A e \in Devs : /\ f < Head(txlist[e]).seq
                             /\ \A i \in 1..Len(txlist'[e]) : f < txlist'[e][i].seq
  <2> TAKE e \in Devs
  <2>1. /\ Head(txlist[e]) = txlist[e][1] /\ 1 \in 1..Len(txlist[e])
        /\ \A i \in 1..Len(Tail(txlist[e])) : Tail(txlist[e])[i] = txlist[e][i + 1]
              /\ i + 1 \in 1..Len(txlist[e])
    BY <1>2, <1>6, HeadFacts DEF Buffers
  <2>2. f < Head(txlist[e]).seq
    BY <1>6, <2>1, SMTT(30) DEF Behind
  <2>3. ASSUME NEW i \in 1..Len(txlist'[e]) PROVE f < txlist'[e][i].seq
    <3>1. txlist'[e][i] = txlist[e][i + 1] /\ i + 1 \in 1..Len(txlist[e])
      BY <1>6, <2>1
    <3> QED
      BY <3>1 DEF Behind
  <2> QED
    BY <2>2, <2>3
<1>7. ASSUME NEW d \in Devs, SyncSkip(d) PROVE Behind(f)'
  <2>1. /\ \A e \in Devs : txlist[e] # <<>> /\ txlist'[e] = Tail(txlist[e])
        /\ captured' = captured /\ filled' = filled /\ cache' = cache
        /\ \A t \in Devs : txpc'[t] = "mark" => txpc[t] = "mark"
    BY <1>2, <1>7 DEF SyncSkip, Complete
  <2> QED
    BY <1>6, <2>1 DEF Behind, Marking
<1>8. ASSUME NEW d \in Devs, SyncMatch(d) PROVE Behind(f)'
  <2>1. /\ \A e \in Devs : txlist[e] # <<>> /\ txlist'[e] = Tail(txlist[e])
        /\ captured' = captured /\ filled' = filled
        /\ \A t \in Devs : txpc'[t] = "mark" => t = d
        /\ cache'[d] = Append(cache[d], Head(txlist[d]))
        /\ Complete
    BY <1>2, <1>8 DEF SyncMatch, Complete, SyncFree
  <2>2. Head(txlist[d]) \in TxBuf
    BY <1>1, <2>1, HeadsAgree
  <2>3. Marking(d)' = Head(txlist[d]).seq
    BY <1>2, <2>1, <2>2, AppendFacts DEF Marking, Buffers
  <2> QED
    BY <1>6, <2>1, <2>3 DEF Behind
<1>9. ASSUME NEW d \in Devs, SyncNothing(d) PROVE Behind(f)'
  BY <1>2, <1>3, <1>9 DEF SyncNothing, Marking
<1>10. ASSUME NEW d \in Devs, MarkReady(d) PROVE Behind(f)'
  BY <1>2, <1>3, <1>10 DEF MarkReady, Marking
<1>11. ASSUME TriggerReadback, UNCHANGED <<captured, filled, txlist>>,
              \A t \in Devs : txpc'[t] = "mark" => txpc[t] = "mark"
       PROVE  Behind(f)'
  <2>1. CASE cache' = cache
    BY <1>3, <1>11, <2>1 DEF Marking
  <2>2. CASE \E g \in Frames : Popped(g)
    <3>1. \A t \in Devs : txpc[t] = "mark" => Last(cache'[t]) = Last(cache[t])
      BY <1>1, <2>2, PoppedCache
    <3> QED
      BY <1>3, <1>11, <3>1 DEF Marking
  <2> QED
    BY <1>1, <1>11, <2>1, <2>2, TriggerEffect
<1>12. ASSUME NEW d \in Devs, TxTrigger(d) PROVE Behind(f)'
  BY <1>2, <1>11, <1>12 DEF TxTrigger
<1>13. ASSUME LumaTrigger PROVE Behind(f)'
  BY <1>11, <1>13 DEF LumaTrigger
<1>14. ASSUME NEW d \in Devs, RxDequeue(d) \/ RxReturn(d) PROVE Behind(f)'
  BY <1>3, <1>14 DEF RxDequeue, RxReturn, Marking
<1>15. ASSUME NEW g \in Frames, LumaInfo(g) PROVE Behind(f)'
  BY <1>3, <1>15 DEF LumaInfo, Marking
<1>16. ASSUME NEW n \in 1..MaxFlip, SkipFrames(n) PROVE Behind(f)'
  BY <1>3, <1>16 DEF SkipFrames, Marking
<1>17. ASSUME IspRead \/ UNCHANGED vars PROVE Behind(f)'
  BY <1>3, <1>17 DEF IspRead, vars, Marking
<1> QED
  BY <1>4, <1>5, <1>7, <1>8, <1>9, <1>10, <1>12, <1>13, <1>14, <1>15, <1>16, <1>17
     DEF Next, TxThread, RxThread, LumaThread

\* What happens to the frames: the step that decides or readies f.
LEMMA FateStep ==
    ASSUME Inv, [Next]_vars
    PROVE  \/ StopStart
           \/ \E d \in Devs : SyncSkip(d)
           \/ \E d \in Devs : MarkReady(d)
           \/ \E f \in Frames : Popped(f) /\ ~StopStart
           \/ UNCHANGED <<ready, fate>>
<1> USE DEF capture, tx, rx, analysis, history
<1>1. TypeOK /\ Ordered /\ Cached
  BY DEF Inv
<1>2. ASSUME NEW d \in Devs, Capture(d) \/ TxPush(d) \/ SyncNothing(d) \/ SyncMatch(d)
                             \/ RxDequeue(d) \/ RxReturn(d)
      PROVE  UNCHANGED <<ready, fate>>
  BY <1>2 DEF Capture, TxPush, SyncNothing, SyncMatch, RxDequeue, RxReturn
<1>3. ASSUME NEW f \in Frames, LumaInfo(f) PROVE UNCHANGED <<ready, fate>>
  BY <1>3 DEF LumaInfo
<1>4. ASSUME NEW n \in 1..MaxFlip, SkipFrames(n) PROVE UNCHANGED <<ready, fate>>
  BY <1>4 DEF SkipFrames
<1>5. ASSUME IspRead \/ UNCHANGED vars PROVE UNCHANGED <<ready, fate>>
  BY <1>5 DEF IspRead, vars
<1>6. ASSUME LumaTrigger \/ \E d \in Devs : TxTrigger(d)
      PROVE  UNCHANGED <<ready, fate>> \/ \E f \in Frames : Popped(f)
  <2>1. TriggerReadback
    BY <1>6 DEF LumaTrigger, TxTrigger
  <2> QED
    BY <1>1, <2>1, TriggerEffect
<1> QED
  BY <1>2, <1>3, <1>4, <1>5, <1>6 DEF Next, TxThread, RxThread, LumaThread

\* A frame that sync_tx_buf skips is older than all that come later.
LEMMA SkippedFrame ==
    ASSUME Inv, NEW d \in Devs, SyncSkip(d), NEW f, f = Head(txlist[d]).seq
    PROVE  /\ f \in Frames
           /\ fate' = [fate EXCEPT ![f] = "dropped"] /\ ready' = ready
           /\ \A g \in Frames : g >= f => fate[g] = "none" /\ g \notin ready
           /\ Behind(f)'
<1> USE DEF capture, tx, rx, analysis, history
<1>1. TypeOK /\ Ordered /\ Past
  BY DEF Inv
<1>2. Complete /\ SyncFree
  BY DEF SyncSkip
<1>3. /\ \A e \in Devs : /\ txlist[e] # <<>> /\ txlist[e] \in Buffers
                         /\ filled[e] \in Buffers /\ captured[e] \in Nat
                         /\ Head(txlist[e]).seq = f
      /\ f \in Frames /\ Frames \subseteq Nat
  <2>1. /\ \A e \in Devs : txlist[e] # <<>> /\ txlist[e] \in Buffers
                           /\ Head(txlist[e]) \in TxBuf
        /\ \A e \in Devs : Head(txlist[e]).seq = f
    BY <1>1, <1>2, HeadsAgree
  <2>2. f \in Frames
    BY <2>1 DEF TxBuf
  <2>3. Frames \subseteq Nat
    BY HdrAssumption DEF Frames
  <2>4. ASSUME NEW e \in Devs PROVE filled[e] \in Buffers /\ captured[e] \in Nat
    BY <1>1, HdrAssumption DEF TypeOK, Buffers
  <2> QED
    BY <2>1, <2>2, <2>3, <2>4
<1>4. fate' = [fate EXCEPT ![f] = "dropped"] /\ ready' = ready
  BY DEF SyncSkip
<1>5. /\ captured' = captured /\ filled' = filled /\ \A e \in Devs : txlist'[e] = Tail(txlist[e])
      /\ txpc' = [txpc EXCEPT ![d] = "poll"]
  BY DEF SyncSkip
<1>6. txlist[d][1].seq = f /\ 1 \in 1..Len(txlist[d])
  BY <1>3, HeadFacts DEF Buffers
<1>7. ASSUME NEW g \in Frames, g >= f PROVE fate[g] = "none" /\ g \notin ready
  <2>1. SUFFICES ASSUME fate[g] # "none" \/ g \in ready PROVE FALSE
    OBVIOUS
  <2>2. \A i \in 1..Len(txlist[d]) : g < txlist[d][i].seq
    BY <1>1, <1>7, <2>1 DEF Past
  <2>3. g < f
    BY <1>6, <2>2
  <2> QED
    BY <1>3, <1>7, <2>3
<1>8. ASSUME NEW e \in Devs
      PROVE  /\ f <= captured[e]
             /\ \A i \in 1..Len(Tail(txlist[e])) : f < Tail(txlist[e])[i].seq
             /\ \A i \in 1..Len(filled[e]) : f < filled[e][i].seq
  <2>1. Streamed(cache[e], txlist[e], filled[e], captured[e])
    BY <1>1 DEF Ordered
  <2> QED
    BY <1>3, <2>1, TailOrder DEF Streamed
<1>9. \A t \in Devs : txpc'[t] # "mark"
  BY <1>1, <1>2, <1>5 DEF TypeOK, SyncFree
<1>10. Behind(f)'
  BY <1>5, <1>8, <1>9 DEF Behind
<1> QED
  BY <1>3, <1>4, <1>7, <1>10

\* So is one that it marks ready.
LEMMA MarkedFrame ==
    ASSUME Inv, NEW d \in Devs, MarkReady(d), NEW f, f = Marking(d)
    PROVE  /\ f \in Frames
           /\ fate' = fate /\ ready' = ready \cup {f}
           /\ \A g \in Frames : g >= f => fate[g] = "none" /\ g \notin ready
           /\ Behind(f)'
<1> USE DEF capture, tx, rx, analysis, history
<1>1. TypeOK /\ OneInside /\ Ordered /\ Cached /\ Past
  BY DEF Inv
<1>2. txpc[d] = "mark" /\ ready' = ready \cup {f} /\ fate' = fate
      /\ UNCHANGED <<captured, filled, txlist, cache>>
      /\ txpc' = [txpc EXCEPT ![d] = "trigger"]
  BY DEF MarkReady
<1>3. ASSUME NEW e \in Devs
      PROVE  /\ cache[e] \in Buffers /\ Len(cache[e]) \in 1..Len(cache[e])
             /\ cache[e][Len(cache[e])].seq = f
  <2>1. cache[e] # <<>> /\ Last(cache[e]).seq = f /\ cache[e] \in Buffers
    BY <1>1, <1>2 DEF Cached, TypeOK, Buffers
  <2>2. Len(cache[e]) \in 1..Len(cache[e])
    BY <2>1, HeadFacts DEF Buffers
  <2> QED
    BY <2>1, <2>2 DEF Last
<1>4. f \in Frames /\ Frames \subseteq Nat
  BY <1>3, SeqTyped, HdrAssumption DEF Frames
<1>5. ASSUME NEW e \in Devs
      PROVE  /\ f <= captured[e]
             /\ \A i \in 1..Len(txlist[e]) : f < txlist[e][i].seq
             /\ \A i \in 1..Len(filled[e]) : f < filled[e][i].seq
  <2>1. Streamed(cache[e], txlist[e], filled[e], captured[e])
    BY <1>1 DEF Ordered
  <2> QED
    BY <1>3, <2>1 DEF Streamed, Before, Below
<1>6. \A t \in Devs : txpc'[t] # "mark"
  BY <1>1, <1>2 DEF TypeOK, OneInside
<1>7. Behind(f)'
  BY <1>2, <1>5, <1>6 DEF Behind
<1>8. ASSUME NEW g \in Frames, g >= f PROVE fate[g] = "none" /\ g \notin ready
  BY <1>1, <1>2, <1>4, <1>8 DEF Past
<1> QED
  BY <1>2, <1>4, <1>7, <1>8

LEMMA PastInvariant == Inv /\ [Next]_vars => Past'
<1> SUFFICES ASSUME Inv, [Next]_vars PROVE Past'
  OBVIOUS
<1>1. TypeOK /\ Past
  BY DEF Inv
<1>2. \A f \in Frames : fate[f] # "none" \/ f \in ready => Behind(f)
  BY <1>1 DEF Past, Behind
<1>3. SUFFICES ASSUME NEW f \in Frames, fate'[f] # "none" \/ f \in ready'
               PROVE  Behind(f)'
  BY DEF Past, Behind
<1>4. CASE StopStart
  BY <1>3, <1>4 DEF StopStart
<1>5. CASE ~StopStart /\ (fate[f] # "none" \/ f \in ready)
  BY <1>2, <1>5, BehindStays
<1>6. ASSUME NEW d \in Devs, SyncSkip(d), ~(fate[f] # "none" \/ f \in ready)
      PROVE  Behind(f)'
  <2>1. PICK g : g = Head(txlist[d]).seq
    OBVIOUS
  <2>2. /\ g \in Frames /\ ready' = ready /\ fate' = [fate EXCEPT ![g] = "dropped"]
        /\ Behind(g)'
    BY <1>6, <2>1, SkippedFrame
  <2>3. f = g
    BY <1>1, <1>3, <1>6, <2>2 DEF TypeOK
  <2> QED
    BY <2>2, <2>3
<1>7. ASSUME NEW d \in Devs, MarkReady(d), ~(fate[f] # "none" \/ f \in ready)
      PROVE  Behind(f)'
  <2>1. PICK g : g = Marking(d)
    OBVIOUS
  <2>2. fate' = fate /\ ready' = ready \cup {g} /\ Behind(g)'
    BY <1>7, <2>1, MarkedFrame
  <2>3. f = g
    BY <1>3, <1>7, <2>2
  <2> QED
    BY <2>2, <2>3
<1>8. ASSUME NEW g \in Frames, Popped(g) PROVE fate[f] # "none" \/ f \in ready
  BY <1>1, <1>3, <1>8 DEF Popped, TypeOK
<1>9. ASSUME UNCHANGED <<ready, fate>> PROVE fate[f] # "none" \/ f \in ready
  BY <1>3, <1>9
<1> QED
  BY <1>4, <1>5, <1>6, <1>7, <1>8, <1>9, FateStep

LEMMA UndecidedInvariant == Inv /\ [Next]_vars => Undecided'
<1> SUFFICES ASSUME Inv, [Next]_vars PROVE Undecided'
  OBVIOUS
<1>1. TypeOK /\ Undecided
  BY DEF Inv
<1>2. SUFFICES ASSUME NEW f \in ready' PROVE fate'[f] = "none"
  BY DEF Undecided
<1>3. CASE StopStart
  BY <1>2, <1>3 DEF StopStart
<1>4. ASSUME NEW d \in Devs, SyncSkip(d) PROVE fate'[f] = "none"
  <2>1. PICK g : g = Head(txlist[d]).seq
    OBVIOUS
  <2>2. /\ g \in Frames /\ ready' = ready /\ fate' = [fate EXCEPT ![g] = "dropped"]
        /\ \A h \in Frames : h >= g => h \notin ready
    BY <1>4, <2>1, SkippedFrame
  <2>3. f \in ready /\ f # g
    BY <1>2, <2>2, HdrAssumption DEF Frames
  <2> QED
    BY <1>1, <2>2, <2>3 DEF Undecided, TypeOK
<1>5. ASSUME NEW d \in Devs, MarkReady(d) PROVE fate'[f] = "none"
  <2>1. PICK g : g = Marking(d)
    OBVIOUS
  <2>2. /\ g \in Frames /\ fate' = fate /\ ready' = ready \cup {g}
        /\ \A h \in Frames : h >= g => fate[h] = "none"
    BY <1>5, <2>1, MarkedFrame
  <2>3. fate[g] = "none"
    BY <2>2, HdrAssumption DEF Frames
  <2> QED
    BY <1>1, <1>2, <2>2, <2>3 DEF Undecided
<1>6. ASSUME NEW g \in Frames, Popped(g) PROVE fate'[f] = "none"
  <2>1. f \in ready /\ f # g /\ fate'[f] = fate[f]
    BY <1>1, <1>2, <1>6 DEF Popped, TypeOK
  <2> QED
    BY <1>1, <2>1 DEF Undecided
<1>7. CASE UNCHANGED <<ready, fate>>
  BY <1>1, <1>2, <1>7 DEF Undecided
<1> QED
  BY <1>3, <1>4, <1>5, <1>6, <1>7, FateStep

-----------------------------------------------------------------------------
(* The invariant, and what follows from it. *)

LEMMA InitInv == Init => Inv
<1> SUFFICES ASSUME Init PROVE Inv
  OBVIOUS
<1>1. TypeOK
  BY InitTyped
<1>2. /\ \A d \in Devs : /\ filled[d] = <<>> /\ txlist[d] = <<>> /\ cache[d] = <<>>
                         /\ rxq[d] = <<>> /\ rxdone[d] = <<>> /\ txpc[d] = "poll"
      /\ isp = <<>> /\ ready = {} /\ skip = NoSkip /\ captured = [d \in Devs |-> 0]
      /\ fate = [f \in Frames |-> "none"]
  BY DEF Init, Empty
<1>3. OneInside /\ Cached /\ Matched /\ Fed /\ Undecided /\ Past
  BY <1>2 DEF OneInside, Cached, Matched, Fed, Undecided, Past
<1>4. Ordered
  BY <1>2 DEF Ordered, Streamed, Rising, Before, Below
<1>5. SameExposure
  <2>1. \A d \in Devs : SeqsOf(rxq[d]) = isp
    <3> TAKE d \in Devs
    <3>1. rxq[d] \in Seq(RxBuf) /\ isp \in Seq(Frames)
      BY <1>1 DEF TypeOK
    <3>2. Carries(rxq[d], isp)
      BY <1>2 DEF Carries
    <3> QED
      BY <3>1, <3>2, CarriesMeaning
  <2> QED
    BY <2>1 DEF SameExposure
<1>6. Covered
  BY <1>2 DEF Covered, Kept
<1>7. Window
  BY <1>2, HdrAssumption DEF Window, NoSkip, Skips
<1> QED
  BY <1>1, <1>3, <1>4, <1>5, <1>6, <1>7 DEF Inv

LEMMA NextInv == Inv /\ [Next]_vars => Inv'
BY TypedInvariant, OneInsideInvariant, OrderedInvariant, CachedInvariant,
   MatchedInvariant, FedInvariant, SameExposureInvariant, CoveredInvariant,
   WindowInvariant, PastInvariant, UndecidedInvariant DEF Inv

LEMMA Invariance == Spec => []Inv
BY InitInv, NextInv, PTL DEF Spec

\* The lists hold buffers, frames and indices of the right kind, whatever is
\* refused: nothing is taken from an empty list.
THEOREM TypeCorrect == Spec => []TypeOK
<1>1. Inv => TypeOK
  BY DEF Inv
<1> QED
  BY <1>1, Invariance, PTL

\* The front of every cache belongs to the frame that trigger_readback reads.
THEOREM CacheMatchesReadyAlways == Spec => []CacheMatchesReady
<1>1. Inv => CacheMatchesReady
  <2> SUFFICES ASSUME Inv, ~missed, NEW d \in Devs
               PROVE  Rising(cache[d]) /\ {cache[d][i].seq : i \in DOMAIN cache[d]} = Marked
    BY DEF CacheMatchesReady
  <2>1. /\ cache[d] \in Buffers /\ Rising(cache[d]) /\ Cached /\ Matched
        /\ DOMAIN cache[d] = 1..Len(cache[d])
    BY DEF Inv, TypeOK, Ordered, Streamed, Buffers
  <2>2. ASSUME NEW f \in ready PROVE \E i \in 1..Len(cache[d]) : cache[d][i].seq = f
    BY <2>1 DEF Cached, Has
  <2>3. ASSUME NEW t \in Devs, txpc[t] = "mark"
        PROVE  \E i \in 1..Len(cache[d]) : cache[d][i].seq = Marking(t)
    <3>1. cache[d] # <<>> /\ Last(cache[d]).seq = Marking(t)
      BY <2>1, <2>3 DEF Cached
    <3>2. Len(cache[d]) \in 1..Len(cache[d])
      BY <2>1, <3>1, HeadFacts DEF Buffers
    <3> QED
      BY <3>1, <3>2 DEF Last
  <2>4. \A f \in Marked : \E i \in 1..Len(cache[d]) : cache[d][i].seq = f
    BY <2>2, <2>3 DEF Marked
  <2>5. \A i \in 1..Len(cache[d]) : cache[d][i].seq \in Marked
    BY <2>1 DEF Matched
  <2> QED
    BY <2>1, <2>4, <2>5
<1> QED
  BY <1>1, Invariance, PTL

\* The rx devices have the exposures of the frames triggered, in their order.
THEOREM SameExposureAlways == Spec => []SameExposure
<1>1. Inv => SameExposure
  BY DEF Inv
<1> QED
  BY <1>1, Invariance, PTL

\* No tx buffer that the ISP has yet to read is given back to capture.
THEOREM NoOverwriteAlways == Spec => []NoOverwrite
<1>1. Inv => NoOverwrite
  <2> SUFFICES ASSUME Inv, ~unqueued, NEW d \in Devs, NEW b \in BufsIn(rxq[d]), b \in Free(d)
               PROVE  FALSE
    BY DEF NoOverwrite
  <2>1. /\ Kept(rxq[d], rxlist[d], Len(rxdone[d]))
        /\ rxq[d] \in Seq(RxBuf) /\ rxlist[d] \in Seq(TxBuf)
    BY DEF Inv, Covered, TypeOK
  <2>2. PICK i \in 1..Len(rxq[d]) : rxq[d][i].buf = b
    BY <2>1 DEF BufsIn
  <2>3. PICK j \in 1..Len(rxlist[d]) : rxlist[d][j].buf = b
    BY <2>1, <2>2 DEF Kept
  <2>4. b \in BufsIn(rxlist[d])
    BY <2>1, <2>3 DEF BufsIn
  <2> QED
    BY <2>4 DEF Free
<1> QED
  BY <1>1, Invariance, PTL

\* A frame of the window is read only when older frames used up the skips.
THEOREM FlipWindowAlways == Spec => FlipWindow
<1> DEFINE Skipping ==
        \A f \in Frames :
            /\ \E d \in Devs : txpc[d] = "sync" /\ txpc'[d] = "mark" /\ Marking(d)' = f
            /\ skip.from <= f
            /\ f < skip.to
            => skip.old > 0
<1>1. Inv /\ [Next]_vars => Skipping
  <2> SUFFICES ASSUME Inv, [Next]_vars,
                      NEW f \in Frames, NEW d \in Devs,
                      txpc[d] = "sync", txpc'[d] = "mark", Marking(d)' = f,
                      skip.from <= f, f < skip.to, ~(skip.old > 0)
               PROVE  FALSE
    OBVIOUS
  <2> USE DEF capture, tx, rx, analysis, history
  <2>1. TypeOK /\ Window
    BY DEF Inv
  <2>2. SyncMatch(d)
    <3>1. txpc \in [Devs -> {"poll", "sync", "mark", "trigger"}]
      BY <2>1 DEF TypeOK
    <3>2. ASSUME NEW e \in Devs,
                 Capture(e) \/ TxPush(e) \/ SyncNothing(e) \/ SyncSkip(e) \/ MarkReady(e)
                 \/ TxTrigger(e) \/ RxDequeue(e) \/ RxReturn(e)
          PROVE  FALSE
      BY <3>1, <3>2 DEF Capture, TxPush, SyncNothing, SyncSkip, MarkReady, TxTrigger,
                        RxDequeue, RxReturn
    <3>3. ASSUME LumaThread \/ IspRead \/ StopStart \/ UNCHANGED vars
                 \/ \E n \in 1..MaxFlip : SkipFrames(n)
          PROVE  FALSE
      BY <3>3 DEF LumaThread, LumaTrigger, LumaInfo, IspRead, StopStart, SkipFrames, vars
    <3>4. ASSUME NEW e \in Devs, SyncMatch(e) PROVE e = d
      BY <3>1, <3>4 DEF SyncMatch
    <3> QED
      BY <3>2, <3>3, <3>4 DEF Next, TxThread, RxThread
  <2>3. Complete /\ ~Skipped(Head(txlist[d]).seq)
        /\ cache'[d] = Append(cache[d], Head(txlist[d]))
    BY <2>2 DEF SyncMatch
  <2>4. Head(txlist[d]) \in TxBuf /\ txlist[d] \in Buffers /\ txlist[d] # <<>>
    BY <2>1, <2>3, HeadsAgree
  <2>5. f = Head(txlist[d]).seq
    <3>1. cache[d] \in Seq(TxBuf)
      BY <2>1 DEF TypeOK
    <3> QED
      BY <2>3, <2>4, <3>1, AppendFacts DEF Marking
  <2>6. /\ skip.num \in Nat /\ skip.from \in Nat /\ skip.to \in Nat /\ skip.old \in Nat
        /\ f \in Nat
    BY <2>1, HdrAssumption DEF TypeOK, Frames
  <2>7. skip.num = 0 /\ skip.old = 0
    BY <2>3, <2>5, <2>6 DEF Skipped
  <2>8. Head(txlist[d]) = txlist[d][1] /\ 1 \in 1..Len(txlist[d])
    BY <2>4, HeadFacts DEF Buffers
  <2>9. skip.from + Skips <= f
    BY <2>1, <2>5, <2>7, <2>8 DEF Window
  <2> QED
    BY <2>6, <2>7, <2>9 DEF Skips
<1>2. Skipping => [Skipping]_vars
  OBVIOUS
<1> QED
  BY <1>1, <1>2, Invariance, PTL DEF Spec, FlipWindow

\* The frames are made ready, read and dropped as FrameLifecycle promises:
\* each once, in the order of their sequences.
THEOREM LifecycleRefined == Spec => LifecycleSpec
<1>1. Init => Lifecycle!Init
  BY DEF Init, Lifecycle!Init, stage
<1>2. Inv /\ Inv' /\ [Next]_vars => [Lifecycle!Next]_stage
  <2> SUFFICES ASSUME Inv, Inv', [Next]_vars PROVE Lifecycle!Next \/ stage' = stage
    OBVIOUS
  <2>1. TypeOK /\ Undecided /\ TypeOK' /\ Undecided'
    BY DEF Inv
  <2>2. CASE StopStart
    <3>1. fate' = [f \in Frames |-> "none"] /\ ready' = {}
      BY <2>2 DEF StopStart
    <3> QED
      BY <3>1 DEF stage, Lifecycle!Next, Lifecycle!Reset
  <2>3. ASSUME NEW d \in Devs, SyncSkip(d) PROVE Lifecycle!Next
    <3>1. PICK f : f = Head(txlist[d]).seq
      OBVIOUS
    <3>2. /\ f \in Frames /\ ready' = ready /\ fate' = [fate EXCEPT ![f] = "dropped"]
          /\ \A g \in Frames : g >= f => fate[g] = "none" /\ g \notin ready
      BY <2>3, <3>1, SkippedFrame
    <3>3. \A g \in Frames : g >= f => stage[g] = "new"
      BY <3>2 DEF stage
    <3>4. Lifecycle!Newest(f)
      BY <3>2, <3>3, HdrAssumption DEF Lifecycle!Newest, Frames
    <3>5. stage' = [stage EXCEPT ![f] = "dropped"]
      BY <2>1, <3>2 DEF stage, TypeOK
    <3> QED
      BY <3>2, <3>4, <3>5 DEF Lifecycle!Next, Lifecycle!Prepare
  <2>4. ASSUME NEW d \in Devs, MarkReady(d) PROVE Lifecycle!Next
    <3>1. PICK f : f = Marking(d)
      OBVIOUS
    <3>2. /\ f \in Frames /\ ready' = ready \cup {f} /\ fate' = fate
          /\ \A g \in Frames : g >= f => fate[g] = "none" /\ g \notin ready
      BY <2>4, <3>1, MarkedFrame
    <3>3. \A g \in Frames : g >= f => stage[g] = "new"
      BY <3>2 DEF stage
    <3>4. Lifecycle!Newest(f) /\ fate[f] = "none"
      BY <3>2, <3>3, HdrAssumption DEF Lifecycle!Newest, Frames
    <3>5. stage' = [stage EXCEPT ![f] = "ready"]
      BY <2>1, <3>2, <3>4 DEF stage, TypeOK
    <3> QED
      BY <3>2, <3>4, <3>5 DEF Lifecycle!Next, Lifecycle!Prepare
  <2>5. ASSUME NEW f \in Frames, Popped(f) PROVE Lifecycle!Next
    <3>1. /\ f \in ready /\ \A g \in ready : f <= g
          /\ ready' = ready \ {f}
      BY <2>5 DEF Popped
    <3>2. PICK s \in {"read", "dropped"} : fate' = [fate EXCEPT ![f] = s]
      BY <2>5 DEF Popped
    <3>3. \A g \in ready : fate[g] = "none"
      BY <2>1 DEF Undecided
    <3>4. \A g \in Frames : stage[g] = "ready" => g \in ready
      BY <2>1 DEF stage, TypeOK
    <3>5. Lifecycle!Oldest(f)
      <4>1. stage[f] = "ready"
        BY <3>1, <3>3 DEF stage
      <4>2. \A g \in Frames : g < f => stage[g] # "ready"
        BY <3>1, <3>4, HdrAssumption DEF Frames
      <4> QED
        BY <4>1, <4>2 DEF Lifecycle!Oldest
    <3>6. stage' = [stage EXCEPT ![f] = s]
      BY <2>1, <3>1, <3>2 DEF stage, TypeOK
    <3> QED
      BY <3>2, <3>5, <3>6 DEF Lifecycle!Next, Lifecycle!Finish
  <2>6. CASE UNCHANGED <<ready, fate>>
    BY <2>6 DEF stage
  <2> QED
    BY <2>2, <2>3, <2>4, <2>5, <2>6, FateStep
<1> QED
  BY <1>1, <1>2, Invariance, PTL DEF Spec, LifecycleSpec, Lifecycle!Spec
=============================================================================
