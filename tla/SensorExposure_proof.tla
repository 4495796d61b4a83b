------------------------ MODULE SensorExposure_proof -------------------------
(***************************************************************************)
(* Proofs about SensorExposure: what is reported for a frame.              *)
(***************************************************************************)
EXTENDS SensorExposure, SetLemmas, SequenceTheorems

Keys == DOMAIN effMap

\* What a map answers for a frame: its last entry that is not newer.
At(e, f) == e[Max({g \in DOMAIN e : g <= f})]

-----------------------------------------------------------------------------
(* The inductive invariant: where things are. *)

\* Before the first exposure nothing is queued or recorded, and a stream without
\* it is one resumed; from then on the registers were written from exposures.
Fresh ==
    /\ first => /\ expList = <<>> /\ gainList = <<>> /\ dcgList = <<>>
                /\ Keys = {} /\ pc = "idle"
                /\ streaming => resumed
    /\ ~first => {last.time, last.gain, last.dcg} \subseteq Exposures

\* Without a stream there are no events, and only the first exposure counts.
Off ==
    ~streaming =>
        /\ frame = -1 /\ sof = -1 /\ prev = -1 /\ sofs = <<>>
        /\ pc = "idle" /\ gainList = <<>> /\ dcgList = <<>>
        /\ ~resumed
        /\ ~first => /\ Keys = {0} /\ effMap[0] = last.time
                     /\ last = Whole(last.time)
                     /\ \A f \in Frames \ slipped : used[f] = last

\* Between the two locked parts the lists of delayed registers are empty.
Handling ==
    /\ pc # "idle" => /\ gainList = <<>> /\ dcgList = <<>>
                      /\ prev < sof
    /\ pc = "record" => taken.time

\* Events come in the order of the frames, and not before them.
Coming ==
    /\ prev <= sof /\ sof <= frame
    /\ \A i \in DOMAIN sofs : sof < sofs[i] /\ sofs[i] <= frame
    /\ \A i, j \in DOMAIN sofs : i < j => sofs[i] < sofs[j]

\* The record ends at the horizon, has room for one more entry while an event
\* is handled, and was trimmed only when it was full.
Recorded ==
    /\ \A k \in Keys : k <= Horizon
    /\ pc # "idle" => Cardinality(Keys) <= KeepMax
    /\ ~first => 0 \in Keys \/ Cardinality(Keys) >= KeepMax

Placed == TypeOK /\ Fresh /\ Off /\ Handling /\ Coming /\ Recorded

-----------------------------------------------------------------------------
(* The inductive invariant: what the record tells. *)

Oldest == Horizon - KeepMax

\* A record answers for the frames of an interval with what a register has.
Tells(e, reg, slip, from, to) ==
    \A f \in Frames \ slip : from < f /\ f < to => At(e, f) = reg[f]

\* It answers for all frames from some one on with the same exposure.
Ends(e, from, x) == \A f \in Frames : from <= f => At(e, f) = x

Times == [f \in Frames |-> used[f].time]
Gains == [f \in Frames |-> used[f].gain]
Dcgs == [f \in Frames |-> used[f].dcg]
Ever == MaxFrame + Max({m.time : m \in Modes}) + 1

\* A stream that began with an exposure.
Live == ~first /\ ~resumed

\* The time is recorded when it has been written.
TimeTold ==
    Live =>
        /\ Tells(effMap, Times, slipped, Oldest,
                 IF pc = "record" THEN sof + mode.time ELSE Ever)
        /\ pc = "record" => \A f \in Frames \ slipped :
                                sof + mode.time <= f => used[f].time = last.time
        /\ pc = "idle" \/ (pc = "write" /\ ~taken.time)
               => Ends(effMap, Horizon, last.time)

\* A register that the lists delay is written one event later.
Lags(list, reg, x, due) ==
    /\ Tells(effMap, reg, slipped, Oldest,
             IF list # <<>> \/ (pc = "write" /\ due) THEN Horizon ELSE Ever)
    /\ list # <<>> => list[1] = last.time
    /\ list = <<>> => Ends(effMap, Horizon, x)

GainLags == GainFits /\ GainDelayed
DcgLags == GainFits /\ DcgFits /\ dcgDelayed

GainTold == Live /\ GainLags => Lags(gainList, Gains, last.gain, taken.gain)
DcgTold == Live /\ DcgLags => Lags(dcgList, Dcgs, last.dcg, taken.dcg)

\* Registers with the same delay are written together, unless one is refused.
Together ==
    Live => \A f \in Frames \ slipped :
        /\ ~GainDelayed => used[f].gain = used[f].time
        /\ ~dcgDelayed /\ (~GainDelayed \/ mode.dcg = mode.time) /\ DcgFits
               => used[f].dcg = used[f].time
        /\ ~dcgDelayed /\ GainLags /\ mode.dcg = mode.gain /\ DcgFits
               => used[f].dcg = used[f].gain

\* Exposures are queued, written and recorded in the order they were set.
InOrder ==
    /\ last.time <= count
    /\ \A i \in DOMAIN expList :
          last.time <= expList[i].exp /\ expList[i].exp <= count
    /\ \A i, j \in DOMAIN expList : i < j => expList[i].exp <= expList[j].exp
    /\ \A k \in Keys : effMap[k] <= last.time
    /\ \A j, k \in Keys : j <= k => effMap[j] <= effMap[k]

Inv == Placed /\ TimeTold /\ GainTold /\ DcgTold /\ Together /\ InOrder

-----------------------------------------------------------------------------
(* Frames, maps and writes. *)

LEMMA FrameFacts ==
    ASSUME Modes # {}
    PROVE  /\ Ever \in Nat \ {0}
           /\ Frames = 0..(Ever - 1)
           /\ \A m \in Modes : MaxFrame + m.time < Ever
           /\ Max(Frames) \in Frames
<1> DEFINE f == [m \in Modes |-> m.time]
<1> DEFINE T == {f[m] : m \in Modes}
<1>1. T = {m.time : m \in Modes}
  OBVIOUS
<1>2. \A m \in Modes : m.time \in Nat \ {0}
  BY SensorAssumption
<1>3. IsFiniteSet(T)
  <2>1. IsFiniteSet(Modes) /\ DOMAIN f = Modes
    BY SensorAssumption
  <2> HIDE DEF f
  <2> QED
    BY <2>1, ImageFinite
<1>4. T # {} /\ T \subseteq Int
  BY <1>1, <1>2
<1>5. Max(T) \in T /\ \A t \in T : t <= Max(T)
  BY <1>3, <1>4, MaxExists
<1>6. /\ Max({m.time : m \in Modes}) \in Nat \ {0}
      /\ \A n \in Modes : n.time <= Max({m.time : m \in Modes})
  <2>1. \A m \in Modes : m.time \in T
    BY <1>1
  <2>2. T \subseteq Nat \ {0}
    BY <1>1, <1>2
  <2> QED
    BY <1>1, <1>5, <2>1, <2>2
<1> DEFINE top == Max({m.time : m \in Modes})
<1>7. /\ Ever = MaxFrame + top + 1 /\ Frames = 0..(MaxFrame + top)
      /\ MaxFrame \in Nat
  BY SensorAssumption DEF Ever, Frames
<1> HIDE DEF top
<1>8. top \in Nat \ {0} /\ \A m \in Modes : m.time <= top
  BY <1>6 DEF top
<1>9. Ever \in Nat \ {0} /\ Frames = 0..(Ever - 1)
  BY <1>7, <1>8
<1>10. Max(Frames) \in Frames
  <2>1. /\ IsFiniteSet(Frames) /\ Frames \subseteq Int
        /\ Ever - 1 \in Frames /\ \A y \in Frames : y <= Ever - 1
    BY <1>9, FS_Interval
  <2> QED
    BY <2>1, MaxIs
<1> QED
  BY <1>2, <1>7, <1>8, <1>9, <1>10

\* What a map answers is one of its entries.
LEMMA AtExists ==
    ASSUME NEW e, DOMAIN e \subseteq Int, IsFiniteSet(DOMAIN e),
           NEW f \in Int, NEW g \in DOMAIN e, g <= f
    PROVE  \E k \in DOMAIN e : /\ k <= f /\ g <= k
                               /\ \A j \in DOMAIN e : j <= f => j <= k
                               /\ At(e, f) = e[k]
<1> DEFINE S == {j \in DOMAIN e : j <= f}
<1>1. IsFiniteSet(S) /\ S \subseteq Int /\ g \in S
  BY FS_Subset
<1>2. Max(S) \in S /\ \A y \in S : y <= Max(S)
  <2> HIDE DEF S
  <2> QED
    BY <1>1, MaxExists
<1>3. At(e, f) = e[Max(S)]
  BY DEF At
<1> QED
  BY <1>1, <1>2, <1>3

LEMMA AtIs ==
    ASSUME NEW e, DOMAIN e \subseteq Int, IsFiniteSet(DOMAIN e),
           NEW f \in Int, NEW k \in DOMAIN e, k <= f,
           \A j \in DOMAIN e : j <= f => j <= k
    PROVE  At(e, f) = e[k]
<1> DEFINE S == {j \in DOMAIN e : j <= f}
<1>1. IsFiniteSet(S) /\ S \subseteq Int /\ k \in S /\ \A y \in S : y <= k
  BY FS_Subset
<1>2. Max(S) = k
  <2> HIDE DEF S
  <2> QED
    BY <1>1, MaxIs
<1> QED
  BY <1>2 DEF At

\* A record that was trimmed only when full reaches back far enough.
LEMMA Covered ==
    ASSUME NEW S, S \subseteq Nat, IsFiniteSet(S), NEW n \in Nat \ {0},
           NEW h \in Int, \A k \in S : k <= h, 0 \in S \/ Cardinality(S) >= n,
           NEW f \in Nat, h - n < f
    PROVE  \E k \in S : k <= f
<1>1. CASE 0 \in S
  BY <1>1
<1>2. CASE Cardinality(S) >= n
  <2>1. S \subseteq Int
    OBVIOUS
  <2>2. PICK k \in S : k <= h - n + 1
    BY <1>2, <2>1, Crowded
  <2>3. k <= f
    BY <2>2
  <2> QED
    BY <2>3
<1> QED
  BY <1>1, <1>2

\* Taking away the oldest entries leaves the answers they do not give.
LEMMA AtKept ==
    ASSUME NEW e, DOMAIN e \subseteq Int, IsFiniteSet(DOMAIN e),
           NEW d, DOMAIN d \subseteq DOMAIN e,
           \A k \in DOMAIN d : d[k] = e[k],
           \A o \in DOMAIN e \ DOMAIN d, k \in DOMAIN d : o < k,
           NEW f \in Int, NEW g \in DOMAIN d, g <= f
    PROVE  At(d, f) = At(e, f)
<1>1. IsFiniteSet(DOMAIN d) /\ DOMAIN d \subseteq Int
  BY FS_Subset
<1>2. PICK k \in DOMAIN d : /\ k <= f
                            /\ \A j \in DOMAIN d : j <= f => j <= k
                            /\ At(d, f) = d[k]
  BY <1>1, AtExists
<1>3. ASSUME NEW j \in DOMAIN e, j <= f PROVE j <= k
  <2>1. CASE j \in DOMAIN d
    BY <1>2, <1>3, <2>1
  <2>2. CASE j \notin DOMAIN d
    <3>1. j < k
      BY <2>2
    <3> QED
      BY <3>1
  <2> QED
    BY <2>1, <2>2
<1>4. At(e, f) = e[k]
  BY <1>2, <1>3, AtIs
<1> QED
  BY <1>2, <1>4

\* A newer entry answers for its own frame and those after it.
LEMMA AtAdded ==
    ASSUME NEW e, DOMAIN e \subseteq Int, IsFiniteSet(DOMAIN e),
           NEW n \in Int, NEW x, NEW d, DOMAIN d = DOMAIN e \cup {n},
           \A k \in DOMAIN e : d[k] = e[k], d[n] = x,
           \A k \in DOMAIN e : k < n, NEW f \in Int
    PROVE  /\ n <= f => At(d, f) = x
           /\ f < n /\ (\E g \in DOMAIN e : g <= f) => At(d, f) = At(e, f)
<1>1. IsFiniteSet(DOMAIN d) /\ DOMAIN d \subseteq Int
  BY FS_AddElement
<1>2. ASSUME n <= f PROVE At(d, f) = x
  <2>1. \A j \in DOMAIN d : j <= f => j <= n
    OBVIOUS
  <2>2. At(d, f) = d[n]
    BY <1>1, <1>2, <2>1, AtIs
  <2> QED
    BY <2>2
<1>3. ASSUME f < n, NEW g \in DOMAIN e, g <= f PROVE At(d, f) = At(e, f)
  <2>1. PICK k \in DOMAIN e : /\ k <= f
                              /\ \A j \in DOMAIN e : j <= f => j <= k
                              /\ At(e, f) = e[k]
    BY <1>3, AtExists
  <2>2. \A j \in DOMAIN d : j <= f => j <= k
    BY <1>3, <2>1
  <2>3. At(d, f) = d[k]
    BY <1>1, <2>1, <2>2, AtIs
  <2> QED
    BY <2>1, <2>3
<1> QED
  BY <1>2, <1>3

\* The keys of the map, and what trimming leaves of them.
LEMMA KeysFinite ==
    ASSUME TypeOK
    PROVE  /\ Keys \subseteq Nat /\ IsFiniteSet(Keys) /\ Cardinality(Keys) \in Nat
           /\ Modes # {} /\ mode \in Modes
<1>1. Modes # {} /\ mode \in Modes
  BY DEF TypeOK
<1>2. Frames \subseteq Nat /\ IsFiniteSet(Frames)
  <2>1. Ever - 1 \in Int /\ Frames = 0..(Ever - 1)
    BY <1>1, FrameFacts
  <2>2. IsFiniteSet(0..(Ever - 1))
    BY <2>1, FS_Interval
  <2> QED
    BY <2>1, <2>2
<1> QED
  BY <1>1, <1>2, FS_Subset, FS_CardinalityType DEF TypeOK, Keys

LEMMA Erasing ==
    ASSUME TypeOK, NEW e, e = EraseOldest
    PROVE  /\ DOMAIN e \subseteq Keys
           /\ \A k \in DOMAIN e : e[k] = effMap[k]
           /\ IsFiniteSet(DOMAIN e) /\ Cardinality(DOMAIN e) \in Nat
           /\ Cardinality(DOMAIN e) <= KeepMax
           /\ DOMAIN e = Keys \/ Cardinality(DOMAIN e) >= KeepMax
           /\ \A o \in Keys \ DOMAIN e, k \in DOMAIN e : o < k
<1> DEFINE old == {f \in Keys : Cardinality({g \in Keys : g >= f}) > KeepMax}
<1>1. Keys \subseteq Int /\ IsFiniteSet(Keys) /\ KeepMax \in Nat
  BY KeysFinite, SensorAssumption
<1>2. /\ Cardinality(Keys \ old) <= KeepMax
      /\ old # {} => Cardinality(Keys \ old) >= KeepMax
      /\ \A o \in old, t \in Keys \ old : o < t
  <2>1. \A S, n, o : S \subseteq Int /\ IsFiniteSet(S) /\ n \in Nat
             /\ o = {f \in S : Cardinality({g \in S : g >= f}) > n}
          => /\ Cardinality(S \ o) <= n
             /\ o # {} => Cardinality(S \ o) >= n
             /\ \A x \in o, t \in S \ o : x < t
    BY GreatestKept
  <2> QED
    BY <1>1, <2>1
<1>3. e = [f \in Keys \ old |-> effMap[f]]
  BY DEF EraseOldest, Keys
<1>4. DOMAIN e = Keys \ old /\ \A k \in DOMAIN e : e[k] = effMap[k]
  <2> HIDE DEF old
  <2> QED
    BY <1>3
<1>5. old \subseteq Keys
  OBVIOUS
<1>6. IsFiniteSet(DOMAIN e) /\ Cardinality(DOMAIN e) \in Nat
  <2> HIDE DEF old
  <2> QED
    BY <1>1, <1>4, FS_Subset, FS_CardinalityType
<1> HIDE DEF old
<1>7. DOMAIN e = Keys \/ Cardinality(DOMAIN e) >= KeepMax
  <2>1. CASE old = {}
    BY <1>4, <2>1
  <2>2. CASE old # {}
    BY <1>2, <1>4, <2>2
  <2> QED
    BY <2>1, <2>2
<1>8. Keys \ DOMAIN e = old
  BY <1>4, <1>5
<1> QED
  BY <1>2, <1>4, <1>6, <1>7, <1>8

-----------------------------------------------------------------------------
(* What the actions do. *)

Entry == [exp : Exposures, head : BOOLEAN]

LEMMA Constants ==
    /\ MaxExposure \in Nat /\ MaxFrame \in Nat /\ MaxStreams \in Nat
    /\ PoolSize \in Nat /\ MaxHeld \in Nat /\ KeepMax \in Nat \ {0}
    /\ TableSizes \subseteq Nat
    /\ \A m \in Modes : /\ m.time \in Nat \ {0} /\ m.gain \in Nat /\ m.dcg \in Int
                        /\ m.gain <= m.time /\ m.dcg <= m.time
BY SensorAssumption

LEMMA WriteEffect ==
    ASSUME TypeOK, NEW s \in Setting, NEW regs, Write(s, regs)
    PROVE  /\ used' \in [Frames -> Setting]
           /\ \A f \in Frames :
                 /\ used'[f].time = IF "time" \in regs /\ ActsOn(f, mode.time)
                                    THEN s.time ELSE used[f].time
                 /\ used'[f].gain = IF "gain" \in regs /\ ActsOn(f, mode.gain)
                                    THEN s.gain ELSE used[f].gain
                 /\ used'[f].dcg = IF "dcg" \in regs /\ DcgActs(f)
                                   THEN s.dcg ELSE used[f].dcg
<1> DEFINE r(f) == [time |-> IF "time" \in regs /\ ActsOn(f, mode.time)
                             THEN s.time ELSE used[f].time,
                    gain |-> IF "gain" \in regs /\ ActsOn(f, mode.gain)
                             THEN s.gain ELSE used[f].gain,
                    dcg |-> IF "dcg" \in regs /\ DcgActs(f)
                            THEN s.dcg ELSE used[f].dcg]
<1>1. used' = [f \in Frames |-> r(f)]
  BY DEF Write
<1>2. ASSUME NEW f \in Frames PROVE r(f) \in Setting
  <2>1. used[f] \in Setting
    BY DEF TypeOK
  <2> QED
    BY <2>1 DEF Setting
<1>3. \A f \in Frames : used'[f] = r(f)
  BY <1>1
<1> QED
  BY <1>1, <1>2, <1>3

\* A write the sensor takes holds every register, a refused one not the time.
LEMMA WritesAre ==
    ASSUME NEW regs \in Writes
    PROVE  /\ regs = Registers => "time" \in regs /\ "gain" \in regs /\ "dcg" \in regs
           /\ regs # Registers => "time" \notin regs
<1>1. regs = Registers \/ regs \subseteq {"gain", "dcg"}
  BY SensorAssumption DEF Writes
<1>2. "time" \notin {"gain", "dcg"}
  OBVIOUS
<1> QED
  BY <1>1, <1>2 DEF Registers

LEMMA ComposedTyped == TypeOK => Composed \in Setting
<1> SUFFICES ASSUME TypeOK PROVE Composed \in Setting
  OBVIOUS
<1>1. {last.time, last.gain, last.dcg} \subseteq 0..MaxExposure
  BY DEF TypeOK, Setting
<1> QED
  BY <1>1 DEF Composed, Whole, Setting

\* What remains of the list is a first part of it.
LEMMA TrimmedIs ==
    ASSUME TypeOK
    PROVE  /\ Trimmed \in Seq(Entry)
           /\ Len(Trimmed) <= Len(expList)
           /\ \A i \in 1..Len(Trimmed) : Trimmed[i] = expList[i]
<1> DEFINE heads == {i \in DOMAIN expList : expList[i].head}
<1>1. /\ expList \in Seq(Entry) /\ Len(expList) \in Nat
      /\ DOMAIN expList = 1..Len(expList)
  BY DEF TypeOK, Entry
<1>2. CASE heads = {}
  <2>1. Trimmed = <<>>
    BY <1>2 DEF Trimmed
  <2> QED
    BY <1>1, <2>1
<1>3. CASE heads # {}
  <2>1. heads \subseteq 1..Len(expList)
    BY <1>1
  <2>2. IsFiniteSet(heads)
    <3>1. IsFiniteSet(1..Len(expList))
      BY <1>1, FS_Interval
    <3> HIDE DEF heads
    <3> QED
      BY <2>1, <3>1, FS_Subset
  <2>3. Max(heads) \in heads
    <3>1. heads \subseteq Int
      BY <1>1
    <3> HIDE DEF heads
    <3> QED
      BY <1>3, <2>2, <3>1, MaxExists
  <2> DEFINE m == Max(heads)
  <2>4. Trimmed = SubSeq(expList, 1, m)
    BY <1>3 DEF Trimmed
  <2> HIDE DEF heads
  <2>5. m \in 1..Len(expList)
    BY <2>1, <2>3
  <2> HIDE DEF m
  <2>6. /\ SubSeq(expList, 1, m) \in Seq(Entry)
        /\ Len(SubSeq(expList, 1, m)) = m
        /\ \A i \in 1..m : SubSeq(expList, 1, m)[i] = expList[i]
    BY <1>1, <2>5
  <2> QED
    BY <1>1, <2>4, <2>5, <2>6
<1> QED
  BY <1>2, <1>3

LEMMA PairFinite ==
    ASSUME NEW a, NEW b
    PROVE  IsFiniteSet({a, b})
<1>1. IsFiniteSet({a}) /\ {a, b} = {a} \cup {b}
  BY FS_Singleton
<1>2. IsFiniteSet({a} \cup {b})
  BY <1>1, FS_AddElement
<1> QED
  BY <1>1, <1>2

\* A table follows what remains of the list, as far as the pool holds it.
LEMMA TableEffect ==
    ASSUME TypeOK, NEW n \in TableSizes, SetTable(n)
    PROVE  /\ expList' \in Seq(Entry)
           /\ pooled' \subseteq Exposures
           /\ count' = count + n /\ count' \in 0..MaxExposure
           /\ \E m \in 0..Len(expList), k \in 0..n :
                 /\ Len(expList') = m + k
                 /\ \A i \in 1..m : expList'[i] = expList[i]
                 /\ \A i \in 1..k : expList'[m + i].exp = count + i
<1>1. n \in Nat /\ count \in Nat /\ count + n <= MaxExposure /\ MaxExposure \in Nat
      /\ n > 0 /\ count' = count + n
  BY Constants DEF TypeOK, SetTable
<1> DEFINE kept == {Trimmed[i].exp : i \in DOMAIN Trimmed}
<1> DEFINE gone == {expList[i].exp : i \in DOMAIN expList} \ kept
<1> DEFINE room(held) == Max({0, PoolSize - held - Cardinality(InUse \ gone)})
<1> DEFINE fits(held) == Min({n, room(held)})
<1> DEFINE new(k) == [i \in 1..k |-> [exp |-> count + i, head |-> i = 1]]
<1>2. PICK held \in 0..MaxHeld :
          /\ expList' = Trimmed \o new(fits(held))
          /\ pooled' = pooled \cup (count + 1)..(count + fits(held))
  BY DEF SetTable
<1>3. fits(held) \in 0..n
  <2>1. Cardinality(InUse \ gone) \in Nat
    <3>1. InUse \subseteq Exposures
      BY DEF InUse, TypeOK
    <3>2. IsFiniteSet(Exposures)
      BY <1>1, FS_Interval DEF Exposures
    <3>3. IsFiniteSet(InUse \ gone)
      <4> HIDE DEF gone
      <4> QED
        BY <3>1, <3>2, FS_Subset
    <3> QED
      BY <3>3, FS_CardinalityType
  <2> DEFINE c == Cardinality(InUse \ gone)
  <2>2. PICK x \in Int : x = PoolSize - held - c
    <3> HIDE DEF c
    <3>1. c \in Nat /\ PoolSize \in Nat /\ held \in Int
      BY <2>1, Constants DEF c
    <3> QED
      BY <3>1
  <2>3. room(held) \in Nat
    <3>1. IsFiniteSet({0, x})
      BY PairFinite
    <3>2. {0, x} \subseteq Int /\ {0, x} # {}
      OBVIOUS
    <3>3. Max({0, x}) \in {0, x} /\ \A y \in {0, x} : y <= Max({0, x})
      BY <3>1, <3>2, MaxExists
    <3> QED
      BY <2>2, <3>3
  <2> HIDE DEF room
  <2>4. PICK r \in Nat : r = room(held)
    BY <2>3
  <2>5. {n, r} \subseteq Int /\ {n, r} # {}
    BY <1>1
  <2>6. IsFiniteSet({n, r})
    BY PairFinite
  <2>7. Min({n, r}) \in {n, r} /\ \A y \in {n, r} : Min({n, r}) <= y
    BY <2>6, <2>5, MinExists
  <2> QED
    BY <1>1, <2>4, <2>7
<1> HIDE DEF fits
<1>4. PICK k \in 0..n : k = fits(held)
  BY <1>3
<1>5. new(k) \in Seq(Entry) /\ Len(new(k)) = k
  <2>1. \A i \in 1..k : [exp |-> count + i, head |-> i = 1] \in Entry
    BY <1>1 DEF Entry, Exposures
  <2> QED
    BY <2>1
<1>6. /\ Trimmed \in Seq(Entry) /\ Len(Trimmed) <= Len(expList)
      /\ \A i \in 1..Len(Trimmed) : Trimmed[i] = expList[i]
  BY TrimmedIs
<1>7. PICK s : s = new(k)
  OBVIOUS
<1>8. \A i \in 1..k : s[i].exp = count + i
  BY <1>7
<1> HIDE DEF new
<1>9. expList' = Trimmed \o s /\ s \in Seq(Entry) /\ Len(s) = k
  BY <1>2, <1>4, <1>5, <1>7
<1>10. PICK m \in Nat : m = Len(Trimmed) /\ m <= Len(expList)
  BY <1>6
<1>11. /\ expList' \in Seq(Entry)
       /\ Len(expList') = m + k
       /\ \A i \in 1..(m + k) :
             expList'[i] = IF i <= m THEN Trimmed[i] ELSE s[i - m]
  <2>1. /\ Trimmed \o s \in Seq(Entry)
        /\ Len(Trimmed \o s) = Len(Trimmed) + Len(s)
        /\ \A i \in 1..(Len(Trimmed) + Len(s)) :
              (Trimmed \o s)[i] = IF i <= Len(Trimmed) THEN Trimmed[i]
                                  ELSE s[i - Len(Trimmed)]
    BY <1>6, <1>9, ConcatProperties
  <2> QED
    BY <1>9, <1>10, <2>1
<1>12. \A i \in 1..m : expList'[i] = expList[i]
  BY <1>6, <1>10, <1>11
<1>13. ASSUME NEW i \in 1..k PROVE expList'[m + i].exp = count + i
  <2>1. m + i \in 1..(m + k) /\ ~(m + i <= m) /\ (m + i) - m = i
    BY <1>10
  <2>2. expList'[m + i] = s[i]
    BY <1>11, <2>1
  <2> QED
    BY <1>8, <2>2
<1>14. Len(expList) \in Nat /\ m \in 0..Len(expList)
  BY <1>10 DEF TypeOK
<1>15. pooled' \subseteq Exposures
  <2>1. pooled \subseteq Exposures /\ pooled' = pooled \cup (count + 1)..(count + k)
    BY <1>2, <1>4 DEF TypeOK
  <2>2. (count + 1)..(count + k) \subseteq Exposures
    BY <1>1 DEF Exposures
  <2> QED
    BY <2>1, <2>2
<1>16. /\ Len(expList') = m + k
       /\ \A i \in 1..m : expList'[i] = expList[i]
       /\ \A i \in 1..k : expList'[m + i].exp = count + i
  BY <1>11, <1>12, <1>13
<1>17. count' \in 0..MaxExposure
  BY <1>1
<1> QED
  BY <1>1, <1>11, <1>14, <1>15, <1>16, <1>17

LEMMA PopEffect ==
    ASSUME NEW S, NEW q \in Seq(S)
    PROVE  /\ Pop(q) \in Seq(S)
           /\ q = <<>> => Pop(q) = <<>>
           /\ q # <<>> => /\ Head(q) \in S /\ Head(q) = q[1]
                          /\ Len(q) \in Nat \ {0} /\ Len(Pop(q)) = Len(q) - 1
                          /\ \A i \in 1..(Len(q) - 1) : Pop(q)[i] = q[i + 1]
<1>1. CASE q = <<>>
  BY <1>1 DEF Pop
<1>2. CASE q # <<>>
  <2>1. Pop(q) = Tail(q)
    BY <1>2 DEF Pop
  <2>2. /\ Head(q) \in S /\ Tail(q) \in Seq(S) /\ Head(q) = q[1]
        /\ Len(q) \in Nat \ {0} /\ Len(Tail(q)) = Len(q) - 1
        /\ \A i \in 1..Len(Tail(q)) : Tail(q)[i] = q[i + 1]
    BY <1>2, HeadTailProperties
  <2> QED
    BY <1>2, <2>1, <2>2
<1> QED
  BY <1>1, <1>2

\* Where the first locked part of handle_sof leaves the record and the events.
LEMMA TakeEffect ==
    ASSUME TypeOK, Fresh, Coming, SofTake
    PROVE  /\ last' \in Setting
           /\ ~first => {last'.time, last'.gain, last'.dcg} \subseteq Exposures
           /\ sof' \in 0..MaxFrame /\ prev' = sof /\ sof < sof'
           /\ sofs' \in Seq(0..MaxFrame)
           /\ expList' \in Seq(Entry)
           /\ gainList' = <<>> /\ dcgList' = <<>>
           /\ taken' \in [time : BOOLEAN, gain : BOOLEAN, dcg : BOOLEAN]
           /\ pc' \in {"idle", "write"} /\ pc = "idle"
           /\ pc' = "idle" => expList = <<>> /\ gainList = <<>> /\ dcgList = <<>>
<1>1. /\ expList \in Seq(Entry) /\ sofs \in Seq(0..MaxFrame) /\ sofs # <<>>
      /\ gainList \in Seq(Exposures) /\ dcgList \in Seq(Exposures)
      /\ last \in Setting /\ Len(gainList) <= 1 /\ Len(dcgList) <= 1
  BY DEF TypeOK, Entry, SofTake
<1>2. /\ Head(sofs) \in 0..MaxFrame /\ Tail(sofs) \in Seq(0..MaxFrame)
      /\ Head(sofs) = sofs[1] /\ 1 \in DOMAIN sofs
  <2>1. /\ Pop(sofs) \in Seq(0..MaxFrame) /\ Head(sofs) \in 0..MaxFrame
        /\ Head(sofs) = sofs[1] /\ Len(sofs) \in Nat \ {0}
    BY <1>1, PopEffect
  <2>2. Pop(sofs) = Tail(sofs) /\ DOMAIN sofs = 1..Len(sofs)
    BY <1>1 DEF Pop
  <2> QED
    BY <2>1, <2>2
<1>3. sof' \in 0..MaxFrame /\ prev' = sof /\ sof < sof' /\ sofs' \in Seq(0..MaxFrame)
  BY <1>2 DEF SofTake, Coming
<1>4. /\ expList' \in Seq(Entry) /\ gainList' \in Seq(Exposures)
      /\ dcgList' \in Seq(Exposures)
      /\ expList # <<>> => Head(expList).exp \in Exposures
      /\ gainList # <<>> => Head(gainList) \in Exposures
      /\ dcgList # <<>> => Head(dcgList) \in Exposures
  <2>1. expList # <<>> => Head(expList) \in Entry
    BY <1>1, PopEffect
  <2> QED
    BY <1>1, <2>1, PopEffect DEF SofTake, Entry
<1>5. gainList' = <<>> /\ dcgList' = <<>>
  <2>1. gainList' = Pop(gainList) /\ dcgList' = Pop(dcgList)
    BY DEF SofTake
  <2>2. ASSUME NEW q \in Seq(Exposures), Len(q) <= 1 PROVE Pop(q) = <<>>
    <3>1. CASE q = <<>>
      BY <3>1 DEF Pop
    <3>2. CASE q # <<>>
      <4>1. Pop(q) \in Seq(Exposures) /\ Len(Pop(q)) = Len(q) - 1 /\ Len(q) \in Nat \ {0}
        BY <3>2, PopEffect
      <4>2. Len(Pop(q)) = 0
        BY <2>2, <4>1
      <4> QED
        BY <4>1, <4>2, EmptySeq
    <3> QED
      BY <3>1, <3>2
  <2> QED
    BY <1>1, <2>1, <2>2
<1>6. /\ last'.time \in {last.time} \cup Exposures
      /\ last'.gain \in {last.gain} \cup Exposures
      /\ last'.dcg \in {last.dcg} \cup Exposures
      /\ last' = [time |-> last'.time, gain |-> last'.gain, dcg |-> last'.dcg]
  BY <1>4 DEF SofTake
<1>7. last' \in Setting /\ (~first => {last'.time, last'.gain, last'.dcg} \subseteq Exposures)
  <2>1. Exposures \subseteq 0..MaxExposure
    BY Constants DEF Exposures
  <2> QED
    BY <1>1, <1>6, <2>1 DEF Setting, Fresh
<1>8. /\ taken' \in [time : BOOLEAN, gain : BOOLEAN, dcg : BOOLEAN]
      /\ pc' \in {"idle", "write"} /\ pc = "idle"
      /\ pc' = "idle" => expList = <<>> /\ gainList = <<>> /\ dcgList = <<>>
  <2>1. /\ taken' = [time |-> expList # <<>>, gain |-> gainList # <<>>,
                     dcg |-> dcgList # <<>>]
        /\ pc' = IF taken' = Nothing THEN "idle" ELSE "write"
        /\ pc = "idle"
    BY DEF SofTake
  <2>2. pc' = "idle" => taken' = Nothing
    BY <2>1
  <2>3. /\ taken'.time = (expList # <<>>) /\ taken'.gain = (gainList # <<>>)
        /\ taken'.dcg = (dcgList # <<>>)
    BY <2>1
  <2>4. /\ Nothing.time = FALSE /\ Nothing.gain = FALSE /\ Nothing.dcg = FALSE
    BY DEF Nothing
  <2>5. pc' = "idle" => expList = <<>> /\ gainList = <<>> /\ dcgList = <<>>
    BY <2>2, <2>3, <2>4, Zenon
  <2>6. taken' \in [time : BOOLEAN, gain : BOOLEAN, dcg : BOOLEAN]
    BY <2>1
  <2> QED
    BY <2>1, <2>5, <2>6
<1> QED
  BY <1>3, <1>4, <1>5, <1>7, <1>8

\* Where the second one leaves the record.
LEMMA RecordEffect ==
    ASSUME Placed, SofRecord
    PROVE  /\ sof + mode.time \in Frames
           /\ \A k \in Keys : k < sof + mode.time
           /\ Keys' = Keys \cup {sof + mode.time}
           /\ \A k \in Keys : effMap'[k] = effMap[k]
           /\ effMap'[sof + mode.time] = last.time
           /\ Cardinality(Keys') = Cardinality(Keys) + 1
           /\ pc = "record" /\ pc' = "idle" /\ ~first
           /\ last.time \in Exposures /\ last' = last
<1>1. /\ TypeOK /\ pc = "record" /\ prev < sof /\ prev \in -1..MaxFrame
      /\ sof \in -1..MaxFrame /\ Horizon = prev + mode.time /\ mode \in Modes
      /\ \A k \in Keys : k <= Horizon
  BY DEF Placed, SofRecord, Handling, Recorded, Horizon, Done, TypeOK
<1>2. ~first /\ last.time \in Exposures
  BY <1>1 DEF Placed, Fresh
<1>3. Keys \subseteq Nat /\ IsFiniteSet(Keys) /\ Modes # {}
  BY <1>1, KeysFinite
<1>4. /\ Ever \in Nat /\ Frames = 0..(Ever - 1) /\ MaxFrame + mode.time < Ever
      /\ MaxFrame \in Nat /\ mode.time \in Nat \ {0}
  BY <1>1, <1>3, FrameFacts, Constants
<1>5. sof + mode.time \in Frames /\ \A k \in Keys : k < sof + mode.time
  BY <1>1, <1>3, <1>4
<1> DEFINE n == sof + mode.time
<1>6. effMap' = [f \in Keys \cup {n} |-> IF f = n THEN last.time ELSE effMap[f]]
  BY DEF SofRecord, Keys
<1>7. n \in Int /\ n \notin Keys
  BY <1>1, <1>3, <1>4, <1>5
<1> HIDE DEF n
<1>8. /\ Keys' = Keys \cup {n}
      /\ \A k \in Keys : effMap'[k] = effMap[k]
      /\ effMap'[n] = last.time
  <2>1. Keys' = DOMAIN effMap'
    BY DEF Keys
  <2> QED
    BY <1>6, <1>7, <2>1
<1>9. Cardinality(Keys') = Cardinality(Keys) + 1
  BY <1>3, <1>7, <1>8, FS_AddElement
<1> QED
  BY <1>1, <1>2, <1>5, <1>8, <1>9 DEF n, SofRecord

-----------------------------------------------------------------------------
(* Types. *)

LEMMA InitPlaced == Init => Placed
<1> SUFFICES ASSUME Init PROVE Placed
  OBVIOUS
<1>1. Modes # {} /\ mode \in Modes
  BY DEF Init
<1>2. /\ Ever \in Nat \ {0} /\ Frames = 0..(Ever - 1)
      /\ mode.time \in Nat \ {0} /\ mode.dcg \in Int /\ KeepMax \in Nat \ {0}
      /\ MaxExposure \in Nat /\ MaxFrame \in Nat /\ MaxStreams \in Nat
  BY <1>1, FrameFacts, Constants
<1>3. DOMAIN effMap = {} /\ Cardinality(DOMAIN effMap) = 0
  <2>1. DOMAIN effMap = {}
    BY DEF Init
  <2> QED
    BY <2>1, FS_EmptySet
<1>4. Whole(0) \in Setting
  BY <1>2 DEF Whole, Setting
<1>5. TypeOK
  <2>1. dcgDelayed \in BOOLEAN
    BY DEF Init, DcgBetween
  <2>2. /\ used \in [Frames -> Setting] /\ last \in Setting
    BY <1>4 DEF Init
  <2>3. taken \in [time : BOOLEAN, gain : BOOLEAN, dcg : BOOLEAN]
    BY DEF Init, Nothing
  <2>4. /\ expList \in Seq([exp : Exposures, head : BOOLEAN])
        /\ gainList \in Seq(Exposures) /\ Len(gainList) <= 1
        /\ dcgList \in Seq(Exposures) /\ Len(dcgList) <= 1
        /\ sofs \in Seq(0..MaxFrame)
    BY DEF Init
  <2>5. /\ DOMAIN effMap \subseteq Frames
        /\ \A f \in DOMAIN effMap : effMap[f] \in Exposures
        /\ Cardinality(DOMAIN effMap) <= KeepMax + 1
    BY <1>2, <1>3
  <2>6. /\ count \in 0..MaxExposure /\ streams \in 0..MaxStreams
        /\ frame \in -1..MaxFrame /\ sof \in -1..MaxFrame /\ prev \in -1..MaxFrame
    BY <1>2 DEF Init
  <2>7. /\ first \in BOOLEAN /\ streaming \in BOOLEAN /\ resumed \in BOOLEAN
        /\ pooled \subseteq Exposures /\ slipped \subseteq Frames
        /\ pc \in {"idle", "write", "record"}
    BY DEF Init
  <2> QED
    BY <1>1, <2>1, <2>2, <2>3, <2>4, <2>5, <2>6, <2>7 DEF TypeOK
<1>6. Fresh
  BY <1>3 DEF Init, Fresh, Keys
<1>7. Off
  BY DEF Init, Off
<1>8. Handling /\ Coming
  BY DEF Init, Handling, Coming
<1>9. Recorded
  BY <1>3 DEF Init, Recorded, Keys
<1> QED
  BY <1>5, <1>6, <1>7, <1>8, <1>9 DEF Placed

LEMMA WritingTyped ==
    ASSUME Placed, SofWrite
    PROVE  slipped' \subseteq Frames /\ used' \in [Frames -> Setting]
<1>1. /\ TypeOK /\ mode \in Modes /\ Modes # {}
      /\ prev \in -1..MaxFrame /\ sof \in -1..MaxFrame /\ frame \in -1..MaxFrame
      /\ prev < sof /\ slipped \subseteq Frames
  BY KeysFinite DEF Placed, TypeOK, Handling, SofWrite
<1>2. /\ Ever \in Nat /\ Frames = 0..(Ever - 1) /\ MaxFrame + mode.time < Ever
      /\ mode.time \in Nat \ {0} /\ mode.gain \in Nat /\ mode.dcg \in Int
      /\ mode.gain <= mode.time /\ mode.dcg <= mode.time /\ MaxFrame \in Nat
  BY <1>1, FrameFacts, Constants
<1>3. /\ (sof + mode.time)..(frame + mode.time - 1) \subseteq Frames
      /\ (prev + mode.time)..(frame + mode.gain - 1) \subseteq Frames
      /\ (prev + mode.time)..(frame + mode.dcg - 1) \subseteq Frames
  <2>1. ASSUME NEW a \in Nat, NEW b \in Int, b <= MaxFrame + mode.time
        PROVE  a..b \subseteq Frames
    BY <1>2, <2>1
  <2>2. sof + mode.time \in Nat /\ prev + mode.time \in Nat
    BY <1>1, <1>2
  <2>3. ASSUME NEW d \in Int, d <= mode.time
        PROVE  frame + d - 1 \in Int /\ frame + d - 1 <= MaxFrame + mode.time
    BY <1>1, <1>2, <2>3
  <2>4. mode.time \in Int /\ mode.gain \in Int /\ mode.time <= mode.time
    BY <1>2
  <2> QED
    BY <1>2, <2>1, <2>2, <2>3, <2>4
<1>4. Slips \subseteq Frames
  BY <1>3 DEF Slips
<1>5. PICK regs \in Writes :
          /\ Write(Composed, regs)
          /\ slipped' = IF regs = Registers
                        THEN {f \in slipped : f < frame + mode.time} \cup Slips
                        ELSE slipped \cup {f \in Frames : f >= Due}
  BY DEF SofWrite
<1>6. slipped' \subseteq Frames
  BY <1>1, <1>4, <1>5
<1>7. used' \in [Frames -> Setting]
  BY <1>1, <1>5, ComposedTyped, WriteEffect
<1> QED
  BY <1>6, <1>7

LEMMA ErasedTyped ==
    ASSUME Placed, NEW e, e = EraseOldest
    PROVE  /\ DOMAIN e \subseteq Frames
           /\ \A f \in DOMAIN e : e[f] \in Exposures
           /\ Cardinality(DOMAIN e) <= KeepMax + 1
<1>1. TypeOK
  BY DEF Placed
<1>2. /\ DOMAIN e \subseteq Keys /\ \A k \in DOMAIN e : e[k] = effMap[k]
      /\ Cardinality(DOMAIN e) \in Nat /\ Cardinality(DOMAIN e) <= KeepMax
  BY <1>1, Erasing
<1>3. KeepMax \in Nat
  BY Constants
<1> QED
  BY <1>1, <1>2, <1>3 DEF TypeOK, Keys

LEMMA TypedNext == Placed /\ [Next]_vars => TypeOK'
<1> SUFFICES ASSUME Placed, [Next]_vars PROVE TypeOK'
  OBVIOUS
<1>1. /\ TypeOK /\ Fresh /\ Off /\ Handling /\ Coming /\ Recorded
      /\ Modes # {} /\ mode \in Modes
  BY KeysFinite DEF Placed
<1>2. /\ Ever \in Nat \ {0} /\ Frames = 0..(Ever - 1) /\ Max(Frames) \in Frames
      /\ KeepMax \in Nat \ {0} /\ MaxExposure \in Nat /\ MaxFrame \in Nat
      /\ MaxStreams \in Nat
  BY <1>1, FrameFacts, Constants
<1>3. CASE NewFrame
  <2>1. frame' \in -1..MaxFrame /\ frame + 1 \in 0..MaxFrame
    BY <1>1, <1>2, <1>3 DEF NewFrame, TypeOK
  <2>2. sofs' \in Seq(0..MaxFrame)
    <3>1. sofs \in Seq(0..MaxFrame) /\ sofs' \in {sofs, Append(sofs, frame + 1)}
      BY <1>1, <1>3 DEF NewFrame, TypeOK
    <3>2. Append(sofs, frame + 1) \in Seq(0..MaxFrame)
      BY <2>1, <3>1
    <3> QED
      BY <3>1, <3>2
  <2> QED
    BY <1>1, <1>3, <2>1, <2>2 DEF NewFrame, TypeOK, config, hw, handler
<1>4. CASE SetFirst
  <2>1. count' = count + 1 /\ count + 1 \in Exposures /\ count' \in 0..MaxExposure
    BY <1>1, <1>2, <1>4 DEF SetFirst, TypeOK, Exposures
  <2>2. Whole(count + 1) \in Setting
    BY <2>1, <1>2 DEF Whole, Setting, Exposures
  <2>3. used' \in [Frames -> Setting] /\ slipped' \subseteq Frames
    <3>1. PICK regs \in Writes :
              /\ Write(Whole(count + 1), regs)
              /\ slipped' = IF regs = Registers THEN slipped ELSE Frames
      BY <1>4 DEF SetFirst
    <3> QED
      BY <1>1, <2>2, <3>1, WriteEffect DEF TypeOK
  <2>4. /\ DOMAIN effMap' = {0} /\ effMap'[0] = count + 1
    BY <1>1, <1>4 DEF SetFirst, Fresh, Keys
  <2>5. Cardinality(DOMAIN effMap') = 1
    BY <2>4, FS_Singleton
  <2>6. /\ DOMAIN effMap' \subseteq Frames
        /\ \A f \in DOMAIN effMap' : effMap'[f] \in Exposures
        /\ Cardinality(DOMAIN effMap') <= KeepMax + 1
    BY <1>2, <2>1, <2>4, <2>5
  <2>7. last' \in Setting /\ first' \in BOOLEAN
    BY <1>4, <2>2 DEF SetFirst
  <2> QED
    BY <1>1, <1>4, <2>1, <2>3, <2>6, <2>7 DEF SetFirst, TypeOK, config
<1>5. CASE SetSingle
  <2>1. count' = count + 1 /\ count + 1 \in Exposures /\ count' \in 0..MaxExposure
    BY <1>1, <1>2, <1>5 DEF SetSingle, TypeOK, Exposures
  <2>2. expList' \in Seq([exp : Exposures, head : BOOLEAN])
    <3>1. [exp |-> count + 1, head |-> TRUE] \in [exp : Exposures, head : BOOLEAN]
      BY <2>1
    <3> QED
      BY <1>1, <1>5, <3>1 DEF SetSingle, TypeOK
  <2> QED
    BY <1>1, <1>5, <2>1, <2>2 DEF SetSingle, TypeOK, config, sensor, handler
<1>6. ASSUME NEW n \in TableSizes, SetTable(n) PROVE TypeOK'
  <2>1. /\ expList' \in Seq(Entry) /\ pooled' \subseteq Exposures
        /\ count' \in 0..MaxExposure
    BY <1>1, <1>6, TableEffect
  <2>2. expList' \in Seq([exp : Exposures, head : BOOLEAN])
    BY <2>1 DEF Entry
  <2> QED
    BY <1>1, <1>6, <2>1, <2>2 DEF SetTable, TypeOK, config, sensor, handler
<1>7. CASE SofTake
  <2>1. /\ last' \in Setting /\ sof' \in 0..MaxFrame /\ prev' = sof
        /\ sofs' \in Seq(0..MaxFrame) /\ expList' \in Seq(Entry)
        /\ gainList' = <<>> /\ dcgList' = <<>>
        /\ taken' \in [time : BOOLEAN, gain : BOOLEAN, dcg : BOOLEAN]
        /\ pc' \in {"idle", "write"}
    BY <1>1, <1>7, TakeEffect
  <2>2. /\ DOMAIN effMap' \subseteq Frames
        /\ \A f \in DOMAIN effMap' : effMap'[f] \in Exposures
        /\ Cardinality(DOMAIN effMap') <= KeepMax + 1
    BY <1>7, ErasedTyped DEF SofTake
  <2>3. /\ gainList' \in Seq(Exposures) /\ Len(gainList') <= 1
        /\ dcgList' \in Seq(Exposures) /\ Len(dcgList') <= 1
    BY <2>1
  <2>4. sof' \in -1..MaxFrame /\ prev' \in -1..MaxFrame
    BY <1>1, <2>1 DEF TypeOK
  <2>5. expList' \in Seq([exp : Exposures, head : BOOLEAN])
    BY <2>1 DEF Entry
  <2> QED
    BY <1>1, <1>7, <2>1, <2>2, <2>3, <2>4, <2>5 DEF SofTake, TypeOK, config, sensor
<1>8. CASE SofWrite
  <2>1. slipped' \subseteq Frames /\ used' \in [Frames -> Setting]
    BY <1>8, WritingTyped
  <2>2. pc' \in {"idle", "write", "record"}
    BY <1>8 DEF SofWrite
  <2> QED
    BY <1>1, <1>8, <2>1, <2>2 DEF SofWrite, TypeOK, config, hw
<1>9. CASE SofRecord
  <2>1. /\ sof + mode.time \in Frames
        /\ Keys' = Keys \cup {sof + mode.time}
        /\ \A k \in Keys : effMap'[k] = effMap[k]
        /\ effMap'[sof + mode.time] = last.time
        /\ Cardinality(Keys') = Cardinality(Keys) + 1
        /\ pc = "record" /\ pc' = "idle" /\ last.time \in Exposures
    BY <1>9, RecordEffect
  <2>2. Cardinality(Keys) <= KeepMax /\ Cardinality(Keys) \in Nat
    BY <1>1, <2>1, KeysFinite DEF Recorded
  <2>3. /\ DOMAIN effMap' \subseteq Frames
        /\ \A f \in DOMAIN effMap' : effMap'[f] \in Exposures
        /\ Cardinality(DOMAIN effMap') <= KeepMax + 1
    <3>1. Keys' = DOMAIN effMap' /\ Keys \subseteq Frames
          /\ \A f \in Keys : effMap[f] \in Exposures
      BY <1>1 DEF Keys, TypeOK
    <3>2. Cardinality(Keys') <= KeepMax + 1
      BY <1>2, <2>1, <2>2
    <3>3. Keys' \subseteq Frames /\ \A f \in Keys' : effMap'[f] \in Exposures
      BY <2>1, <3>1
    <3> QED
      BY <3>1, <3>2, <3>3
  <2>4. /\ gainList' \in {<<>>, <<last.time>>} /\ dcgList' \in {<<>>, <<last.time>>}
    BY <1>1, <1>9, <2>1 DEF SofRecord, Handling
  <2>5. \A q \in {<<>>, <<last.time>>} : q \in Seq(Exposures) /\ Len(q) <= 1
    <3> SUFFICES ASSUME NEW q \in {<<>>, <<last.time>>}
                 PROVE  q \in Seq(Exposures) /\ Len(q) <= 1
      OBVIOUS
    <3>1. CASE q = <<>>
      BY <3>1
    <3>2. CASE q = <<last.time>>
      BY <2>1, <3>2
    <3> QED
      BY <3>1, <3>2
  <2>6. /\ gainList' \in Seq(Exposures) /\ Len(gainList') <= 1
        /\ dcgList' \in Seq(Exposures) /\ Len(dcgList') <= 1
    BY <2>4, <2>5
  <2> QED
    BY <1>1, <1>9, <2>1, <2>3, <2>6 DEF SofRecord, TypeOK, config, sensor
<1>10. CASE Start
  <2>1. streams' \in 0..MaxStreams
    BY <1>1, <1>2, <1>10 DEF Start, TypeOK
  <2> QED
    BY <1>1, <1>10, <2>1 DEF Start, TypeOK, config, hw, handler
<1>11. CASE Stop
  <2>1. used' \in [Frames -> Setting]
    BY <1>1, <1>2, <1>11 DEF Stop, TypeOK
  <2>2. DOMAIN effMap' = {} /\ Cardinality(DOMAIN effMap') = 0
    <3>1. DOMAIN effMap' = {}
      BY <1>11 DEF Stop
    <3> QED
      BY <3>1, FS_EmptySet
  <2>3. /\ DOMAIN effMap' \subseteq Frames
        /\ \A f \in DOMAIN effMap' : effMap'[f] \in Exposures
        /\ Cardinality(DOMAIN effMap') <= KeepMax + 1
    BY <1>2, <2>2
  <2>4. /\ expList' \in Seq([exp : Exposures, head : BOOLEAN])
        /\ gainList' \in Seq(Exposures) /\ Len(gainList') <= 1
        /\ dcgList' \in Seq(Exposures) /\ Len(dcgList') <= 1
        /\ sofs' \in Seq(0..MaxFrame)
    BY <1>11 DEF Stop
  <2>5. taken' \in [time : BOOLEAN, gain : BOOLEAN, dcg : BOOLEAN]
    BY <1>11 DEF Stop, Nothing
  <2>6. /\ frame' \in -1..MaxFrame /\ sof' \in -1..MaxFrame /\ prev' \in -1..MaxFrame
        /\ slipped' \subseteq Frames
    BY <1>2, <1>11 DEF Stop
  <2> QED
    BY <1>1, <1>11, <2>1, <2>3, <2>4, <2>5, <2>6 DEF Stop, TypeOK, config
<1>12. CASE SetExpDelayInfo
  <2>1. mode' \in Modes /\ dcgDelayed' \in BOOLEAN
    BY <1>1, <1>12 DEF SetExpDelayInfo, TypeOK, DcgBetween
  <2> QED
    BY <1>1, <1>12, <2>1 DEF SetExpDelayInfo, TypeOK, hw, sensor, handler
<1>13. CASE UNCHANGED vars
  BY <1>1, <1>13 DEF TypeOK, vars, config, hw, sensor, handler
<1> QED
  BY <1>3, <1>4, <1>5, <1>6, <1>7, <1>8, <1>9, <1>10, <1>11, <1>12, <1>13
     DEF Next, SetExposureParams, HandleSof

-----------------------------------------------------------------------------
(* Where things are. *)

LEMMA FreshNext == Placed /\ [Next]_vars => Fresh'
<1> SUFFICES ASSUME Placed, [Next]_vars PROVE Fresh'
  OBVIOUS
<1>1. /\ TypeOK /\ Fresh /\ Off /\ Handling /\ Coming
  BY DEF Placed
<1>2. CASE NewFrame
  BY <1>1, <1>2 DEF NewFrame, Fresh, hw, sensor, handler, Keys
<1>3. CASE SetFirst
  <2>1. count + 1 \in Exposures /\ last' = Whole(count + 1) /\ first' = FALSE
    BY <1>1, <1>3, Constants DEF SetFirst, TypeOK, Exposures
  <2> QED
    BY <2>1 DEF Fresh, Whole
<1>4. CASE SetSingle
  BY <1>1, <1>4 DEF SetSingle, Fresh, sensor, handler, Keys
<1>5. ASSUME NEW n \in TableSizes, SetTable(n) PROVE Fresh'
  BY <1>1, <1>5 DEF SetTable, Fresh, sensor, handler, Keys
<1>6. CASE SofTake
  <2>1. first' = first
    BY <1>6 DEF SofTake
  <2>2. CASE first
    <3>1. expList = <<>> /\ gainList = <<>> /\ dcgList = <<>> /\ Keys = {}
      BY <1>1, <2>2 DEF Fresh
    <3>2. taken' = Nothing
      BY <1>6, <3>1 DEF SofTake, Nothing
    <3>3. expList' = <<>> /\ gainList' = <<>> /\ dcgList' = <<>> /\ pc' = "idle"
      BY <1>6, <3>1, <3>2 DEF SofTake, Pop
    <3>4. streaming' = streaming /\ resumed' = resumed
      BY <1>6 DEF SofTake, sensor
    <3>5. Keys' = {}
      <4>1. Keys' \subseteq Keys
        BY <1>1, <1>6, Erasing DEF SofTake, Keys
      <4> QED
        BY <3>1, <4>1
    <3> QED
      BY <1>1, <2>1, <2>2, <3>3, <3>5, <3>4 DEF Fresh
  <2>3. CASE ~first
    BY <1>1, <1>6, <2>1, <2>3, TakeEffect DEF Fresh
  <2> QED
    BY <2>2, <2>3
<1>7. CASE SofWrite
  BY <1>1, <1>7 DEF SofWrite, Fresh, hw, Keys
<1>8. CASE SofRecord
  <2>1. ~first /\ last' = last
    BY <1>8, RecordEffect
  <2> QED
    BY <1>1, <1>8, <2>1 DEF SofRecord, Fresh
<1>9. CASE Start
  BY <1>1, <1>9 DEF Start, Fresh, hw, handler, Keys
<1>10. CASE Stop
  BY <1>1, <1>10 DEF Stop, Fresh, Keys
<1>11. CASE SetExpDelayInfo
  BY <1>1, <1>11 DEF SetExpDelayInfo, Fresh, hw, sensor, handler, Keys
<1>12. CASE UNCHANGED vars
  BY <1>1, <1>12 DEF Fresh, vars, hw, sensor, handler, Keys
<1> QED
  BY <1>2, <1>3, <1>4, <1>5, <1>6, <1>7, <1>8, <1>9, <1>10, <1>11, <1>12
     DEF Next, SetExposureParams, HandleSof

LEMMA OffNext == Placed /\ [Next]_vars => Off'
<1> SUFFICES ASSUME Placed, [Next]_vars, ~streaming' PROVE Off'
  BY DEF Off
<1>1. /\ TypeOK /\ Fresh /\ Off /\ Handling /\ Coming
  BY DEF Placed
<1>2. CASE SetFirst
  <2>1. ~streaming /\ streaming' = streaming /\ resumed' = resumed
    BY <1>2 DEF SetFirst
  <2> DEFINE w == Whole(count + 1)
  <2>2. count + 1 \in Exposures /\ w \in Setting
    BY <1>1, <1>2, Constants DEF SetFirst, TypeOK, Exposures, Whole, Setting
  <2>3. \A f \in Frames \ slipped' : used'[f] = w
    <3> SUFFICES ASSUME NEW f \in Frames, f \notin slipped' PROVE used'[f] = w
      OBVIOUS
    <3>1. ActsOn(f, mode.time) /\ ActsOn(f, mode.gain) /\ DcgActs(f)
      BY <2>1 DEF ActsOn, DcgActs
    <3>2. PICK regs \in Writes :
              Write(w, regs) /\ slipped' = IF regs = Registers THEN slipped ELSE Frames
      BY <1>2 DEF SetFirst
    <3>3. "time" \in regs /\ "gain" \in regs /\ "dcg" \in regs
      BY <3>2, WritesAre
    <3>4. used'[f] = [time |-> w.time, gain |-> w.gain, dcg |-> w.dcg]
      BY <3>1, <3>2, <3>3 DEF Write
    <3> QED
      BY <3>4 DEF Whole
  <2>4. Keys' = {0} /\ effMap'[0] = count + 1
    BY <1>1, <1>2 DEF SetFirst, Fresh, Keys
  <2>5. last' = w /\ last'.time = count + 1
    BY <1>2 DEF SetFirst, Whole
  <2> HIDE DEF w
  <2>6. last' = Whole(last'.time)
    BY <2>5 DEF w
  <2> QED
    BY <1>1, <1>2, <2>1, <2>3, <2>4, <2>5, <2>6 DEF SetFirst, Off
<1>3. CASE SetSingle
  BY <1>1, <1>3 DEF SetSingle, Off, sensor, handler, Keys
<1>4. ASSUME NEW n \in TableSizes, SetTable(n) PROVE Off'
  BY <1>1, <1>4 DEF SetTable, Off, sensor, handler, Keys
<1>5. CASE NewFrame \/ SofTake \/ SofWrite \/ SofRecord
  <2>1. streaming' = streaming
    BY <1>5 DEF NewFrame, SofTake, SofWrite, SofRecord, sensor
  <2> QED
    BY <1>1, <1>5, <2>1 DEF NewFrame, SofTake, SofWrite, SofRecord, Off
<1>6. CASE Start
  BY <1>6 DEF Start
<1>7. CASE Stop
  BY <1>7 DEF Stop, Off
<1>8. CASE SetExpDelayInfo
  BY <1>1, <1>8 DEF SetExpDelayInfo, Off, hw, sensor, handler, Keys
<1>9. CASE UNCHANGED vars
  BY <1>1, <1>9 DEF Off, vars, hw, sensor, handler, Keys
<1> QED
  BY <1>2, <1>3, <1>4, <1>5, <1>6, <1>7, <1>8, <1>9
     DEF Next, SetExposureParams, HandleSof

LEMMA HandlingNext == Placed /\ [Next]_vars => Handling'
<1> SUFFICES ASSUME Placed, [Next]_vars PROVE Handling'
  OBVIOUS
<1>1. /\ TypeOK /\ Fresh /\ Off /\ Handling /\ Coming
  BY DEF Placed
<1>2. CASE NewFrame \/ Start \/ SetExpDelayInfo \/ UNCHANGED vars
  BY <1>1, <1>2
     DEF NewFrame, Start, SetExpDelayInfo, vars, hw, sensor, handler, Handling
<1>3. CASE SetFirst \/ SetSingle
  BY <1>1, <1>3 DEF SetFirst, SetSingle, sensor, handler, Handling
<1>4. ASSUME NEW n \in TableSizes, SetTable(n) PROVE Handling'
  BY <1>1, <1>4 DEF SetTable, sensor, handler, Handling
<1>5. CASE SofTake
  BY <1>1, <1>5, TakeEffect DEF Handling
<1>6. CASE SofWrite
  BY <1>1, <1>6 DEF SofWrite, hw, Handling
<1>7. CASE SofRecord
  BY <1>1, <1>7 DEF SofRecord, Handling
<1>8. CASE Stop
  BY <1>1, <1>8 DEF Stop, Handling
<1> QED
  BY <1>2, <1>3, <1>4, <1>5, <1>6, <1>7, <1>8
     DEF Next, SetExposureParams, HandleSof

LEMMA ComingNext == Placed /\ [Next]_vars => Coming'
<1> SUFFICES ASSUME Placed, [Next]_vars PROVE Coming'
  OBVIOUS
<1>1. /\ TypeOK /\ Fresh /\ Off /\ Handling /\ Coming
      /\ frame \in Int /\ sof \in Int /\ prev \in Int /\ sofs \in Seq(0..MaxFrame)
      /\ DOMAIN sofs = 1..Len(sofs) /\ Len(sofs) \in Nat
      /\ \A i \in DOMAIN sofs : sofs[i] \in Int
  <2>1. TypeOK /\ sofs \in Seq(0..MaxFrame)
    BY DEF Placed, TypeOK
  <2>2. DOMAIN sofs = 1..Len(sofs) /\ Len(sofs) \in Nat
    BY <2>1
  <2>3. \A i \in 1..Len(sofs) : sofs[i] \in 0..MaxFrame
    BY <2>1, ElementOfSeq
  <2>4. \A i \in DOMAIN sofs : sofs[i] \in Int
    BY <2>2, <2>3
  <2> QED
    BY <2>1, <2>2, <2>4 DEF Placed, TypeOK
<1>2. CASE NewFrame
  <2>1. /\ frame' = frame + 1 /\ sof' = sof /\ prev' = prev
        /\ sofs' \in {sofs, Append(sofs, frame + 1)}
    BY <1>2 DEF NewFrame, handler
  <2>2. CASE sofs' = sofs
    BY <1>1, <2>1, <2>2 DEF Coming
  <2>3. CASE sofs' = Append(sofs, frame + 1)
    <3>1. /\ DOMAIN sofs' = 1..(Len(sofs) + 1)
          /\ \A i \in 1..Len(sofs) : sofs'[i] = sofs[i]
          /\ sofs'[Len(sofs) + 1] = frame + 1
      BY <1>1, <2>3
    <3>2. \A i \in 1..(Len(sofs) + 1) : i \in 1..Len(sofs) \/ i = Len(sofs) + 1
      BY <1>1
    <3> QED
      BY <1>1, <2>1, <3>1, <3>2 DEF Coming
  <2> QED
    BY <2>1, <2>2, <2>3
<1>3. CASE SetFirst \/ SetSingle
  BY <1>1, <1>3 DEF SetFirst, SetSingle, sensor, handler, Coming
<1>4. ASSUME NEW n \in TableSizes, SetTable(n) PROVE Coming'
  BY <1>1, <1>4 DEF SetTable, sensor, handler, Coming
<1>5. CASE SofTake
  <2>1. /\ sofs' = Pop(sofs) /\ sof' = sofs[1] /\ prev' = sof /\ frame' = frame
        /\ sofs # <<>>
    BY <1>1, <1>5 DEF SofTake, sensor, Pop
  <2>2. /\ Len(sofs) \in Nat \ {0} /\ Len(sofs') = Len(sofs) - 1
        /\ sofs' \in Seq(0..MaxFrame)
        /\ \A i \in 1..(Len(sofs) - 1) : sofs'[i] = sofs[i + 1]
    BY <1>1, <2>1, PopEffect
  <2>3. DOMAIN sofs' = 1..(Len(sofs) - 1)
    BY <2>2
  <2>4. \A i \in DOMAIN sofs' : i + 1 \in DOMAIN sofs /\ 1 < i + 1 /\ sofs'[i] = sofs[i + 1]
    BY <1>1, <2>2, <2>3
  <2>5. 1 \in DOMAIN sofs
    BY <1>1, <2>2
  <2>6. \A i, j \in DOMAIN sofs' : i < j => i + 1 < j + 1
    BY <2>2, <2>3
  <2> QED
    BY <1>1, <2>1, <2>4, <2>5, <2>6 DEF Coming
<1>6. CASE SofWrite \/ SofRecord
  BY <1>1, <1>6 DEF SofWrite, SofRecord, sensor, hw, Coming
<1>7. CASE Start \/ SetExpDelayInfo \/ UNCHANGED vars
  BY <1>1, <1>7
     DEF Start, SetExpDelayInfo, vars, hw, sensor, handler, Coming
<1>8. CASE Stop
  BY <1>1, <1>8 DEF Stop, Coming
<1> QED
  BY <1>2, <1>3, <1>4, <1>5, <1>6, <1>7, <1>8
     DEF Next, SetExposureParams, HandleSof

\* The horizon only moves forward while a stream is on.
LEMMA HorizonMoves ==
    ASSUME Placed, [Next]_vars, mode' = mode, streaming => streaming'
    PROVE  /\ Horizon' \in Int /\ Horizon \in Int /\ Horizon <= Horizon'
           /\ pc' # "idle" => Horizon' = Horizon
           /\ pc = "record" /\ pc' = "idle" => Horizon' = sof + mode.time
<1>1. /\ TypeOK /\ Handling /\ Coming /\ Off /\ TypeOK'
      /\ sof \in Int /\ prev \in Int /\ mode.time \in Int
  <2>1. TypeOK /\ Handling /\ Coming /\ Off /\ TypeOK'
    BY TypedNext DEF Placed
  <2>2. sof \in Int /\ prev \in Int
    BY <2>1 DEF TypeOK
  <2>3. mode.time \in Int
    BY <2>1, KeysFinite, Constants
  <2> QED
    BY <2>1, <2>2, <2>3
<1>2. Done \in Int /\ Done' \in Int
  BY <1>1 DEF Done, TypeOK
<1>3. ASSUME pc' = pc, sof' = sof, prev' = prev PROVE Done' = Done
  BY <1>3 DEF Done
<1>4. CASE NewFrame \/ Start \/ SetExpDelayInfo \/ UNCHANGED vars
  <2>1. Done' = Done
    BY <1>3, <1>4
       DEF NewFrame, Start, SetExpDelayInfo, vars, sensor, handler
  <2> QED
    BY <1>1, <1>2, <1>4, <2>1
       DEF Horizon, NewFrame, Start, SetExpDelayInfo, vars, handler
<1>5. CASE SetExposureParams
  <2>1. pc' = pc /\ sof' = sof /\ prev' = prev
    BY <1>5 DEF SetExposureParams, SetFirst, SetSingle, SetTable, handler
  <2> QED
    BY <1>1, <1>2, <1>3, <2>1 DEF Horizon
<1>6. CASE SofTake
  <2>1. /\ pc' \in {"idle", "write"} /\ pc = "idle" /\ prev' = sof /\ sof < sof'
        /\ sof' \in Int
    BY <1>1, <1>6, TakeEffect DEF Placed
  <2>2. Done = sof /\ Done' \in {sof, sof'} /\ (pc' # "idle" => Done' = sof)
    BY <2>1 DEF Done
  <2> QED
    BY <1>1, <1>2, <2>1, <2>2 DEF Horizon
<1>7. CASE SofWrite \/ SofRecord
  <2>1. /\ pc \in {"write", "record"} /\ pc' \in {"idle", "record"} /\ sof' = sof
        /\ prev' = prev /\ prev < sof
    BY <1>1, <1>7 DEF SofWrite, SofRecord, Handling
  <2>2. Done = prev /\ Done' \in {prev, sof} /\ (pc' # "idle" => Done' = prev)
        /\ (pc' = "idle" => Done' = sof)
    BY <2>1 DEF Done
  <2> QED
    BY <1>1, <1>2, <2>1, <2>2 DEF Horizon
<1>8. CASE Stop
  BY <1>8 DEF Stop
<1> QED
  BY <1>4, <1>5, <1>6, <1>7, <1>8 DEF Next, HandleSof

LEMMA RecordedNext == Placed /\ [Next]_vars => Recorded'
<1> SUFFICES ASSUME Placed, [Next]_vars PROVE Recorded'
  OBVIOUS
<1>1. /\ TypeOK /\ Fresh /\ Off /\ Handling /\ Coming /\ Recorded
      /\ Keys \subseteq Nat /\ IsFiniteSet(Keys) /\ Cardinality(Keys) \in Nat
      /\ KeepMax \in Nat \ {0} /\ mode \in Modes /\ mode.time \in Nat \ {0}
  BY KeysFinite, Constants DEF Placed
<1>2. TypeOK'
  BY TypedNext
<1>3. ASSUME Keys' = Keys, first' = first, pc' = pc, mode' = mode,
             streaming => streaming'
      PROVE  Recorded'
  <2>1. Horizon \in Int /\ Horizon' \in Int /\ Horizon <= Horizon'
    BY <1>3, HorizonMoves
  <2>2. \A k \in Keys : k <= Horizon'
    BY <1>1, <2>1 DEF Recorded
  <2> QED
    BY <1>1, <1>3, <2>2 DEF Recorded
<1>4. CASE NewFrame \/ Start \/ UNCHANGED vars
  BY <1>3, <1>4 DEF NewFrame, Start, vars, config, hw, sensor, handler, Keys
<1>5. CASE SetFirst
  <2>1. Keys' = {0} /\ pc' = "idle" /\ mode' = mode /\ streaming' = streaming
    BY <1>1, <1>5 DEF SetFirst, Fresh, Keys, config, handler
  <2>2. Horizon = sof + mode.time /\ sof >= -1 /\ sof \in Int
    BY <1>1, <1>5 DEF Horizon, Done, Fresh, SetFirst, TypeOK
  <2>3. Horizon' = Horizon
    BY <1>5 DEF SetFirst, Horizon, Done, config, handler
  <2>4. \A k \in Keys' : k <= Horizon'
    BY <1>1, <2>1, <2>2, <2>3
  <2> QED
    BY <2>1, <2>4 DEF Recorded
<1>6. CASE SetSingle
  BY <1>3, <1>6 DEF SetSingle, Keys, config, sensor, handler
<1>7. ASSUME NEW n \in TableSizes, SetTable(n) PROVE Recorded'
  BY <1>3, <1>7 DEF SetTable, Keys, config, sensor, handler
<1>8. CASE SofTake
  <2>1. Horizon \in Int /\ Horizon' \in Int /\ Horizon <= Horizon'
    BY <1>8, HorizonMoves DEF SofTake, config, sensor
  <2>2. /\ Keys' \subseteq Keys
        /\ Cardinality(Keys') <= KeepMax
        /\ Keys' = Keys \/ Cardinality(Keys') >= KeepMax
    BY <1>1, <1>8, Erasing DEF SofTake, Keys
  <2>3. \A k \in Keys' : k <= Horizon'
    BY <1>1, <2>1, <2>2 DEF Recorded
  <2>4. first' = first
    BY <1>8 DEF SofTake
  <2>5. ~first => 0 \in Keys' \/ Cardinality(Keys') >= KeepMax
    BY <1>1, <2>2 DEF Recorded
  <2> QED
    BY <2>2, <2>3, <2>4, <2>5 DEF Recorded
<1>9. CASE SofWrite
  <2>1. Horizon \in Int /\ Horizon' \in Int /\ Horizon <= Horizon'
    BY <1>9, HorizonMoves DEF SofWrite, config
  <2>2. Keys' = Keys /\ first' = first /\ pc = "write"
    BY <1>9 DEF SofWrite, hw, Keys
  <2>3. \A k \in Keys : k <= Horizon'
    BY <1>1, <2>1 DEF Recorded
  <2> QED
    BY <1>1, <2>2, <2>3 DEF Recorded
<1>10. CASE SofRecord
  <2>1. /\ \A k \in Keys : k < sof + mode.time
        /\ Keys' = Keys \cup {sof + mode.time}
        /\ Cardinality(Keys') = Cardinality(Keys) + 1
        /\ pc = "record" /\ pc' = "idle" /\ ~first
    BY <1>10, RecordEffect DEF Placed
  <2>2. Horizon' = sof + mode.time /\ sof + mode.time \in Int
    BY <1>10, <2>1, HorizonMoves DEF SofRecord, config, sensor
  <2>3. \A k \in Keys' : k <= Horizon'
    BY <1>1, <2>1, <2>2
  <2>4. 0 \in Keys' \/ Cardinality(Keys') >= KeepMax
    BY <1>1, <2>1 DEF Recorded
  <2> QED
    BY <2>1, <2>3, <2>4 DEF Recorded
<1>11. CASE Stop
  BY <1>11 DEF Stop, Recorded, Keys
<1>12. CASE SetExpDelayInfo
  <2>1. /\ Keys' = Keys /\ pc' = "idle" /\ first' = first
        /\ sof' = -1 /\ mode' \in Modes
    BY <1>1, <1>12 DEF SetExpDelayInfo, Off, Keys, hw, handler
  <2>2. \A k \in Keys : k = 0
    BY <1>1, <1>12 DEF SetExpDelayInfo, Fresh, Off
  <2>3. mode'.time \in Nat \ {0}
    BY <2>1, Constants
  <2>4. Horizon' = -1 + mode'.time
    BY <2>1 DEF Horizon, Done
  <2>5. \A k \in Keys' : k <= Horizon'
    BY <2>1, <2>2, <2>3, <2>4
  <2> QED
    BY <1>1, <2>1, <2>5 DEF Recorded
<1> QED
  BY <1>4, <1>5, <1>6, <1>7, <1>8, <1>9, <1>10, <1>11, <1>12
     DEF Next, SetExposureParams, HandleSof

LEMMA PlacedNext == Placed /\ [Next]_vars => Placed'
BY TypedNext, FreshNext, OffNext, HandlingNext, ComingNext, RecordedNext DEF Placed

\* Delays, record, events and registers stay well typed in every behaviour.
THEOREM TypeCorrect == Spec => []TypeOK
<1>1. Placed => TypeOK
  BY DEF Placed
<1> QED
  BY <1>1, InitPlaced, PlacedNext, PTL DEF Spec

-----------------------------------------------------------------------------
(* What the record tells: the three steps of handle_sof. *)

\* A stream that begins with an exposure has it everywhere; afterwards delays
\* stay, and the stream goes on.
Begins == SetFirst \/ SetExpDelayInfo

LEMMA LiveSteps ==
    ASSUME Placed, [Next]_vars, Live'
    PROVE  \/ /\ Begins
              /\ Keys' = {0} /\ effMap'[0] = last'.time
              /\ last' = Whole(last'.time)
              /\ \A f \in Frames \ slipped' : used'[f] = last'
              /\ pc' = "idle" /\ gainList' = <<>> /\ dcgList' = <<>>
           \/ /\ Live /\ mode' = mode /\ dcgDelayed' = dcgDelayed
              /\ streaming => streaming'
              /\ ~Begins
<1>1. Placed' /\ Fresh /\ Off
  BY PlacedNext DEF Placed
<1>2. CASE SetFirst
  <2>1. first /\ ~first' /\ ~resumed' /\ resumed' = resumed /\ streaming' = streaming
    BY <1>2 DEF SetFirst, Live
  <2>2. ~streaming'
    BY <1>1, <2>1 DEF Fresh
  <2> QED
    BY <1>1, <1>2, <2>1, <2>2 DEF Placed, Off, Begins
<1>3. CASE SetExpDelayInfo
  <2>1. ~streaming' /\ ~first'
    BY <1>3 DEF SetExpDelayInfo, sensor, Live
  <2> QED
    BY <1>1, <1>3, <2>1 DEF Placed, Off, Begins
<1>4. CASE ~Begins /\ Start
  <2>1. first' = first /\ ~first /\ ~resumed /\ ~streaming
    BY <1>1, <1>4 DEF Start, Live, Off, hw
  <2> QED
    BY <1>4, <2>1 DEF Start, Live, config
<1>5. CASE Stop
  BY <1>5 DEF Stop, Live, hw
<1>6. CASE ~Begins /\ (NewFrame \/ SetSingle \/ HandleSof \/ UNCHANGED vars)
  <2>1. first' = first /\ resumed' = resumed /\ streaming' = streaming
        /\ mode' = mode /\ dcgDelayed' = dcgDelayed
    BY <1>6 DEF NewFrame, SetSingle, HandleSof, SofTake, SofWrite, SofRecord,
                vars, config, hw, sensor
  <2> QED
    BY <1>6, <2>1 DEF Live
<1>7. ASSUME ~Begins, NEW n \in TableSizes, SetTable(n)
      PROVE  /\ Live /\ mode' = mode /\ dcgDelayed' = dcgDelayed
             /\ streaming => streaming'
  BY <1>7 DEF SetTable, Live, config, sensor
<1> QED
  BY <1>2, <1>3, <1>4, <1>5, <1>6, <1>7 DEF Next, SetExposureParams, Begins

\* Numbers that the steps below calculate with.
LEMMA Numbers ==
    ASSUME Placed
    PROVE  /\ mode \in Modes /\ mode.time \in Nat \ {0}
           /\ mode.gain \in Nat /\ mode.dcg \in Int
           /\ mode.gain <= mode.time /\ mode.dcg <= mode.time
           /\ sof \in Int /\ prev \in Int /\ frame \in Int /\ sof <= frame
           /\ Horizon \in Int /\ Oldest \in Int /\ Oldest < Horizon
           /\ Frames \subseteq Nat /\ Ever \in Int /\ \A f \in Frames : f < Ever
           /\ pc # "idle" => Horizon = prev + mode.time /\ prev < sof
           /\ Horizon < Ever
<1>1. /\ TypeOK /\ Handling /\ Coming /\ Modes # {} /\ mode \in Modes
      /\ KeepMax \in Nat \ {0} /\ MaxFrame \in Nat
  BY KeysFinite, Constants DEF Placed
<1>2. /\ mode.time \in Nat \ {0} /\ mode.gain \in Nat /\ mode.dcg \in Int
      /\ mode.gain <= mode.time /\ mode.dcg <= mode.time
  BY <1>1, Constants
<1>3. sof \in -1..MaxFrame /\ prev \in -1..MaxFrame /\ frame \in Int /\ sof <= frame
  BY <1>1 DEF TypeOK, Coming
<1>4. Done \in -1..MaxFrame
  BY <1>3 DEF Done
<1>5. Ever \in Int /\ Frames = 0..(Ever - 1) /\ MaxFrame + mode.time < Ever
  BY <1>1, FrameFacts
<1>6. Frames \subseteq Nat /\ \A f \in Frames : f < Ever
  BY <1>5
<1>7. /\ Horizon \in Int /\ Oldest \in Int /\ Oldest < Horizon /\ Horizon < Ever
  BY <1>1, <1>2, <1>4, <1>5 DEF Horizon, Oldest
<1>8. pc # "idle" => Horizon = prev + mode.time /\ prev < sof
  BY <1>1 DEF Horizon, Done, Handling
<1> QED
  BY <1>1, <1>2, <1>3, <1>5, <1>6, <1>7, <1>8

\* Within the window there is always an answer.
LEMMA Answered ==
    ASSUME Placed, ~first, NEW f \in Frames, Oldest < f
    PROVE  \E k \in Keys : k <= f
<1>1. /\ Keys \subseteq Nat /\ IsFiniteSet(Keys) /\ KeepMax \in Nat \ {0}
      /\ Horizon \in Int /\ f \in Nat
  BY KeysFinite, Constants, Numbers DEF Placed
<1>2. /\ \A k \in Keys : k <= Horizon
      /\ 0 \in Keys \/ Cardinality(Keys) >= KeepMax
      /\ Horizon - KeepMax < f
  BY DEF Placed, Recorded, Oldest
<1> QED
  BY <1>1, <1>2, Covered

\* Trimming the record does not change an answer in the window.
LEMMA TakeAnswers ==
    ASSUME Placed, ~first, SofTake, NEW f \in Frames, Oldest < f
    PROVE  At(effMap', f) = At(effMap, f)
<1> DEFINE e == EraseOldest
<1>1. /\ Keys \subseteq Nat /\ IsFiniteSet(Keys) /\ KeepMax \in Nat \ {0}
      /\ Horizon \in Int /\ f \in Nat /\ TypeOK
  BY KeysFinite, Constants, Numbers DEF Placed
<1>2. /\ DOMAIN e \subseteq Keys
      /\ \A k \in DOMAIN e : e[k] = effMap[k]
      /\ IsFiniteSet(DOMAIN e)
      /\ DOMAIN e = Keys \/ Cardinality(DOMAIN e) >= KeepMax
      /\ \A o \in Keys \ DOMAIN e, k \in DOMAIN e : o < k
  BY <1>1, Erasing
<1> HIDE DEF e
<1>3. /\ \A k \in DOMAIN e : k <= Horizon
      /\ 0 \in DOMAIN e \/ Cardinality(DOMAIN e) >= KeepMax
      /\ Horizon - KeepMax < f /\ DOMAIN e \subseteq Nat
  BY <1>1, <1>2 DEF Placed, Recorded, Oldest
<1>4. PICK g \in DOMAIN e : g <= f
  BY <1>1, <1>2, <1>3, Covered
<1>5. DOMAIN effMap \subseteq Int /\ IsFiniteSet(DOMAIN effMap) /\ f \in Int
  BY <1>1 DEF Keys
<1>6. At(e, f) = At(effMap, f)
  BY <1>2, <1>4, <1>5, AtKept DEF Keys
<1> QED
  BY <1>6 DEF e, SofTake

\* The new entry answers for its frame and those after it alone.
LEMMA RecordAnswers ==
    ASSUME Placed, SofRecord, NEW f \in Frames
    PROVE  /\ sof + mode.time <= f => At(effMap', f) = last.time
           /\ f < sof + mode.time /\ Oldest < f => At(effMap', f) = At(effMap, f)
<1>1. /\ sof + mode.time \in Frames /\ \A k \in Keys : k < sof + mode.time
      /\ Keys' = Keys \cup {sof + mode.time} /\ ~first
      /\ \A k \in Keys : effMap'[k] = effMap[k]
      /\ effMap'[sof + mode.time] = last.time
  BY RecordEffect
<1>2. Keys \subseteq Int /\ IsFiniteSet(Keys) /\ sof + mode.time \in Int /\ f \in Int
  BY KeysFinite, Numbers DEF Placed
<1>3. ASSUME NEW e, e = effMap, NEW d, d = effMap', NEW n, n = sof + mode.time,
             NEW x, x = last.time
      PROVE  /\ n <= f => At(d, f) = x
             /\ f < n /\ (\E g \in Keys : g <= f) => At(d, f) = At(e, f)
  <2>1. /\ DOMAIN e \subseteq Int /\ IsFiniteSet(DOMAIN e) /\ n \in Int
        /\ DOMAIN d = DOMAIN e \cup {n} /\ d[n] = x
        /\ \A k \in DOMAIN e : d[k] = e[k]
        /\ \A k \in DOMAIN e : k < n
    BY <1>1, <1>2, <1>3 DEF Keys
  <2>2. DOMAIN e = Keys
    BY <1>3 DEF Keys
  <2>3. /\ n <= f => At(d, f) = x
        /\ f < n /\ (\E g \in DOMAIN e : g <= f) => At(d, f) = At(e, f)
    BY ONLY <1>2, <2>1, AtAdded
  <2> QED
    BY <2>2, <2>3
<1> QED
  BY <1>1, <1>3, Answered

\* What the first exposure leaves until the stream starts, and which steps leave the answers alone.
LEMMA FirstTells ==
    ASSUME Placed, [Next]_vars, Live', Begins, NEW f \in Frames
    PROVE  At(effMap', f) = last'.time
<1>1. Keys' = {0} /\ effMap'[0] = last'.time
  BY LiveSteps
<1>2. f \in Nat
  BY Numbers
<1> DEFINE e == effMap'
<1>3. DOMAIN e = {0} /\ e[0] = last'.time
  BY <1>1 DEF Keys
<1> HIDE DEF e
<1>4. DOMAIN e \subseteq Int /\ IsFiniteSet(DOMAIN e)
  <2>1. IsFiniteSet({0})
    BY FS_Singleton
  <2> QED
    BY <1>3, <2>1
<1>5. At(e, f) = e[0]
  <2>1. 0 \in DOMAIN e /\ 0 <= f /\ \A j \in DOMAIN e : j <= f => j <= 0
    BY <1>2, <1>3
  <2> QED
    BY <1>2, <1>4, <2>1, AtIs
<1> QED
  BY <1>3, <1>5 DEF e

told == <<effMap, used, last, slipped, pc, sof, prev, taken, gainList, dcgList>>

LEMMA QuietSteps ==
    ASSUME Placed, [Next]_vars, Live', ~Begins, ~HandleSof
    PROVE  UNCHANGED told
<1>1. CASE NewFrame \/ Start \/ UNCHANGED vars
  BY <1>1 DEF NewFrame, Start, vars, hw, sensor, handler, told
<1>2. CASE SetSingle
  BY <1>2 DEF SetSingle, sensor, handler, told
<1>3. ASSUME NEW n \in TableSizes, SetTable(n) PROVE UNCHANGED told
  BY <1>3 DEF SetTable, sensor, handler, told
<1>4. CASE Stop
  BY <1>4 DEF Stop, Live
<1> QED
  BY <1>1, <1>2, <1>3, <1>4 DEF Next, SetExposureParams, Begins

\* The window and its end move forward with the events.
LEMMA WindowMoves ==
    ASSUME Placed, [Next]_vars, Live', ~Begins
    PROVE  /\ Horizon' \in Int /\ Oldest' \in Int /\ Oldest' < Horizon'
           /\ Horizon <= Horizon' /\ Oldest <= Oldest'
           /\ pc' # "idle" => Horizon' = Horizon
           /\ pc = "record" /\ pc' = "idle" => Horizon' = sof + mode.time
<1>1. mode' = mode /\ (streaming => streaming')
  BY LiveSteps
<1>2. /\ Horizon' \in Int /\ Horizon \in Int /\ Horizon <= Horizon'
      /\ pc' # "idle" => Horizon' = Horizon
      /\ pc = "record" /\ pc' = "idle" => Horizon' = sof + mode.time
  BY <1>1, HorizonMoves
<1>3. Oldest = Horizon - KeepMax /\ Oldest' = Horizon' - KeepMax /\ KeepMax \in Nat \ {0}
  BY Constants DEF Oldest
<1>4. ASSUME NEW h \in Int, NEW i \in Int, h <= i
      PROVE  /\ i - KeepMax \in Int /\ i - KeepMax < i
             /\ h - KeepMax <= i - KeepMax
  <2>1. KeepMax \in Nat \ {0}
    BY Constants
  <2> QED
    BY ONLY <1>4, <2>1
<1> QED
  BY <1>2, <1>3, <1>4

\* First locked part: what was told before is still told, to the end if the
\* register is not to be written.
LEMMA TakeTells ==
    ASSUME Placed, [Next]_vars, Live', SofTake, ~Begins, NEW reg,
           NEW to, Tells(effMap, reg, slipped, Oldest, to)
    PROVE  Tells(effMap', reg, slipped', Oldest', to)
<1>1. Oldest <= Oldest' /\ Oldest' \in Int /\ Oldest \in Int /\ Frames \subseteq Nat
  BY WindowMoves, Numbers
<1>2. slipped' = slipped /\ ~first
  BY LiveSteps DEF SofTake, Live
<1>3. ASSUME NEW f \in Frames \ slipped, Oldest' < f, f < to
      PROVE  At(effMap', f) = reg[f]
  <2>1. Oldest < f
    BY <1>1, <1>3
  <2>2. At(effMap', f) = At(effMap, f)
    BY <1>2, <2>1, TakeAnswers
  <2> QED
    BY <1>3, <2>1, <2>2 DEF Tells
<1> QED
  BY <1>2, <1>3 DEF Tells

LEMMA TakeEnds ==
    ASSUME Placed, [Next]_vars, Live', SofTake, ~Begins, NEW x,
           Ends(effMap, Horizon, x)
    PROVE  Ends(effMap', Horizon', x)
<1>1. /\ Oldest < Horizon /\ Horizon <= Horizon' /\ Frames \subseteq Nat
      /\ Oldest \in Int /\ Horizon \in Int /\ Horizon' \in Int
  BY WindowMoves, Numbers
<1>2. ~first
  BY LiveSteps DEF Live
<1>3. ASSUME NEW f \in Frames, Horizon' <= f PROVE At(effMap', f) = x
  <2>1. Oldest < f /\ Horizon <= f
    BY <1>1, <1>3
  <2>2. At(effMap', f) = At(effMap, f)
    BY <1>2, <2>1, TakeAnswers
  <2> QED
    BY <2>1, <2>2 DEF Ends
<1> QED
  BY <1>3 DEF Ends

\* Second locked part.
LEMMA RecordTells ==
    ASSUME Placed, [Next]_vars, Live', SofRecord, ~Begins, NEW reg,
           Tells(effMap, reg, slipped, Oldest, sof + mode.time)
    PROVE  Tells(effMap', reg, slipped', Oldest', sof + mode.time)
<1>1. Oldest <= Oldest' /\ Oldest' \in Int /\ Oldest \in Int /\ Frames \subseteq Nat
  BY WindowMoves, Numbers
<1>2. slipped' = slipped
  BY DEF SofRecord
<1>3. ASSUME NEW f \in Frames \ slipped, Oldest' < f, f < sof + mode.time
      PROVE  At(effMap', f) = reg[f]
  <2>1. Oldest < f
    BY <1>1, <1>3
  <2>2. At(effMap', f) = At(effMap, f)
    BY <1>3, <2>1, RecordAnswers
  <2> QED
    BY <1>3, <2>1, <2>2 DEF Tells
<1> QED
  BY <1>2, <1>3 DEF Tells

\* Between them: each register acts after its own delay, and a write the sensor
\* takes heals all the frames it reaches.
Accepted ==
    /\ \A f \in slipped : f \in slipped' \/ f >= frame + mode.time
    /\ Slips \subseteq slipped'
    /\ \A f \in Frames :
          /\ used'[f].time = IF f >= frame + mode.time THEN last.time ELSE used[f].time
          /\ used'[f].gain = IF f >= frame + mode.gain THEN Composed.gain
                             ELSE used[f].gain
          /\ mode.dcg > 0 =>
                used'[f].dcg = IF f >= frame + mode.dcg THEN Composed.dcg
                               ELSE used[f].dcg

Refused ==
    /\ slipped \subseteq slipped'
    /\ \A f \in Frames : f >= Due => f \in slipped'
    /\ \A f \in Frames :
          /\ used'[f].time = used[f].time
          /\ \/ used'[f].gain = used[f].gain
             \/ f >= frame + mode.gain /\ used'[f].gain = Composed.gain
          /\ mode.dcg > 0 =>
                \/ used'[f].dcg = used[f].dcg
                \/ f >= frame + mode.dcg /\ used'[f].dcg = Composed.dcg

LEMMA WriteRegisters ==
    ASSUME Placed, SofWrite
    PROVE  Accepted \/ Refused
<1>1. TypeOK /\ Composed \in Setting /\ streaming /\ slipped \subseteq Frames
      /\ \A f \in Frames : f \in Int
  <2>1. TypeOK /\ streaming /\ slipped \subseteq Frames
    BY DEF Placed, Off, SofWrite, TypeOK
  <2>2. \A f \in Frames : f \in Int
    BY Numbers
  <2> QED
    BY <2>1, <2>2, ComposedTyped
<1>2. PICK regs \in Writes :
          /\ Write(Composed, regs)
          /\ slipped' = IF regs = Registers
                        THEN {f \in slipped : f < frame + mode.time} \cup Slips
                        ELSE slipped \cup {f \in Frames : f >= Due}
  BY DEF SofWrite
<1>3. Composed.time = last.time
  BY DEF Composed, Whole
<1> HIDE DEF Composed
<1>4. PICK s \in Setting : s = Composed
  BY <1>1
<1>5. Write(s, regs)
  BY <1>2, <1>4
<1>6. \A f \in Frames :
         /\ used'[f].time = IF "time" \in regs /\ ActsOn(f, mode.time)
                            THEN s.time ELSE used[f].time
         /\ used'[f].gain = IF "gain" \in regs /\ ActsOn(f, mode.gain)
                            THEN s.gain ELSE used[f].gain
         /\ used'[f].dcg = IF "dcg" \in regs /\ DcgActs(f)
                           THEN s.dcg ELSE used[f].dcg
  BY <1>1, <1>5, WriteEffect
<1>7. \A f, d \in Int : ActsOn(f, d) <=> f >= frame + d
  BY <1>1 DEF ActsOn
<1>8. mode.time \in Int /\ mode.gain \in Int /\ mode.dcg \in Int /\ frame \in Int
  BY Numbers
<1>9. mode.dcg > 0 => \A f \in Int : DcgActs(f) <=> f >= frame + mode.dcg
  BY <1>7, <1>8 DEF DcgActs
<1>10. CASE regs = Registers
  <2>1. "time" \in regs /\ "gain" \in regs /\ "dcg" \in regs
    BY <1>10, WritesAre
  <2>2. slipped' = {f \in slipped : f < frame + mode.time} \cup Slips
    BY <1>2, <1>10
  <2>3. \A f \in slipped : f \in slipped' \/ f >= frame + mode.time
    BY <1>1, <1>8, <2>2
  <2>4. ASSUME NEW f \in Frames
        PROVE  /\ used'[f].time = IF f >= frame + mode.time THEN last.time
                                  ELSE used[f].time
               /\ used'[f].gain = IF f >= frame + mode.gain THEN Composed.gain
                                  ELSE used[f].gain
               /\ mode.dcg > 0 =>
                     used'[f].dcg = IF f >= frame + mode.dcg THEN Composed.dcg
                                    ELSE used[f].dcg
    BY <1>1, <1>3, <1>4, <1>6, <1>7, <1>8, <1>9, <2>1
  <2> QED
    BY <2>2, <2>3, <2>4 DEF Accepted
<1>11. CASE regs # Registers
  <2>1. "time" \notin regs
    BY <1>11, WritesAre
  <2>2. slipped' = slipped \cup {f \in Frames : f >= Due}
    BY <1>2, <1>11
  <2>3. ASSUME NEW f \in Frames
        PROVE  /\ used'[f].time = used[f].time
               /\ \/ used'[f].gain = used[f].gain
                  \/ f >= frame + mode.gain /\ used'[f].gain = Composed.gain
               /\ mode.dcg > 0 =>
                     \/ used'[f].dcg = used[f].dcg
                     \/ f >= frame + mode.dcg /\ used'[f].dcg = Composed.dcg
    BY <1>1, <1>4, <1>6, <1>7, <1>8, <1>9, <2>1
  <2> QED
    BY <2>2, <2>3 DEF Refused
<1> QED
  BY <1>10, <1>11

\* From when on a refused write leaves the frames out.
LEMMA DueIs ==
    ASSUME Placed, SofWrite
    PROVE  /\ Due \in Int /\ Due <= sof + mode.time
           /\ taken.gain \/ taken.dcg => Due = Horizon
<1>1. /\ mode.time \in Int /\ sof \in Int /\ prev \in Int /\ prev < sof
      /\ Horizon = prev + mode.time
  <2>1. pc # "idle"
    BY DEF SofWrite
  <2> QED
    BY <2>1, Numbers
<1> QED
  BY <1>1 DEF Due

\* A register whose delay is one less than that of the time is written in time
\* for the frames after the horizon, but for those that slip.
LEMMA AcceptedTells ==
    ASSUME Placed, [Next]_vars, Live', SofWrite, ~Begins, Accepted,
           NEW reg, NEW reg2, NEW x, NEW delay \in Int, NEW due \in BOOLEAN,
           Tells(effMap, reg, slipped, Oldest, IF due THEN Horizon ELSE Ever),
           Ends(effMap, Horizon, x), delay >= mode.time - 1, delay <= mode.time,
           \A f \in Frames : reg2[f] = IF f >= frame + delay THEN x ELSE reg[f],
           due => (prev + mode.time)..(frame + delay - 1) \subseteq slipped'
    PROVE  Tells(effMap', reg2, slipped', Oldest', Ever)
<1>1. /\ Oldest <= Oldest' /\ Oldest' \in Int /\ Oldest \in Int /\ Frames \subseteq Nat
      /\ Horizon = prev + mode.time /\ prev < sof /\ sof <= frame
      /\ prev \in Int /\ sof \in Int /\ frame \in Int /\ mode.time \in Int
      /\ Horizon \in Int /\ \A f \in Frames : f < Ever
  <2>1. pc # "idle"
    BY DEF SofWrite
  <2> QED
    BY <2>1, WindowMoves, Numbers
<1>2. effMap' = effMap
  BY DEF SofWrite, hw
<1>3. ASSUME NEW f \in Frames \ slipped', Oldest' < f
      PROVE  At(effMap, f) = reg2[f]
  <2>1. Oldest < f /\ f \in Nat /\ f < Ever
    BY <1>1, <1>3
  <2>2. CASE f >= frame + delay
    <3>1. Horizon <= f
      BY <1>1, <2>1, <2>2
    <3>2. At(effMap, f) = x
      BY <3>1 DEF Ends
    <3> QED
      BY <2>2, <3>2
  <2>3. CASE ~(f >= frame + delay)
    <3>1. reg2[f] = reg[f]
      BY <2>3
    <3>2. due => f < Horizon
      <4>1. due => f \notin (prev + mode.time)..(frame + delay - 1)
        BY <1>3
      <4>2. f <= frame + delay - 1
        BY <1>1, <2>1, <2>3
      <4> QED
        BY <1>1, <2>1, <4>1, <4>2
    <3>3. f \notin slipped
      <4>1. ~(f >= frame + mode.time)
        BY <1>1, <2>1, <2>3
      <4> QED
        BY <1>3, <4>1 DEF Accepted
    <3>4. At(effMap, f) = reg[f]
      BY <2>1, <3>2, <3>3 DEF Tells
    <3> QED
      BY <3>1, <3>4
  <2> QED
    BY <2>2, <2>3
<1> QED
  BY <1>2, <1>3 DEF Tells

\* A refused write leaves such a register as it is, but for frames that are left
\* out or that have the exposure already.
LEMMA RefusedTells ==
    ASSUME Placed, [Next]_vars, Live', SofWrite, ~Begins, Refused,
           NEW reg, NEW reg2, NEW x, NEW delay \in Int, NEW due \in BOOLEAN,
           Tells(effMap, reg, slipped, Oldest, IF due THEN Horizon ELSE Ever),
           Ends(effMap, Horizon, x), delay >= mode.time - 1,
           \A f \in Frames : reg2[f] = reg[f] \/ (f >= frame + delay /\ reg2[f] = x),
           due => Due = Horizon
    PROVE  Tells(effMap', reg2, slipped', Oldest', Ever)
<1>1. /\ Oldest <= Oldest' /\ Oldest' \in Int /\ Oldest \in Int /\ Frames \subseteq Nat
      /\ Horizon = prev + mode.time /\ prev < sof /\ sof <= frame
      /\ prev \in Int /\ sof \in Int /\ frame \in Int /\ mode.time \in Int
      /\ Horizon \in Int /\ \A f \in Frames : f < Ever
  <2>1. pc # "idle"
    BY DEF SofWrite
  <2> QED
    BY <2>1, WindowMoves, Numbers
<1>2. effMap' = effMap
  BY DEF SofWrite, hw
<1>3. ASSUME NEW f \in Frames \ slipped', Oldest' < f
      PROVE  At(effMap, f) = reg2[f]
  <2>1. Oldest < f /\ f \in Nat /\ f < Ever /\ f \notin slipped
    BY <1>1, <1>3 DEF Refused
  <2>2. due => f < Horizon
    BY <1>1, <1>3, <2>1 DEF Refused
  <2>3. At(effMap, f) = reg[f]
    BY <2>1, <2>2 DEF Tells
  <2>4. CASE f >= frame + delay
    <3>1. Horizon <= f
      BY <1>1, <2>1, <2>4
    <3>2. At(effMap, f) = x
      BY <3>1 DEF Ends
    <3> QED
      BY <2>3, <3>2
  <2>5. CASE ~(f >= frame + delay)
    BY <2>3, <2>5
  <2> QED
    BY <2>4, <2>5
<1> QED
  BY <1>2, <1>3 DEF Tells

LEMMA WriteEnds ==
    ASSUME Placed, [Next]_vars, Live', SofWrite, ~Begins, NEW x,
           Ends(effMap, Horizon, x)
    PROVE  Ends(effMap', Horizon', x)
<1>1. Horizon <= Horizon' /\ Frames \subseteq Nat /\ Horizon \in Int /\ Horizon' \in Int
  BY WindowMoves, Numbers
<1>2. effMap' = effMap
  BY DEF SofWrite, hw
<1> QED
  BY <1>1, <1>2 DEF Ends

-----------------------------------------------------------------------------
(* The time. *)

LEMMA TimeFirst ==
    ASSUME Placed, [Next]_vars, Live', Begins
    PROVE  TimeTold'
<1>1. /\ \A f \in Frames : At(effMap', f) = last'.time
      /\ \A f \in Frames \ slipped' : used'[f].time = last'.time
      /\ pc' = "idle"
  <2>1. \A f \in Frames \ slipped' : used'[f] = last'
    BY LiveSteps
  <2>2. pc' = "idle"
    BY LiveSteps
  <2> QED
    BY <2>1, <2>2, FirstTells
<1>2. \A f \in Frames \ slipped' : At(effMap', f) = Times'[f]
  BY <1>1 DEF Times
<1> QED
  BY <1>1, <1>2 DEF TimeTold, Tells, Ends

LEMMA TimeTake ==
    ASSUME Placed, TimeTold, [Next]_vars, Live', ~Begins, SofTake
    PROVE  TimeTold'
<1>1. /\ pc = "idle" /\ pc' \in {"idle", "write"} /\ Live
      /\ taken'.time = (expList # <<>>)
      /\ expList = <<>> => last'.time = last.time
      /\ pc' = "idle" => expList = <<>>
      /\ Times' = Times
  <2>1. /\ pc = "idle" /\ pc' \in {"idle", "write"}
        /\ pc' = "idle" => expList = <<>>
    BY TakeEffect DEF Placed
  <2>2. Live
    BY LiveSteps
  <2>3. taken'.time = (expList # <<>>) /\ (expList = <<>> => last'.time = last.time)
    BY DEF SofTake
  <2>4. Times' = Times
    BY DEF SofTake, sensor, Times
  <2> QED
    BY <2>1, <2>2, <2>3, <2>4
<1>2. Tells(effMap, Times, slipped, Oldest, Ever) /\ Ends(effMap, Horizon, last.time)
  BY <1>1 DEF TimeTold
<1>3. Tells(effMap', Times', slipped', Oldest', Ever)
  BY <1>1, <1>2, TakeTells
<1>4. Ends(effMap', Horizon', last.time)
  BY <1>2, TakeEnds
<1>5. pc' = "idle" \/ ~taken'.time => last'.time = last.time
  BY <1>1
<1>6. Tells(effMap', Times', slipped', Oldest',
            IF pc' = "record" THEN sof' + mode'.time ELSE Ever)
  BY <1>1, <1>3
<1>7. pc' # "record"
  BY <1>1
<1>8. ASSUME pc' = "idle" \/ (pc' = "write" /\ ~taken'.time)
      PROVE  Ends(effMap', Horizon', last'.time)
  <2>1. last'.time = last.time
    BY <1>5, <1>8
  <2> QED
    BY <1>4, <2>1
<1> QED
  BY <1>6, <1>7, <1>8 DEF TimeTold

LEMMA TimeWrite ==
    ASSUME Placed, TimeTold, [Next]_vars, Live', ~Begins, SofWrite
    PROVE  TimeTold'
<1>1. /\ pc = "write" /\ Live /\ mode' = mode /\ last' = last /\ effMap' = effMap
      /\ sof' = sof /\ pc' = (IF taken.time THEN "record" ELSE "idle")
      /\ taken.time \in BOOLEAN
  <2>1. Live /\ mode' = mode
    BY LiveSteps
  <2>2. taken.time \in BOOLEAN
    BY DEF Placed, TypeOK
  <2> QED
    BY <2>1, <2>2 DEF SofWrite, hw
<1>2. Tells(effMap, Times, slipped, Oldest, Ever)
  BY <1>1 DEF TimeTold
<1>3. /\ mode.time \in Int /\ sof \in Int /\ frame \in Int /\ sof <= frame
      /\ Frames \subseteq Nat /\ Oldest' \in Int /\ Oldest \in Int
      /\ Oldest <= Oldest' /\ \A f \in Frames : f < Ever
  BY Numbers, WindowMoves
<1>4. Accepted \/ Refused
  BY WriteRegisters
<1>5. /\ Accepted => \A f \in Frames :
             Times'[f] = IF f >= frame + mode.time THEN last.time ELSE Times[f]
      /\ Refused => \A f \in Frames : Times'[f] = Times[f]
  BY DEF Times, Accepted, Refused
<1>6. CASE taken.time
  <2>1. pc' = "record"
    BY <1>1, <1>6
  <2>2. ASSUME NEW f \in Frames \ slipped', Oldest' < f, f < sof + mode.time
        PROVE  At(effMap, f) = Times'[f]
    <3>1. Oldest < f /\ f < Ever /\ ~(f >= frame + mode.time)
      BY <1>3, <2>2
    <3>2. f \notin slipped
      BY <1>4, <2>2, <3>1 DEF Accepted, Refused
    <3>3. At(effMap, f) = Times[f]
      BY <1>2, <3>1, <3>2 DEF Tells
    <3> QED
      BY <1>4, <1>5, <3>1, <3>3
  <2>3. Tells(effMap', Times', slipped', Oldest', sof' + mode'.time)
    BY <1>1, <2>2 DEF Tells
  <2>4. ASSUME NEW f \in Frames \ slipped', sof + mode.time <= f
        PROVE  used'[f].time = last.time
    <3>1. CASE Accepted
      <4>1. f \notin (sof + mode.time)..(frame + mode.time - 1)
        BY <1>6, <2>4, <3>1 DEF Accepted, Slips
      <4>2. f >= frame + mode.time
        BY <1>3, <2>4, <4>1
      <4> QED
        BY <3>1, <4>2 DEF Accepted
    <3>2. CASE Refused
      <4>1. f >= Due
        BY <1>3, <2>4, DueIs
      <4> QED
        BY <2>4, <3>2, <4>1 DEF Refused
    <3> QED
      BY <1>4, <3>1, <3>2
  <2>5. \A f \in Frames \ slipped' :
            sof' + mode'.time <= f => used'[f].time = last'.time
    BY <1>1, <2>4
  <2> QED
    BY <2>1, <2>3, <2>5 DEF TimeTold
<1>7. CASE ~taken.time
  <2>1. pc' = "idle"
    BY <1>1, <1>7
  <2>2. Ends(effMap, Horizon, last.time)
    BY <1>1, <1>7 DEF TimeTold
  <2>3. Tells(effMap', Times', slipped', Oldest', Ever)
    <3>1. ASSUME NEW reg, reg = Times, NEW reg2, reg2 = Times', NEW x, x = last.time,
                 NEW delay \in Int, delay = mode.time, NEW due \in BOOLEAN, ~due
          PROVE  Tells(effMap', reg2, slipped', Oldest', Ever)
      <4>1. Tells(effMap, reg, slipped, Oldest, IF due THEN Horizon ELSE Ever)
        BY <1>2, <3>1
      <4>2. /\ Accepted =>
                  \A f \in Frames : reg2[f] = IF f >= frame + delay THEN x ELSE reg[f]
            /\ Refused => \A f \in Frames : reg2[f] = reg[f]
        BY <1>5, <3>1
      <4>3. Ends(effMap, Horizon, x) /\ delay >= mode.time - 1 /\ delay <= mode.time
        BY <1>3, <2>2, <3>1
      <4>4. /\ due => (prev + mode.time)..(frame + delay - 1) \subseteq slipped'
            /\ due => Due = Horizon
        BY <3>1
      <4> HIDE <3>1
      <4> QED
        BY <1>4, <4>1, <4>2, <4>3, <4>4, AcceptedTells, RefusedTells
    <3>2. FALSE \in BOOLEAN /\ mode.time \in Int
      BY <1>3
    <3> QED
      BY <3>1, <3>2
  <2>4. Ends(effMap', Horizon', last'.time)
    BY <1>1, <2>2, WriteEnds
  <2> QED
    BY <2>1, <2>3, <2>4 DEF TimeTold
<1> QED
  BY <1>6, <1>7

LEMMA TimeRecord ==
    ASSUME Placed, TimeTold, [Next]_vars, Live', ~Begins, SofRecord
    PROVE  TimeTold'
<1>1. /\ pc = "record" /\ pc' = "idle" /\ Live /\ last' = last
      /\ slipped' = slipped /\ used' = used /\ Times' = Times
  <2>1. Live
    BY LiveSteps
  <2> QED
    BY <2>1 DEF SofRecord, sensor, Times
<1>2. Tells(effMap, Times, slipped, Oldest, sof + mode.time)
  BY <1>1 DEF TimeTold
<1>3. Tells(effMap', Times', slipped', Oldest', sof + mode.time)
  BY <1>1, <1>2, RecordTells
<1>4. \A f \in Frames \ slipped : sof + mode.time <= f => Times[f] = last.time
  BY <1>1 DEF TimeTold, Times
<1>5. \A f \in Frames : sof + mode.time <= f => At(effMap', f) = last.time
  BY RecordAnswers
<1>6. Frames \subseteq Nat /\ sof + mode.time \in Int
  BY Numbers
<1>7. Tells(effMap', Times', slipped', Oldest', Ever)
  BY <1>1, <1>3, <1>4, <1>5, <1>6 DEF Tells
<1>8. Ends(effMap', Horizon', last'.time)
  <2>1. Horizon' = sof + mode.time
    BY <1>1, WindowMoves
  <2> QED
    BY <1>1, <1>5, <2>1 DEF Ends
<1> QED
  BY <1>1, <1>7, <1>8 DEF TimeTold

LEMMA TimeNext == Placed /\ TimeTold /\ [Next]_vars => TimeTold'
<1> SUFFICES ASSUME Placed, TimeTold, [Next]_vars, Live' PROVE TimeTold'
  BY DEF TimeTold
<1>1. CASE Begins
  BY <1>1, TimeFirst
<1>2. CASE ~Begins /\ HandleSof
  BY <1>2, TimeTake, TimeWrite, TimeRecord DEF HandleSof
<1>3. CASE ~Begins /\ ~HandleSof
  <2>1. UNCHANGED told /\ mode' = mode /\ Live
    BY <1>3, QuietSteps, LiveSteps
  <2> QED
    BY <2>1 DEF told, TimeTold, Times, Oldest, Horizon, Done
<1> QED
  BY <1>1, <1>2, <1>3

-----------------------------------------------------------------------------
(* The registers that the lists delay. *)

LEMMA LagsTake ==
    ASSUME Placed, TimeTold, [Next]_vars, Live', ~Begins, SofTake,
           NEW list, NEW reg, NEW x, NEW due, Lags(list, reg, x, due),
           NEW x2, x2 = IF list = <<>> THEN x ELSE list[1],
           list # <<>> => pc' = "write"
    PROVE  /\ Tells(effMap', reg, slipped', Oldest',
                    IF list # <<>> THEN Horizon' ELSE Ever)
           /\ Ends(effMap', Horizon', x2)
<1>1. pc = "idle" /\ Live
  BY LiveSteps DEF SofTake
<1>2. CASE list = <<>>
  <2>1. Tells(effMap, reg, slipped, Oldest, Ever) /\ Ends(effMap, Horizon, x)
    BY <1>1, <1>2 DEF Lags
  <2>2. Tells(effMap', reg, slipped', Oldest', Ever)
    BY <2>1, TakeTells
  <2>3. Ends(effMap', Horizon', x)
    BY <2>1, TakeEnds
  <2> QED
    BY <1>2, <2>2, <2>3
<1>3. CASE list # <<>>
  <2>1. Tells(effMap, reg, slipped, Oldest, Horizon) /\ x2 = last.time
    BY <1>1, <1>3 DEF Lags
  <2>2. Horizon' = Horizon
    BY <1>3, WindowMoves
  <2>3. Tells(effMap', reg, slipped', Oldest', Horizon')
    BY <2>1, <2>2, TakeTells
  <2>4. Ends(effMap, Horizon, x2)
    BY <1>1, <2>1 DEF TimeTold
  <2>5. Ends(effMap', Horizon', x2)
    BY <2>4, TakeEnds
  <2> QED
    BY <1>3, <2>3, <2>5
<1> QED
  BY <1>2, <1>3

LEMMA LagsRecord ==
    ASSUME Placed, [Next]_vars, Live', ~Begins, SofRecord,
           NEW reg, NEW x, NEW due, Lags(<<>>, reg, x, due)
    PROVE  Tells(effMap', reg, slipped', Oldest', Horizon')
<1>1. pc = "record" /\ pc' = "idle"
  BY DEF SofRecord
<1>2. Tells(effMap, reg, slipped, Oldest, Ever)
  BY <1>1 DEF Lags
<1>3. /\ sof + mode.time \in Frames /\ Horizon' = sof + mode.time
      /\ Frames \subseteq Nat /\ \A f \in Frames : f < Ever
  BY <1>1, RecordEffect, WindowMoves, Numbers
<1>4. Tells(effMap, reg, slipped, Oldest, sof + mode.time)
  BY <1>2, <1>3 DEF Tells
<1> QED
  BY <1>3, <1>4, RecordTells

LEMMA GainTake ==
    ASSUME Placed, TimeTold, GainTold, [Next]_vars, Live', ~Begins, SofTake,
           GainLags
    PROVE  Lags(gainList, Gains, last.gain, taken.gain)'
<1>1. /\ gainList' = <<>> /\ Live /\ Gains' = Gains
      /\ gainList # <<>> => pc' = "write"
      /\ taken'.gain = (gainList # <<>>)
      /\ last'.gain = IF gainList = <<>> THEN last.gain ELSE gainList[1]
  <2>1. gainList' = <<>> /\ (gainList # <<>> => pc' = "write")
    BY TakeEffect DEF Placed
  <2>2. Live
    BY LiveSteps
  <2>3. Gains' = Gains /\ taken'.gain = (gainList # <<>>)
    BY DEF SofTake, sensor, Gains
  <2>4. last'.gain = IF gainList = <<>> THEN last.gain ELSE Head(gainList)
    BY DEF SofTake
  <2>5. gainList # <<>> => Head(gainList) = gainList[1]
    BY PopEffect DEF Placed, TypeOK
  <2> QED
    BY <2>1, <2>2, <2>3, <2>4, <2>5
<1>2. Lags(gainList, Gains, last.gain, taken.gain)
  BY <1>1 DEF GainTold
<1>3. /\ Tells(effMap', Gains, slipped', Oldest',
               IF gainList # <<>> THEN Horizon' ELSE Ever)
      /\ Ends(effMap', Horizon', last'.gain)
  BY <1>1, <1>2, LagsTake
<1>4. CASE gainList = <<>>
  BY <1>1, <1>3, <1>4 DEF Lags
<1>5. CASE gainList # <<>>
  BY <1>1, <1>3, <1>5 DEF Lags
<1> QED
  BY <1>4, <1>5

LEMMA DcgTake ==
    ASSUME Placed, TimeTold, DcgTold, [Next]_vars, Live', ~Begins, SofTake,
           DcgLags
    PROVE  Lags(dcgList, Dcgs, last.dcg, taken.dcg)'
<1>1. /\ dcgList' = <<>> /\ Live /\ Dcgs' = Dcgs
      /\ dcgList # <<>> => pc' = "write"
      /\ taken'.dcg = (dcgList # <<>>)
      /\ last'.dcg = IF dcgList = <<>> THEN last.dcg ELSE dcgList[1]
  <2>1. dcgList' = <<>> /\ (dcgList # <<>> => pc' = "write")
    BY TakeEffect DEF Placed
  <2>2. Live
    BY LiveSteps
  <2>3. Dcgs' = Dcgs /\ taken'.dcg = (dcgList # <<>>)
    BY DEF SofTake, sensor, Dcgs
  <2>4. last'.dcg = IF dcgList = <<>> THEN last.dcg ELSE Head(dcgList)
    BY DEF SofTake
  <2>5. dcgList # <<>> => Head(dcgList) = dcgList[1]
    BY PopEffect DEF Placed, TypeOK
  <2> QED
    BY <2>1, <2>2, <2>3, <2>4, <2>5
<1>2. Lags(dcgList, Dcgs, last.dcg, taken.dcg)
  BY <1>1 DEF DcgTold
<1>3. /\ Tells(effMap', Dcgs, slipped', Oldest',
               IF dcgList # <<>> THEN Horizon' ELSE Ever)
      /\ Ends(effMap', Horizon', last'.dcg)
  BY <1>1, <1>2, LagsTake
<1>4. CASE dcgList = <<>>
  BY <1>1, <1>3, <1>4 DEF Lags
<1>5. CASE dcgList # <<>>
  BY <1>1, <1>3, <1>5 DEF Lags
<1> QED
  BY <1>4, <1>5

LEMMA GainWrite ==
    ASSUME Placed, GainTold, [Next]_vars, Live', ~Begins, SofWrite, GainLags
    PROVE  Lags(gainList, Gains, last.gain, taken.gain)'
<1>1. /\ Live /\ pc = "write" /\ pc' # "write" /\ last' = last
      /\ gainList = <<>> /\ gainList' = <<>> /\ effMap' = effMap
      /\ taken.gain \in BOOLEAN
  <2>1. Live /\ gainList = <<>> /\ taken.gain \in BOOLEAN
    BY LiveSteps DEF Placed, Handling, SofWrite, TypeOK
  <2> QED
    BY <2>1 DEF SofWrite, hw
<1>2. Lags(gainList, Gains, last.gain, taken.gain)
  BY <1>1 DEF GainTold
<1>3. /\ Tells(effMap, Gains, slipped, Oldest, IF taken.gain THEN Horizon ELSE Ever)
      /\ Ends(effMap, Horizon, last.gain)
  BY <1>1, <1>2 DEF Lags
<1>4. Composed.gain = last.gain
  BY DEF Composed, Whole, GainLags, GainFits
<1>5. /\ Accepted => \A f \in Frames :
             Gains'[f] = IF f >= frame + mode.gain THEN last.gain ELSE Gains[f]
      /\ Refused => \A f \in Frames :
             \/ Gains'[f] = Gains[f]
             \/ f >= frame + mode.gain /\ Gains'[f] = last.gain
  BY <1>4 DEF Gains, Accepted, Refused
<1>6. /\ mode.gain \in Int /\ mode.gain >= mode.time - 1 /\ mode.gain <= mode.time
  BY Numbers DEF GainLags, GainFits
<1>7. /\ Accepted /\ taken.gain
             => (prev + mode.time)..(frame + mode.gain - 1) \subseteq slipped'
      /\ taken.gain => Due = Horizon
  BY DueIs DEF Accepted, Slips
<1>8. ASSUME NEW reg, reg = Gains, NEW reg2, reg2 = Gains', NEW x, x = last.gain,
             NEW delay \in Int, delay = mode.gain, NEW due \in BOOLEAN, due = taken.gain
      PROVE  Tells(effMap', reg2, slipped', Oldest', Ever)
  <2>1. /\ Tells(effMap, reg, slipped, Oldest, IF due THEN Horizon ELSE Ever)
        /\ Ends(effMap, Horizon, x) /\ delay >= mode.time - 1 /\ delay <= mode.time
    BY <1>3, <1>6, <1>8
  <2>2. /\ Accepted =>
              \A f \in Frames : reg2[f] = IF f >= frame + delay THEN x ELSE reg[f]
        /\ Refused =>
              \A f \in Frames : reg2[f] = reg[f] \/ (f >= frame + delay /\ reg2[f] = x)
    BY <1>5, <1>8
  <2>3. /\ Accepted /\ due => (prev + mode.time)..(frame + delay - 1) \subseteq slipped'
        /\ due => Due = Horizon
    BY <1>7, <1>8
  <2> HIDE <1>8
  <2> QED
    BY <2>1, <2>2, <2>3, WriteRegisters, AcceptedTells, RefusedTells
<1>9. Tells(effMap', Gains', slipped', Oldest', Ever)
  BY <1>1, <1>6, <1>8
<1>10. Ends(effMap', Horizon', last'.gain)
  BY <1>1, <1>3, WriteEnds
<1> QED
  BY <1>1, <1>9, <1>10 DEF Lags

LEMMA DcgWrite ==
    ASSUME Placed, DcgTold, [Next]_vars, Live', ~Begins, SofWrite, DcgLags
    PROVE  Lags(dcgList, Dcgs, last.dcg, taken.dcg)'
<1>1. /\ Live /\ pc = "write" /\ pc' # "write" /\ last' = last
      /\ dcgList = <<>> /\ dcgList' = <<>> /\ effMap' = effMap
      /\ taken.dcg \in BOOLEAN
  <2>1. Live /\ dcgList = <<>> /\ taken.dcg \in BOOLEAN
    BY LiveSteps DEF Placed, Handling, SofWrite, TypeOK
  <2> QED
    BY <2>1 DEF SofWrite, hw
<1>2. Lags(dcgList, Dcgs, last.dcg, taken.dcg)
  BY <1>1 DEF DcgTold
<1>3. /\ Tells(effMap, Dcgs, slipped, Oldest, IF taken.dcg THEN Horizon ELSE Ever)
      /\ Ends(effMap, Horizon, last.dcg)
  BY <1>1, <1>2 DEF Lags
<1>4. Composed.dcg = last.dcg
  BY DEF Composed, Whole, DcgLags
<1>5. /\ mode.dcg \in Int /\ mode.dcg >= mode.time - 1 /\ mode.dcg > 0
      /\ mode.dcg <= mode.time
  BY Numbers DEF DcgLags, DcgFits
<1>6. /\ Accepted => \A f \in Frames :
             Dcgs'[f] = IF f >= frame + mode.dcg THEN last.dcg ELSE Dcgs[f]
      /\ Refused => \A f \in Frames :
             \/ Dcgs'[f] = Dcgs[f]
             \/ f >= frame + mode.dcg /\ Dcgs'[f] = last.dcg
  BY <1>4, <1>5 DEF Dcgs, Accepted, Refused
<1>7. /\ Accepted /\ taken.dcg
             => (prev + mode.time)..(frame + mode.dcg - 1) \subseteq slipped'
      /\ taken.dcg => Due = Horizon
  BY DueIs DEF Accepted, Slips
<1>8. ASSUME NEW reg, reg = Dcgs, NEW reg2, reg2 = Dcgs', NEW x, x = last.dcg,
             NEW delay \in Int, delay = mode.dcg, NEW due \in BOOLEAN, due = taken.dcg
      PROVE  Tells(effMap', reg2, slipped', Oldest', Ever)
  <2>1. /\ Tells(effMap, reg, slipped, Oldest, IF due THEN Horizon ELSE Ever)
        /\ Ends(effMap, Horizon, x) /\ delay >= mode.time - 1 /\ delay <= mode.time
    BY <1>3, <1>5, <1>8
  <2>2. /\ Accepted =>
              \A f \in Frames : reg2[f] = IF f >= frame + delay THEN x ELSE reg[f]
        /\ Refused =>
              \A f \in Frames : reg2[f] = reg[f] \/ (f >= frame + delay /\ reg2[f] = x)
    BY <1>6, <1>8
  <2>3. /\ Accepted /\ due => (prev + mode.time)..(frame + delay - 1) \subseteq slipped'
        /\ due => Due = Horizon
    BY <1>7, <1>8
  <2> HIDE <1>8
  <2> QED
    BY <2>1, <2>2, <2>3, WriteRegisters, AcceptedTells, RefusedTells
<1>9. Tells(effMap', Dcgs', slipped', Oldest', Ever)
  BY <1>1, <1>5, <1>8
<1>10. Ends(effMap', Horizon', last'.dcg)
  BY <1>1, <1>3, WriteEnds
<1> QED
  BY <1>1, <1>9, <1>10 DEF Lags

\* What is recorded goes into the list of the register, for the next event.
LEMMA GainRecord ==
    ASSUME Placed, GainTold, [Next]_vars, Live', ~Begins, SofRecord, GainLags
    PROVE  Lags(gainList, Gains, last.gain, taken.gain)'
<1>1. /\ Live /\ gainList = <<>> /\ gainList' = <<last.time>> /\ last' = last
      /\ Gains' = Gains
  <2>1. Live /\ gainList = <<>>
    BY LiveSteps DEF Placed, Handling, SofRecord
  <2>2. gainList' = Append(gainList, last.time) /\ last' = last /\ Gains' = Gains
    BY DEF SofRecord, GainLags, sensor, Gains
  <2> QED
    BY <2>1, <2>2
<1>2. Lags(gainList, Gains, last.gain, taken.gain)
  BY <1>1 DEF GainTold
<1>3. Tells(effMap', Gains', slipped', Oldest', Horizon')
  BY <1>1, <1>2, LagsRecord
<1>4. gainList' # <<>> /\ gainList'[1] = last'.time
  BY <1>1
<1> QED
  BY <1>3, <1>4 DEF Lags

LEMMA DcgRecord ==
    ASSUME Placed, DcgTold, [Next]_vars, Live', ~Begins, SofRecord, DcgLags
    PROVE  Lags(dcgList, Dcgs, last.dcg, taken.dcg)'
<1>1. /\ Live /\ dcgList = <<>> /\ dcgList' = <<last.time>> /\ last' = last
      /\ Dcgs' = Dcgs
  <2>1. Live /\ dcgList = <<>>
    BY LiveSteps DEF Placed, Handling, SofRecord
  <2>2. dcgList' = Append(dcgList, last.time) /\ last' = last /\ Dcgs' = Dcgs
    BY DEF SofRecord, DcgLags, sensor, Dcgs
  <2> QED
    BY <2>1, <2>2
<1>2. Lags(dcgList, Dcgs, last.dcg, taken.dcg)
  BY <1>1 DEF DcgTold
<1>3. Tells(effMap', Dcgs', slipped', Oldest', Horizon')
  BY <1>1, <1>2, LagsRecord
<1>4. dcgList' # <<>> /\ dcgList'[1] = last'.time
  BY <1>1
<1> QED
  BY <1>3, <1>4 DEF Lags

LEMMA LagsFirst ==
    ASSUME Placed, [Next]_vars, Live', Begins
    PROVE  /\ Lags(gainList, Gains, last.gain, taken.gain)'
           /\ Lags(dcgList, Dcgs, last.dcg, taken.dcg)'
<1>1. /\ last' = Whole(last'.time) /\ pc' = "idle"
      /\ gainList' = <<>> /\ dcgList' = <<>>
      /\ \A f \in Frames \ slipped' : used'[f] = last'
      /\ \A f \in Frames : At(effMap', f) = last'.time
  BY LiveSteps, FirstTells
<1>2. last'.gain = last'.time /\ last'.dcg = last'.time
  BY <1>1 DEF Whole
<1>3. \A f \in Frames \ slipped' : Gains'[f] = last'.time /\ Dcgs'[f] = last'.time
  <2>1. ASSUME NEW f \in Frames \ slipped' PROVE Gains'[f] = last'.gain /\ Dcgs'[f] = last'.dcg
    BY <1>1 DEF Gains, Dcgs
  <2> QED
    BY <1>2, <2>1
<1>4. /\ Tells(effMap', Gains', slipped', Oldest', Ever)
      /\ Tells(effMap', Dcgs', slipped', Oldest', Ever)
      /\ Ends(effMap', Horizon', last'.gain) /\ Ends(effMap', Horizon', last'.dcg)
  BY <1>1, <1>2, <1>3 DEF Tells, Ends
<1> QED
  BY <1>1, <1>4 DEF Lags

LEMMA GainNext == Placed /\ TimeTold /\ GainTold /\ [Next]_vars => GainTold'
<1> SUFFICES ASSUME Placed, TimeTold, GainTold, [Next]_vars, Live', GainLags'
             PROVE  Lags(gainList, Gains, last.gain, taken.gain)'
  BY DEF GainTold
<1>1. CASE Begins
  BY <1>1, LagsFirst
<1>2. CASE ~Begins
  <2>1. Live /\ GainLags
    BY <1>2, LiveSteps DEF GainLags, GainFits, GainDelayed
  <2>2. CASE HandleSof
    BY <1>2, <2>1, <2>2, GainTake, GainWrite, GainRecord DEF HandleSof
  <2>3. CASE ~HandleSof
    <3>1. UNCHANGED told /\ mode' = mode
      BY <1>2, <2>3, QuietSteps, LiveSteps
    <3>2. Lags(gainList, Gains, last.gain, taken.gain)
      BY <2>1 DEF GainTold
    <3> QED
      BY <3>1, <3>2 DEF told, Lags, Gains, Oldest, Horizon, Done
  <2> QED
    BY <2>2, <2>3
<1> QED
  BY <1>1, <1>2

LEMMA DcgNext == Placed /\ TimeTold /\ DcgTold /\ [Next]_vars => DcgTold'
<1> SUFFICES ASSUME Placed, TimeTold, DcgTold, [Next]_vars, Live', DcgLags'
             PROVE  Lags(dcgList, Dcgs, last.dcg, taken.dcg)'
  BY DEF DcgTold
<1>1. CASE Begins
  BY <1>1, LagsFirst
<1>2. CASE ~Begins
  <2>1. Live /\ DcgLags
    <3>1. Live /\ mode' = mode /\ dcgDelayed' = dcgDelayed
      BY <1>2, LiveSteps
    <3> QED
      BY <3>1 DEF DcgLags, DcgFits, GainFits, GainDelayed
  <2>2. CASE HandleSof
    BY <1>2, <2>1, <2>2, DcgTake, DcgWrite, DcgRecord DEF HandleSof
  <2>3. CASE ~HandleSof
    <3>1. UNCHANGED told /\ mode' = mode
      BY <1>2, <2>3, QuietSteps, LiveSteps
    <3>2. Lags(dcgList, Dcgs, last.dcg, taken.dcg)
      BY <2>1 DEF DcgTold
    <3> QED
      BY <3>1, <3>2 DEF told, Lags, Dcgs, Oldest, Horizon, Done
  <2> QED
    BY <2>2, <2>3
<1> QED
  BY <1>1, <1>2

-----------------------------------------------------------------------------
(* Registers with the same delay, and the order of the exposures. *)

\* Where a refused write still reaches a register in time, nothing new is written.
LEMMA RefusedAgain ==
    ASSUME Placed, TimeTold, GainTold, Live, SofWrite, Refused,
           NEW f \in Frames \ slipped'
    PROVE  /\ f >= frame + mode.time => used[f].time = last.time
           /\ GainLags /\ f >= frame + mode.gain => used[f].gain = last.gain
<1>1. /\ mode.time \in Int /\ mode.gain \in Int /\ sof \in Int /\ prev \in Int
      /\ frame \in Int /\ sof <= frame /\ prev < sof /\ Horizon = prev + mode.time
      /\ Oldest \in Int /\ Oldest < Horizon /\ f \in Nat /\ f < Ever
      /\ pc = "write"
  <2>1. pc = "write"
    BY DEF SofWrite
  <2> QED
    BY <2>1, Numbers
<1>2. f \notin slipped /\ f < Due /\ Due <= sof + mode.time
      /\ (taken.gain \/ taken.dcg => Due = Horizon)
  BY <1>1, DueIs DEF Refused
<1>3. ASSUME NEW reg, NEW x, Tells(effMap, reg, slipped, Oldest, Ever),
             Ends(effMap, Horizon, x), f >= Horizon
      PROVE  reg[f] = x
  <2>1. At(effMap, f) = reg[f]
    BY <1>1, <1>2, <1>3 DEF Tells
  <2>2. At(effMap, f) = x
    BY <1>3 DEF Ends
  <2> QED
    BY <2>1, <2>2
<1>4. ASSUME f >= frame + mode.time PROVE used[f].time = last.time
  <2>1. ~taken.time
    <3>1. ~(f < sof + mode.time)
      BY <1>1, <1>4
    <3>2. Due \in Int
      BY DueIs
    <3> QED
      BY <1>1, <1>2, <3>1, <3>2
  <2>2. Tells(effMap, Times, slipped, Oldest, Ever) /\ Ends(effMap, Horizon, last.time)
    BY <1>1, <2>1 DEF TimeTold
  <2>3. f >= Horizon
    BY <1>1, <1>4
  <2> QED
    BY <1>3, <2>2, <2>3 DEF Times
<1>5. ASSUME GainLags, f >= frame + mode.gain PROVE used[f].gain = last.gain
  <2>1. mode.gain >= mode.time - 1
    BY <1>1, <1>5 DEF GainLags, GainFits
  <2>2. f >= Horizon
    BY <1>1, <1>5, <2>1
  <2>3. ~taken.gain
    BY <1>1, <1>2, <2>2
  <2>4. Lags(gainList, Gains, last.gain, taken.gain) /\ gainList = <<>>
    BY <1>1, <1>5 DEF GainTold, Placed, Handling
  <2>5. Tells(effMap, Gains, slipped, Oldest, Ever) /\ Ends(effMap, Horizon, last.gain)
    BY <2>3, <2>4 DEF Lags
  <2> QED
    BY <1>3, <2>2, <2>5 DEF Gains
<1> QED
  BY <1>4, <1>5

LEMMA TogetherWrite ==
    ASSUME Placed, TimeTold, GainTold, Together, Live, SofWrite,
           NEW f \in Frames \ slipped'
    PROVE  /\ ~GainDelayed => used'[f].gain = used'[f].time
           /\ ~dcgDelayed /\ (~GainDelayed \/ mode.dcg = mode.time) /\ DcgFits
                  => used'[f].dcg = used'[f].time
           /\ ~dcgDelayed /\ GainLags /\ mode.dcg = mode.gain /\ DcgFits
                  => used'[f].dcg = used'[f].gain
<1>1. /\ mode.time \in Int /\ mode.gain \in Int /\ mode.dcg \in Int
      /\ mode.gain <= mode.time /\ frame \in Int /\ f \in Int
  BY Numbers
<1>2. ~GainDelayed => mode.gain = mode.time
  BY <1>1 DEF GainDelayed
<1>3. Accepted \/ Refused
  BY WriteRegisters
<1>4. \/ f \notin slipped
      \/ /\ f >= frame + mode.time /\ f >= frame + mode.gain
         /\ f >= frame + mode.dcg /\ Accepted
  <2>1. mode.dcg <= mode.time
    BY Numbers
  <2> QED
    BY <1>1, <1>3, <2>1 DEF Accepted, Refused
<1>5. /\ used'[f].time = used[f].time \/ (f >= frame + mode.time /\ Accepted)
      /\ used'[f].gain = used[f].gain \/ (f >= frame + mode.gain)
  BY <1>3 DEF Accepted, Refused
<1>6. ASSUME ~GainDelayed PROVE used'[f].gain = used'[f].time
  <2>1. Composed.gain = last.time /\ mode.gain = mode.time
    BY <1>2, <1>6 DEF Composed, Whole
  <2>2. f \notin slipped => used[f].gain = used[f].time
    BY <1>6 DEF Together
  <2>3. CASE Accepted
    BY <1>4, <2>1, <2>2, <2>3 DEF Accepted
  <2>4. CASE Refused
    <3>1. f \notin slipped
      BY <2>4 DEF Refused
    <3>2. f >= frame + mode.time => used[f].time = last.time
      BY <2>4, RefusedAgain
    <3> QED
      BY <2>1, <2>2, <2>4, <3>1, <3>2 DEF Refused
  <2> QED
    BY <1>3, <2>3, <2>4
<1>7. ASSUME ~dcgDelayed, ~GainDelayed \/ mode.dcg = mode.time, DcgFits
      PROVE  used'[f].dcg = used'[f].time
  <2>1. mode.dcg = mode.time /\ mode.dcg > 0
    BY <1>2, <1>7 DEF DcgFits, DcgBetween
  <2>2. Composed.dcg = last.time
    BY <1>7, <2>1 DEF Composed, Whole
  <2>3. f \notin slipped => used[f].dcg = used[f].time
    BY <1>7 DEF Together
  <2>4. CASE Accepted
    BY <1>4, <2>1, <2>2, <2>3, <2>4 DEF Accepted
  <2>5. CASE Refused
    <3>1. f \notin slipped
      BY <2>5 DEF Refused
    <3>2. f >= frame + mode.time => used[f].time = last.time
      BY <2>5, RefusedAgain
    <3> QED
      BY <2>1, <2>2, <2>3, <2>5, <3>1, <3>2 DEF Refused
  <2> QED
    BY <1>3, <2>4, <2>5
<1>8. ASSUME ~dcgDelayed, GainLags, mode.dcg = mode.gain, DcgFits
      PROVE  used'[f].dcg = used'[f].gain
  <2>1. mode.dcg # mode.time /\ mode.dcg > 0 /\ GainDelayed
    BY <1>1, <1>8 DEF GainLags, GainDelayed, DcgFits
  <2>2. Composed.dcg = last.gain /\ Composed.gain = last.gain
    BY <1>8, <2>1 DEF Composed, Whole
  <2>3. f \notin slipped => used[f].dcg = used[f].gain
    BY <1>8 DEF Together
  <2>4. CASE Accepted
    BY <1>4, <1>8, <2>1, <2>2, <2>3, <2>4 DEF Accepted
  <2>5. CASE Refused
    <3>1. f \notin slipped
      BY <2>5 DEF Refused
    <3>2. f >= frame + mode.gain => used[f].gain = last.gain
      BY <1>8, <2>5, RefusedAgain
    <3> QED
      BY <1>8, <2>1, <2>2, <2>3, <2>5, <3>1, <3>2 DEF Refused
  <2> QED
    BY <1>3, <2>4, <2>5
<1> QED
  BY <1>6, <1>7, <1>8

LEMMA TogetherNext ==
    Placed /\ TimeTold /\ GainTold /\ Together /\ [Next]_vars => Together'
<1> SUFFICES ASSUME Placed, TimeTold, GainTold, Together, [Next]_vars, Live'
             PROVE  Together'
  BY DEF Together
<1>1. CASE Begins
  <2>1. last' = Whole(last'.time) /\ \A f \in Frames \ slipped' : used'[f] = last'
    BY <1>1, LiveSteps
  <2>2. last'.gain = last'.time /\ last'.dcg = last'.time
    BY <2>1 DEF Whole
  <2> QED
    BY <2>1, <2>2 DEF Together
<1>2. CASE ~Begins
  <2>1. Live /\ mode' = mode /\ dcgDelayed' = dcgDelayed
    BY <1>2, LiveSteps
  <2>2. GainDelayed' = GainDelayed /\ DcgFits' = DcgFits /\ GainLags' = GainLags
    BY <2>1 DEF GainDelayed, DcgFits, GainLags, GainFits
  <2>3. CASE SofWrite
    <3>1. ASSUME NEW f \in Frames \ slipped'
          PROVE  /\ ~GainDelayed' => used'[f].gain = used'[f].time
                 /\ ~dcgDelayed' /\ (~GainDelayed' \/ mode'.dcg = mode'.time) /\ DcgFits'
                        => used'[f].dcg = used'[f].time
                 /\ ~dcgDelayed' /\ GainLags' /\ mode'.dcg = mode'.gain /\ DcgFits'
                        => used'[f].dcg = used'[f].gain
      <4>1. /\ ~GainDelayed => used'[f].gain = used'[f].time
            /\ ~dcgDelayed /\ (~GainDelayed \/ mode.dcg = mode.time) /\ DcgFits
                   => used'[f].dcg = used'[f].time
            /\ ~dcgDelayed /\ GainLags /\ mode.dcg = mode.gain /\ DcgFits
                   => used'[f].dcg = used'[f].gain
        BY <2>1, <2>3, TogetherWrite
      <4> QED
        BY <2>1, <2>2, <4>1
    <3> QED
      BY <3>1 DEF Together
  <2>4. CASE ~SofWrite
    <3>1. used' = used /\ slipped' = slipped
      <4>1. CASE HandleSof
        BY <2>4, <4>1 DEF HandleSof, SofTake, SofRecord, sensor
      <4>2. CASE ~HandleSof
        BY <1>2, <4>2, QuietSteps DEF told
      <4> QED
        BY <4>1, <4>2
    <3> QED
      BY <2>1, <2>2, <3>1 DEF Together
  <2> QED
    BY <2>3, <2>4
<1> QED
  BY <1>1, <1>2

LEMMA OrderQueued ==
    ASSUME Placed, InOrder, SetSingle \/ \E n \in TableSizes : SetTable(n)
    PROVE  InOrder'
<1>1. /\ expList \in Seq(Entry) /\ Len(expList) \in Nat /\ count \in Nat
      /\ DOMAIN expList = 1..Len(expList) /\ last.time \in Nat
      /\ \A i \in 1..Len(expList) : expList[i].exp \in Int
      /\ Keys' = Keys /\ effMap' = effMap /\ last' = last
  <2>1. /\ expList \in Seq(Entry) /\ Len(expList) \in Nat /\ count \in Nat
        /\ DOMAIN expList = 1..Len(expList)
    BY DEF Placed, TypeOK, Entry
  <2>2. \A i \in 1..Len(expList) : expList[i].exp \in Int
    <3>1. \A i \in 1..Len(expList) : expList[i] \in Entry
      BY <2>1, ElementOfSeq
    <3> QED
      BY <3>1 DEF Entry, Exposures
  <2>3. last.time \in Nat
    BY DEF Placed, TypeOK, Setting
  <2>4. effMap' = effMap /\ last' = last
    BY DEF SetSingle, SetTable
  <2> QED
    BY <2>1, <2>2, <2>3, <2>4 DEF Keys
<1>2. /\ last.time <= count
      /\ \A i \in 1..Len(expList) :
            last.time <= expList[i].exp /\ expList[i].exp <= count
      /\ \A i, j \in 1..Len(expList) : i < j => expList[i].exp <= expList[j].exp
  BY <1>1 DEF InOrder
<1>3. \E n \in Nat : \E m \in 0..Len(expList), k \in 0..n :
         /\ count' = count + n
         /\ expList' \in Seq(Entry) /\ Len(expList') = m + k
         /\ \A i \in 1..m : expList'[i] = expList[i]
         /\ \A i \in 1..k : expList'[m + i].exp = count + i
  <2>1. CASE SetSingle
    <3>1. PICK x : x = [exp |-> count + 1, head |-> TRUE]
      OBVIOUS
    <3>2. expList' = Append(expList, x) /\ count' = count + 1 /\ x \in Entry
      <4>1. count + 1 \in Exposures
        BY <1>1, <2>1, Constants DEF SetSingle, Exposures
      <4> QED
        BY <2>1, <3>1, <4>1 DEF SetSingle, Entry
    <3>3. /\ Append(expList, x) \in Seq(Entry)
          /\ Len(Append(expList, x)) = Len(expList) + 1
          /\ \A i \in 1..Len(expList) : Append(expList, x)[i] = expList[i]
          /\ Append(expList, x)[Len(expList) + 1] = x
      BY <1>1, <3>2, AppendProperties
    <3>4. \A i \in 1..1 : expList'[Len(expList) + i].exp = count + i
      BY <3>1, <3>2, <3>3
    <3>5. PICK m \in 0..Len(expList) : m = Len(expList)
      <4>1. Len(expList) \in 0..Len(expList)
        BY <1>1
      <4> QED
        BY <4>1
    <3>6. /\ count' = count + 1
          /\ expList' \in Seq(Entry) /\ Len(expList') = m + 1
          /\ \A i \in 1..m : expList'[i] = expList[i]
          /\ \A i \in 1..1 : expList'[m + i].exp = count + i
      BY <3>2, <3>3, <3>4, <3>5
    <3>7. 1 \in Nat /\ 1 \in 0..1
      OBVIOUS
    <3> QED
      BY <3>6, <3>7
  <2>2. ASSUME NEW n \in TableSizes, SetTable(n)
        PROVE  \E m \in 0..Len(expList), k \in 0..n :
                  /\ count' = count + n /\ n \in Nat
                  /\ expList' \in Seq(Entry) /\ Len(expList') = m + k
                  /\ \A i \in 1..m : expList'[i] = expList[i]
                  /\ \A i \in 1..k : expList'[m + i].exp = count + i
    BY <2>2, TableEffect, Constants DEF Placed
  <2> QED
    BY <2>1, <2>2
<1>4. PICK n \in Nat : \E m \in 0..Len(expList), k \in 0..n :
         /\ count' = count + n
         /\ expList' \in Seq(Entry) /\ Len(expList') = m + k
         /\ \A i \in 1..m : expList'[i] = expList[i]
         /\ \A i \in 1..k : expList'[m + i].exp = count + i
  BY <1>3
<1>5. PICK m \in 0..Len(expList) : \E k \in 0..n :
         /\ count' = count + n
         /\ expList' \in Seq(Entry) /\ Len(expList') = m + k
         /\ \A i \in 1..m : expList'[i] = expList[i]
         /\ \A i \in 1..k : expList'[m + i].exp = count + i
  BY <1>4
<1>6. PICK k \in 0..n :
         /\ count' = count + n
         /\ expList' \in Seq(Entry) /\ Len(expList') = m + k
         /\ \A i \in 1..m : expList'[i] = expList[i]
         /\ \A i \in 1..k : expList'[m + i].exp = count + i
  BY <1>5
<1>7. DOMAIN expList' = 1..(m + k) /\ last.time <= count'
  BY <1>1, <1>2, <1>6
<1>8. ASSUME NEW i \in 1..(m + k)
      PROVE  \/ i \in 1..m /\ i \in 1..Len(expList) /\ expList'[i].exp = expList[i].exp
             \/ i > m /\ expList'[i].exp = count + (i - m) /\ i - m \in 1..k
  <2>1. CASE i <= m
    <3>1. i \in 1..m /\ i \in 1..Len(expList)
      BY <1>1, <2>1
    <3>2. expList'[i] = expList[i]
      BY <1>6, <3>1
    <3> QED
      BY <3>1, <3>2
  <2>2. CASE i > m
    <3>1. i - m \in 1..k /\ m + (i - m) = i
      BY <2>2
    <3>2. expList'[m + (i - m)].exp = count + (i - m)
      BY <1>6, <3>1
    <3> QED
      BY <2>2, <3>1, <3>2
  <2> QED
    BY <2>1, <2>2
<1>9. ASSUME NEW i \in 1..(m + k)
      PROVE  last.time <= expList'[i].exp /\ expList'[i].exp <= count'
  <2>1. CASE i > m
    BY <1>1, <1>2, <1>6, <1>8, <2>1, SMTT(30)
  <2>2. CASE ~(i > m)
    <3>1. i \in 1..Len(expList) /\ expList'[i].exp = expList[i].exp
      BY <1>8, <2>2
    <3>2. last.time <= expList[i].exp /\ expList[i].exp <= count
          /\ expList[i].exp \in Int
      BY <1>1, <1>2, <3>1
    <3> QED
      BY <1>1, <1>6, <3>1, <3>2
  <2> QED
    BY <2>1, <2>2
<1>10. ASSUME NEW i \in 1..(m + k), NEW j \in 1..(m + k), i < j
       PROVE  expList'[i].exp <= expList'[j].exp
  <2>1. CASE j > m
    <3>1. expList'[j].exp = count + (j - m) /\ j - m \in 1..k
      BY <1>8, <2>1
    <3>2. CASE i > m
      <4>1. expList'[i].exp = count + (i - m)
        BY <1>8, <3>2
      <4> QED
        BY <1>1, <1>10, <3>1, <4>1
    <3>3. CASE ~(i > m)
      <4>1. i \in 1..Len(expList) /\ expList'[i].exp = expList[i].exp
        BY <1>8, <3>3
      <4>2. expList[i].exp <= count /\ expList[i].exp \in Int
        BY <1>1, <1>2, <4>1
      <4> QED
        BY <1>1, <3>1, <4>1, <4>2
    <3> QED
      BY <3>2, <3>3
  <2>2. CASE ~(j > m)
    <3>1. j \in 1..Len(expList) /\ expList'[j].exp = expList[j].exp
      BY <1>8, <2>2
    <3>2. i \in 1..Len(expList) /\ expList'[i].exp = expList[i].exp
      BY <1>8, <1>10, <2>2
    <3> QED
      BY <1>2, <1>10, <3>1, <3>2
  <2> QED
    BY <2>1, <2>2
<1>11. /\ last'.time <= count'
       /\ \A i \in DOMAIN expList' :
             last'.time <= expList'[i].exp /\ expList'[i].exp <= count'
       /\ \A i, j \in DOMAIN expList' : i < j => expList'[i].exp <= expList'[j].exp
  BY <1>1, <1>7, <1>9, <1>10
<1>12. /\ \A h \in Keys' : effMap'[h] <= last'.time
       /\ \A g, h \in Keys' : g <= h => effMap'[g] <= effMap'[h]
  BY <1>1 DEF InOrder
<1> QED
  BY <1>11, <1>12 DEF InOrder

LEMMA OrderTaken ==
    ASSUME Placed, InOrder, SofTake
    PROVE  InOrder'
<1>1. /\ expList \in Seq(Entry) /\ count' = count /\ count \in Nat
      /\ expList' = Pop(expList) /\ TypeOK
      /\ last'.time = IF expList = <<>> THEN last.time ELSE Head(expList).exp
  BY DEF SofTake, Placed, TypeOK, Entry
<1>2. /\ Keys' \subseteq Keys /\ \A k \in Keys' : effMap'[k] = effMap[k]
  <2>1. PICK e : e = EraseOldest
    OBVIOUS
  <2>2. DOMAIN e \subseteq Keys /\ \A k \in DOMAIN e : e[k] = effMap[k]
    BY <1>1, <2>1, Erasing
  <2>3. effMap' = e
    BY <2>1 DEF SofTake
  <2> QED
    BY <2>2, <2>3 DEF Keys
<1>3. \A k \in Keys : effMap[k] \in Nat /\ effMap[k] <= last.time
  BY DEF InOrder, Placed, TypeOK, Keys, Exposures
<1>4. last.time \in Nat
  BY <1>1 DEF TypeOK, Setting
<1>5. /\ last.time <= last'.time /\ last'.time <= count /\ last'.time \in Nat
      /\ \A i \in DOMAIN expList' :
            last'.time <= expList'[i].exp /\ expList'[i].exp <= count
      /\ \A i, j \in DOMAIN expList' : i < j => expList'[i].exp <= expList'[j].exp
  <2>1. CASE expList = <<>>
    <3>1. expList' = <<>> /\ last'.time = last.time
      BY <1>1, <2>1 DEF Pop
    <3> QED
      BY <1>4, <2>1, <3>1 DEF InOrder
  <2>2. CASE expList # <<>>
    <3>1. /\ Pop(expList) \in Seq(Entry) /\ Head(expList) = expList[1]
          /\ Len(expList) \in Nat \ {0} /\ Len(Pop(expList)) = Len(expList) - 1
          /\ \A i \in 1..(Len(expList) - 1) : Pop(expList)[i] = expList[i + 1]
      BY <1>1, <2>2, PopEffect
    <3>2. PICK n \in Nat : n = Len(expList) - 1
      BY <3>1
    <3>3. /\ DOMAIN expList = 1..(n + 1) /\ DOMAIN expList' = 1..n
          /\ \A i \in 1..n : expList'[i] = expList[i + 1]
          /\ last'.time = expList[1].exp
      BY <1>1, <2>2, <3>1, <3>2
    <3>4. \A i \in 1..(n + 1) : expList[i].exp \in Nat
      <4>1. \A i \in 1..Len(expList) : expList[i] \in Entry
        BY <1>1, ElementOfSeq
      <4> QED
        BY <3>1, <3>2, <4>1 DEF Entry, Exposures
    <3>5. /\ \A i \in 1..(n + 1) : last.time <= expList[i].exp /\ expList[i].exp <= count
          /\ \A i, j \in 1..(n + 1) : i < j => expList[i].exp <= expList[j].exp
      BY <3>3 DEF InOrder
    <3>6. last.time <= last'.time /\ last'.time <= count /\ last'.time \in Nat
      <4>1. 1 \in 1..(n + 1)
        BY <3>2
      <4> QED
        BY <3>3, <3>4, <3>5, <4>1
    <3>7. ASSUME NEW i \in 1..n
          PROVE  last'.time <= expList'[i].exp /\ expList'[i].exp <= count
      <4>1. i + 1 \in 1..(n + 1) /\ 1 \in 1..(n + 1) /\ 1 < i + 1
        BY <3>7
      <4> QED
        BY <3>3, <3>5, <4>1
    <3>8. ASSUME NEW i \in 1..n, NEW j \in 1..n, i < j
          PROVE  expList'[i].exp <= expList'[j].exp
      <4>1. i + 1 \in 1..(n + 1) /\ j + 1 \in 1..(n + 1) /\ i + 1 < j + 1
        BY <3>8
      <4> QED
        BY <3>3, <3>5, <4>1
    <3> QED
      BY <3>3, <3>6, <3>7, <3>8
  <2> QED
    BY <2>1, <2>2
<1>6. \A k \in Keys' : effMap'[k] <= last'.time
  BY <1>2, <1>3, <1>4, <1>5
<1>7. \A j, k \in Keys' : j <= k => effMap'[j] <= effMap'[k]
  BY <1>2 DEF InOrder
<1> QED
  BY <1>1, <1>5, <1>6, <1>7 DEF InOrder

LEMMA OrderRecorded ==
    ASSUME Placed, InOrder, SofRecord
    PROVE  InOrder'
<1>1. /\ \A k \in Keys : k < sof + mode.time
      /\ Keys' = Keys \cup {sof + mode.time}
      /\ \A k \in Keys : effMap'[k] = effMap[k]
      /\ effMap'[sof + mode.time] = last.time
      /\ last' = last /\ last.time \in Nat
  BY RecordEffect DEF Exposures
<1>2. expList' = expList /\ count' = count
  BY DEF SofRecord
<1>3. Keys \subseteq Int /\ sof + mode.time \in Int
  BY KeysFinite, Numbers DEF Placed
<1>4. \A k \in Keys : effMap[k] <= last.time
  BY DEF InOrder
<1>5. \A k \in Keys' : effMap'[k] <= last'.time
  BY <1>1, <1>4
<1>6. ASSUME NEW j \in Keys', NEW k \in Keys', j <= k
      PROVE  effMap'[j] <= effMap'[k]
  <2>1. CASE k = sof + mode.time
    BY <1>1, <1>5, <2>1
  <2>2. CASE k # sof + mode.time
    <3>1. k \in Keys /\ j \in Keys
      BY <1>1, <1>3, <1>6, <2>2
    <3> QED
      BY <1>1, <1>6, <3>1 DEF InOrder
  <2> QED
    BY <2>1, <2>2
<1> QED
  BY <1>1, <1>2, <1>5, <1>6 DEF InOrder

LEMMA OrderNext == Placed /\ InOrder /\ [Next]_vars => InOrder'
<1> SUFFICES ASSUME Placed, InOrder, [Next]_vars PROVE InOrder'
  OBVIOUS
<1>1. ASSUME expList' = expList, effMap' = effMap, last' = last, count' = count
      PROVE  InOrder'
  BY <1>1 DEF InOrder, Keys
<1>2. CASE NewFrame \/ Start \/ SetExpDelayInfo \/ SofWrite \/ UNCHANGED vars
  BY <1>1, <1>2 DEF NewFrame, Start, SetExpDelayInfo, SofWrite, vars, hw
<1>3. CASE SetFirst
  <2>1. expList' = <<>> /\ Keys' = {0} /\ effMap'[0] = count + 1 /\ count' = count + 1
        /\ last'.time = count + 1
    BY <1>3 DEF SetFirst, Placed, Fresh, Keys, Whole
  <2>2. count \in Nat
    BY DEF Placed, TypeOK
  <2> QED
    BY <2>1, <2>2 DEF InOrder
<1>4. CASE Stop
  <2>1. expList' = <<>> /\ effMap' = <<>> /\ last' = last /\ count' = count
    BY <1>4 DEF Stop
  <2> QED
    BY <2>1 DEF InOrder, Keys
<1> QED
  BY <1>2, <1>3, <1>4, OrderQueued, OrderTaken, OrderRecorded
     DEF Next, SetExposureParams, HandleSof

-----------------------------------------------------------------------------
(* The invariant. *)

LEMMA InitInv == Init => Inv
<1> SUFFICES ASSUME Init PROVE Inv
  OBVIOUS
<1>1. Placed /\ first
  BY InitPlaced DEF Init
<1>2. InOrder
  BY Constants DEF Init, InOrder, Whole, Keys
<1> QED
  BY <1>1, <1>2 DEF Inv, TimeTold, GainTold, DcgTold, Together, Live

LEMMA InvNext == Inv /\ [Next]_vars => Inv'
BY PlacedNext, TimeNext, GainNext, DcgNext, TogetherNext, OrderNext DEF Inv

LEMMA Invariant == Spec => []Inv
BY InitInv, InvNext, PTL DEF Spec

\* What a lookup finds in the window.
LEMMA LookedUp ==
    ASSUME Inv, streaming, ~resumed, NEW f \in Window
    PROVE  /\ Found(f) # {}
           /\ Lookup(f) = At(effMap, f)
           /\ Live
           /\ f \in Frames /\ Oldest < f /\ f <= Horizon
           /\ \E k \in Keys : k <= f /\ Lookup(f) = effMap[k]
                              /\ \A j \in Keys : j <= f => j <= k
<1>1. Placed /\ ~first /\ Live
  BY DEF Inv, Placed, Fresh, Live
<1>2. f \in Frames /\ Oldest < f /\ f <= Horizon
  <2>1. f \in Frames /\ f > Horizon - KeepMax /\ f <= Horizon
    BY DEF Window
  <2>2. Horizon \in Int /\ KeepMax \in Int /\ Frames \subseteq Nat
    BY <1>1, Numbers, Constants
  <2> QED
    BY <2>1, <2>2 DEF Oldest
<1>3. PICK g \in Keys : g <= f
  BY <1>1, <1>2, Answered
<1>4. Found(f) # {}
  BY <1>3 DEF Found, Keys
<1>5. Lookup(f) = At(effMap, f)
  BY DEF Lookup, Found, At
<1>6. DOMAIN effMap \subseteq Int /\ IsFiniteSet(DOMAIN effMap) /\ f \in Int
  BY <1>1, <1>2, KeysFinite, Numbers DEF Placed, Keys
<1>7. \E k \in DOMAIN effMap : /\ k <= f /\ g <= k
                               /\ \A j \in DOMAIN effMap : j <= f => j <= k
                               /\ At(effMap, f) = effMap[k]
  BY <1>3, <1>6, AtExists DEF Keys
<1> QED
  BY <1>1, <1>2, <1>4, <1>5, <1>7 DEF Keys

LEMMA InvReports == Inv => ReportedIsUsed
<1> SUFFICES ASSUME Inv, streaming, ~resumed, NEW f \in Window \ slipped
             PROVE  /\ Found(f) # {}
                    /\ Lookup(f) = used[f].time
                    /\ GainFits /\ f <= Done + mode.gain => Lookup(f) = used[f].gain
                    /\ GainFits /\ DcgFits /\ f <= Done + mode.dcg
                           => Lookup(f) = used[f].dcg
  BY DEF ReportedIsUsed
<1>1. /\ Found(f) # {} /\ Lookup(f) = At(effMap, f) /\ Live
      /\ f \in Frames \ slipped /\ Oldest < f /\ f <= Horizon
  BY LookedUp
<1>2. /\ mode.time \in Int /\ mode.gain \in Int /\ mode.dcg \in Int
      /\ mode.gain <= mode.time /\ mode.dcg <= mode.time
      /\ Horizon = Done + mode.time /\ Done \in Int /\ f \in Int /\ f < Ever
      /\ pc = "record" => Horizon < sof + mode.time
  <2>1. Placed
    BY DEF Inv
  <2>2. Done \in Int
    BY <2>1 DEF Placed, TypeOK, Done
  <2> QED
    BY <1>1, <2>1, <2>2, Numbers DEF Horizon
<1>3. Lookup(f) = used[f].time
  <2>1. Tells(effMap, Times, slipped, Oldest,
              IF pc = "record" THEN sof + mode.time ELSE Ever)
    BY <1>1 DEF Inv, TimeTold
  <2>2. f < (IF pc = "record" THEN sof + mode.time ELSE Ever)
    <3>1. sof \in Int
      BY Numbers DEF Inv
    <3> QED
      BY <1>1, <1>2, <3>1
  <2>3. At(effMap, f) = Times[f]
    BY <1>1, <2>1, <2>2 DEF Tells
  <2> QED
    BY <1>1, <2>3 DEF Times
<1>4. /\ ~GainDelayed => used[f].gain = used[f].time
      /\ ~dcgDelayed /\ (~GainDelayed \/ mode.dcg = mode.time) /\ DcgFits
             => used[f].dcg = used[f].time
      /\ ~dcgDelayed /\ GainLags /\ mode.dcg = mode.gain /\ DcgFits
             => used[f].dcg = used[f].gain
  BY <1>1 DEF Inv, Together
<1>5. ASSUME NEW list, NEW reg, NEW x, NEW due, Lags(list, reg, x, due), f < Horizon
      PROVE  Lookup(f) = reg[f]
  <2>1. Tells(effMap, reg, slipped, Oldest,
              IF list # <<>> \/ (pc = "write" /\ due) THEN Horizon ELSE Ever)
    BY <1>5 DEF Lags
  <2>2. f < (IF list # <<>> \/ (pc = "write" /\ due) THEN Horizon ELSE Ever)
    BY <1>2, <1>5
  <2> QED
    BY <1>1, <2>1, <2>2 DEF Tells
<1>6. ASSUME GainFits, f <= Done + mode.gain PROVE Lookup(f) = used[f].gain
  <2>1. CASE ~GainDelayed
    BY <1>3, <1>4, <2>1
  <2>2. CASE GainDelayed
    <3>1. Lags(gainList, Gains, last.gain, taken.gain)
      BY <1>1, <1>6, <2>2 DEF Inv, GainTold, GainLags
    <3>2. f < Horizon
      BY <1>2, <1>6, <2>2 DEF GainDelayed
    <3> QED
      BY <1>1, <1>5, <3>1, <3>2 DEF Gains
  <2> QED
    BY <2>1, <2>2
<1>7. ASSUME GainFits, DcgFits, f <= Done + mode.dcg PROVE Lookup(f) = used[f].dcg
  <2>1. CASE dcgDelayed
    <3>1. Lags(dcgList, Dcgs, last.dcg, taken.dcg)
      BY <1>1, <1>7, <2>1 DEF Inv, DcgTold, DcgLags
    <3>2. mode.dcg # mode.time
      BY <1>7, <2>1 DEF DcgFits, DcgBetween
    <3>3. f < Horizon
      BY <1>2, <1>7, <3>2
    <3> QED
      BY <1>1, <1>5, <3>1, <3>3 DEF Dcgs
  <2>2. CASE ~dcgDelayed
    <3>1. mode.dcg = mode.time \/ mode.dcg = mode.gain
      BY <1>7, <2>2 DEF DcgFits, DcgBetween
    <3>2. CASE ~GainDelayed \/ mode.dcg = mode.time
      BY <1>3, <1>4, <1>7, <2>2, <3>2
    <3>3. CASE GainDelayed /\ mode.dcg = mode.gain
      BY <1>4, <1>6, <1>7, <2>2, <3>3 DEF GainLags
    <3> QED
      BY <3>1, <3>2, <3>3
  <2> QED
    BY <2>1, <2>2
<1> QED
  BY <1>1, <1>3, <1>6, <1>7

\* ReportedIsUsed in every behaviour: in a stream that began with an exposure, a
\* lookup for a frame of the window finds an entry, and it is what the sensor
\* takes the frame with.  Excepted are frames whose write came too late or was
\* refused, and a gain or DCG mode of a mode whose delays the lists cannot handle.
THEOREM ReportsCorrect == Spec => []ReportedIsUsed
BY Invariant, InvReports, PTL

-----------------------------------------------------------------------------
(* The reports of a stream are the log of ExposureLog. *)

Reporting == streaming /\ ~resumed
Reported == IF resumed \/ ~streaming THEN <<>> ELSE [f \in Window |-> Lookup(f)]

LEMMA ReportedIs ==
    /\ ~Reporting => Reported = <<>>
    /\ Reporting => Reported = [f \in Window |-> At(effMap, f)]
<1>1. \A f \in Window : Lookup(f) = At(effMap, f)
  BY DEF Lookup, Found, At
<1>2. [f \in Window |-> Lookup(f)] = [f \in Window |-> At(effMap, f)]
  BY <1>1
<1> QED
  BY <1>2 DEF Reporting, Reported

\* What a log reads from the record: an interval of frames that ends at the
\* horizon, and exposures in the order they were set.
Readable ==
    Reporting =>
        /\ ~first
        /\ \E g \in Frames : Window = g..Horizon
        /\ Horizon \in Window
        /\ \A f \in Window : /\ f \in Frames /\ Oldest < f /\ f <= Horizon
                             /\ At(effMap, f) \in Exposures
        /\ \A f, g \in Window : f <= g => At(effMap, f) <= At(effMap, g)

LEMMA InvReads == Inv => Readable
<1> SUFFICES ASSUME Inv, streaming, ~resumed PROVE Readable
  BY DEF Readable, Reporting
<1>1. /\ Placed /\ Horizon \in Int /\ Oldest \in Int /\ Oldest < Horizon
      /\ Horizon < Ever /\ Oldest = Horizon - KeepMax /\ KeepMax \in Nat \ {0}
  BY Numbers, Constants DEF Inv, Oldest
<1>2. Ever \in Nat \ {0} /\ Frames = 0..(Ever - 1)
  BY <1>1, FrameFacts, KeysFinite DEF Placed
<1>3. Horizon >= 0
  <2>1. Done \in Int /\ Done >= -1
    BY <1>1 DEF Placed, TypeOK, Done
  <2>2. mode.time \in Nat \ {0}
    BY <1>1, Numbers
  <2> QED
    BY <2>1, <2>2 DEF Horizon
<1>4. Horizon \in Window
  BY <1>1, <1>2, <1>3 DEF Window
<1>5. PICK g \in Frames : g = IF Oldest < 0 THEN 0 ELSE Oldest + 1
  <2>1. CASE Oldest < 0
    <3>1. 0 \in Frames
      BY <1>2
    <3> QED
      BY <2>1, <3>1
  <2>2. CASE ~(Oldest < 0)
    <3>1. Oldest + 1 \in Frames
      BY <1>1, <1>2, <2>2
    <3> QED
      BY <2>2, <3>1
  <2> QED
    BY <2>1, <2>2
<1>6. Window = g..Horizon
  BY <1>1, <1>2, <1>5 DEF Window
<1>7. ASSUME NEW f \in Window
      PROVE  /\ f \in Frames /\ Oldest < f /\ f <= Horizon /\ ~first
             /\ \E k \in Keys : k <= f /\ At(effMap, f) = effMap[k]
                                /\ \A j \in Keys : j <= f => j <= k
  BY LookedUp DEF Live
<1>8. \A f \in Window : At(effMap, f) \in Exposures
  <2>1. \A k \in Keys : effMap[k] \in Exposures
    BY <1>1 DEF Placed, TypeOK, Keys
  <2> QED
    BY <1>7, <2>1
<1>9. ASSUME NEW f \in Window, NEW h \in Window, f <= h
      PROVE  At(effMap, f) <= At(effMap, h)
  <2>1. PICK k \in Keys : k <= f /\ At(effMap, f) = effMap[k]
    BY <1>7
  <2>2. PICK j \in Keys : /\ At(effMap, h) = effMap[j]
                          /\ \A i \in Keys : i <= h => i <= j
    BY <1>7
  <2>3. k <= j
    <3>1. k \in Int /\ f \in Int /\ h \in Int
      BY <1>1, <1>2, <1>7, KeysFinite DEF Placed
    <3>2. k <= h
      BY <1>9, <2>1, <3>1
    <3> QED
      BY <2>2, <3>2
  <2> QED
    BY <2>1, <2>2, <2>3 DEF Inv, InOrder
<1> QED
  BY <1>4, <1>6, <1>7, <1>8, <1>9 DEF Readable

LEMMA InvReadsNext == Inv' => Readable'
BY InvReads, PTL

LEMMA ReportedIsNext ==
    /\ ~Reporting' => Reported' = <<>>
    /\ Reporting' => Reported' = [f \in Window' |-> At(effMap', f)]
<1>1. \A f \in Window' : Lookup(f)' = At(effMap', f)
  BY DEF Lookup, Found, At
<1>2. [f \in Window' |-> Lookup(f)'] = [f \in Window' |-> At(effMap', f)]
  BY <1>1
<1> QED
  BY <1>2 DEF Reporting, Reported

\* A stream that begins with an exposure has it in every report.
LEMMA LogOpens ==
    ASSUME Inv, Inv', [Next]_vars, ~Reporting, Reporting'
    PROVE  \E e \in Exposures, g, h \in Frames : Reported' = [f \in g..h |-> e]
<1>1. Start
  <2>1. CASE NewFrame \/ SetExpDelayInfo \/ SetFirst \/ SetSingle \/ HandleSof
               \/ UNCHANGED vars
    <3>1. streaming' = streaming /\ resumed' = resumed
      BY <2>1 DEF NewFrame, SetExpDelayInfo, SetFirst, SetSingle, HandleSof,
                  SofTake, SofWrite, SofRecord, vars, sensor
    <3> QED
      BY <3>1 DEF Reporting
  <2>2. ASSUME NEW n \in TableSizes, SetTable(n) PROVE FALSE
    BY <2>2 DEF SetTable, sensor, Reporting
  <2>3. ~Stop
    BY DEF Stop, Reporting
  <2> QED
    BY <2>1, <2>2, <2>3 DEF Next, SetExposureParams
<1>2. ~first /\ effMap' = effMap /\ ~streaming
  BY <1>1 DEF Start, hw, Reporting
<1>3. Keys = {0} /\ effMap[0] = last.time /\ last.time \in Exposures
  BY <1>2 DEF Inv, Placed, Off, Fresh
<1>4. /\ \E g \in Frames : Window' = g..Horizon' /\ Horizon' \in Window'
      /\ \A f \in Window' : f \in Frames
  BY InvReadsNext DEF Readable
<1>5. ASSUME NEW f \in Window' PROVE At(effMap', f) = last.time
  <2>1. f \in Nat
    <3>1. Frames \subseteq Nat
      BY Numbers DEF Inv
    <3> QED
      BY <1>4, <3>1
  <2>2. DOMAIN effMap = {0} /\ IsFiniteSet(DOMAIN effMap)
    BY <1>3, KeysFinite DEF Inv, Placed, Keys
  <2>3. /\ 0 \in DOMAIN effMap /\ 0 <= f /\ DOMAIN effMap \subseteq Int
        /\ \A j \in DOMAIN effMap : j <= f => j <= 0
    BY <2>1, <2>2
  <2>4. At(effMap, f) = effMap[0]
    BY <2>1, <2>2, <2>3, AtIs
  <2> QED
    BY <1>2, <1>3, <2>4
<1>6. Reported' = [f \in Window' |-> last.time]
  <2>1. Reported' = [f \in Window' |-> At(effMap', f)]
    BY ReportedIsNext
  <2> QED
    BY <1>5, <2>1
<1>7. PICK g \in Frames : Window' = g..Horizon' /\ Horizon' \in Window'
  BY <1>4
<1>8. Horizon' \in Frames
  BY <1>4, <1>7
<1> QED
  BY <1>3, <1>6, <1>7, <1>8

\* While it goes on, reports are added and forgotten, and none is changed.
LEMMA LogExtends ==
    ASSUME Inv, Inv', [Next]_vars, Reporting, Reporting',
           NEW f \in Window'
    PROVE  \/ f \in Window /\ At(effMap', f) = At(effMap, f)
           \/ \A g \in Window : f > g
<1>1. /\ Placed /\ Readable /\ Readable'
  BY InvReads, InvReadsNext DEF Inv
<1>2. ~first /\ ~first' /\ streaming /\ ~resumed /\ Live /\ Live' /\ ~Begins
  BY <1>1 DEF Readable, Reporting, Live, SetFirst, SetExpDelayInfo, Begins
<1>3. /\ f \in Frames /\ Oldest' < f /\ f <= Horizon'
      /\ \A g \in Window : g <= Horizon /\ g \in Frames
  BY <1>1 DEF Readable
<1>4. /\ Horizon \in Int /\ Oldest \in Int /\ Oldest' \in Int /\ Oldest <= Oldest'
      /\ Frames \subseteq Nat /\ Oldest = Horizon - KeepMax /\ KeepMax \in Nat
  BY <1>1, <1>2, WindowMoves, Numbers, Constants DEF Oldest
<1>5. CASE f > Horizon
  <2>1. ASSUME NEW g \in Window PROVE g \in Int /\ g <= Horizon
    <3>1. g <= Horizon /\ g \in Frames
      BY <1>3
    <3> QED
      BY <1>4, <3>1
  <2>2. f \in Int
    BY <1>3, <1>4
  <2> QED
    BY <1>4, <1>5, <2>1, <2>2
<1>6. CASE ~(f > Horizon)
  <2>1. f \in Window /\ Oldest < f
    <3>1. Oldest < f /\ f <= Horizon
      BY <1>3, <1>4, <1>6
    <3> QED
      BY <1>3, <1>4, <3>1 DEF Window
  <2>2. CASE SofTake
    BY <1>1, <1>2, <1>3, <2>1, <2>2, TakeAnswers
  <2>3. CASE SofRecord
    <3>1. Horizon < sof + mode.time
      BY <1>1, <2>3, Numbers DEF SofRecord
    <3>2. f < sof + mode.time
      BY <1>1, <1>3, <1>4, <1>6, <3>1, Numbers
    <3> QED
      BY <1>1, <1>3, <2>1, <2>3, <3>2, RecordAnswers
  <2>4. CASE SofWrite
    <3>1. effMap' = effMap
      BY <2>4 DEF SofWrite, hw
    <3> QED
      BY <2>1, <3>1
  <2>5. CASE ~HandleSof
    <3>1. effMap' = effMap
      BY <1>1, <1>2, <2>5, QuietSteps DEF told
    <3> QED
      BY <2>1, <3>1
  <2> QED
    BY <2>2, <2>3, <2>4, <2>5 DEF HandleSof
<1> QED
  BY <1>5, <1>6

\* The reports of a stream implement ExposureLog: they cover an interval of
\* frames that only moves forward, what was reported for a frame stays so, and
\* exposures are reported in the order in which they were set.
THEOREM LogRefined == Spec => LogSpec
<1>1. Init => Log!Init
  BY DEF Init, Log!Init
<1>2. Inv /\ Inv' /\ [Next]_vars => [Log!Next]_Reported
  <2> SUFFICES ASSUME Inv, Inv', [Next]_vars PROVE [Log!Next]_Reported
    OBVIOUS
  <2>1. CASE ~Reporting'
    <3>1. Reported' = <<>>
      BY <2>1, ReportedIsNext
    <3> QED
      BY <3>1 DEF Reported, Log!Next, Log!Close
  <2>2. CASE ~Reporting /\ Reporting'
    <3>1. \E e \in Exposures, g, h \in Frames : Reported' = [f \in g..h |-> e]
      BY <2>2, LogOpens
    <3>2. Reported = <<>>
      BY <2>2, ReportedIs
    <3> QED
      BY <3>1, <3>2 DEF Reported, Log!Next, Log!Open
  <2>3. CASE Reporting /\ Reporting'
    <3>1. Readable /\ Readable'
      BY InvReads, InvReadsNext
    <3>2. /\ Reported = [f \in Window |-> At(effMap, f)]
          /\ Reported' = [f \in Window' |-> At(effMap', f)]
      BY <2>3, ReportedIs, ReportedIsNext
    <3>3. DOMAIN Reported = Window /\ DOMAIN Reported' = Window'
      BY <3>2
    <3>4. /\ \A f \in Window : Reported[f] = At(effMap, f)
          /\ \A f \in Window' : Reported'[f] = At(effMap', f)
      BY <3>2
    <3>5. Window # {} /\ Window' # {}
      BY <2>3, <3>1 DEF Readable
    <3>6. Reported # <<>>
      <4>1. DOMAIN <<>> = {}
        OBVIOUS
      <4> QED
        BY <3>3, <3>5, <4>1
    <3>7. /\ Window' \subseteq Frames
          /\ \A f \in Window' : Reported'[f] \in Exposures
          /\ \A f, g \in Window' : f <= g => Reported'[f] <= Reported'[g]
      BY <2>3, <3>1, <3>4 DEF Readable
    <3>8. \A f \in Window' : \/ f \in Window /\ Reported'[f] = Reported[f]
                             \/ \A g \in Window : f > g
      BY <2>3, <3>4, LogExtends
    <3> QED
      BY <3>3, <3>5, <3>6, <3>7, <3>8
         DEF Reported, Log!Next, Log!Extend, Log!IsLog, Log!Ordered
  <2> QED
    BY <2>1, <2>2, <2>3
<1> QED
  BY <1>1, <1>2, Invariant, PTL DEF Spec, LogSpec, Log!Spec, Reported
=============================================================================
