--------------------------- MODULE IspParams_proof ---------------------------
(***************************************************************************)
(* Proofs about IspParams: the parameters the ISP works under.             *)
(***************************************************************************)
EXTENDS IspParams, SetLemmas, SequenceTheorems

Buffers == [frame : 0..(MaxFrame + 1), src : Serials, set : Params]
Drivers == [ens : SUBSET Modules, cfg : [Modules -> 0..MaxSerial],
            src : 0..MaxSerial]

-----------------------------------------------------------------------------
(* The inductive invariant. *)

\* A call that goes on has made room in the effect map for its frame.
Typed ==
    /\ TypeOK
    /\ queued \in Seq(Buffers)
    /\ pc = "send" => /\ res \in Results
                      /\ job # None
                      /\ Cardinality(DOMAIN effecting) <= KeepMax

\* The result thread sends its own parameters before it queues the next; it
\* calls while the stream is off or has no read-back, when it leaves no other.
OwnCall == state # "started" \/ noReadBack

Calling ==
    /\ pc = "send" => calling = None
    /\ state = "down" => calling = None /\ pc = "idle"
    /\ calling # None =>
          /\ OwnCall
          /\ Len(pending) = 1
          /\ pending[1].id = calling
          /\ pending[1].ser = serial
    /\ calling = None /\ state # "down" /\ OwnCall => pending = <<>>

\* A stream starts with no frame.
AtRest ==
    state \notin {"started", "down"} =>
        /\ frame = None
        /\ handed = <<>>
        /\ inForce = [f \in Frames |-> None]
        /\ drv = DriverOff
        /\ lastId = 0
        /\ calling # None => calling = 0

\* What a user switched off is forced off, before a call and after it.
Obeyed ==
    /\ wish \subseteq flags
    /\ pc = "idle" => wish \cap forceEns = {}
    /\ pc = "send" => wish \subseteq upd.enUp \ upd.ens

\* What an update has on it also configures.
Complete == pc = "send" => upd.ens \subseteq upd.enUp \cap upd.cfgUp

\* Once it has applied all that is queued, the driver has what was merged.
Synced ==
    devOn /\ (state = "started" \/ (calling = None /\ pc = "idle")) =>
        \A m \in Modules \ missed :
            /\ EnAfter(drv, queued, m) <=> m \in ens
            /\ m \in ens => CfgAfter(drv, queued, m) = cfg[m]

\* Results queue up in the order of their numbers and of their frames.
Lined ==
    /\ \A i \in DOMAIN pending : pending[i].ser <= serial
    /\ \A i \in DOMAIN pending : pending[i].id <= lastId
    /\ \A i, j \in DOMAIN pending : i < j => /\ pending[i].ser < pending[j].ser
                                              /\ pending[i].id < pending[j].id

\* Where the last result taken is newer than a queued one, it also is for a
\* later frame; only a result of an earlier stream is not.
Overtaken ==
    /\ last.ser <= serial
    /\ pc = "send" => res = last
    /\ \A i \in DOMAIN pending :
          last.ser > pending[i].ser => /\ last.id > pending[i].id
                                       /\ last.id <= lastId

\* A result answers a frame the ISP has processed.
Answering ==
    state = "started" /\ ~noReadBack => lastId <= frame + 1

\* Configurations rise from the driver through the queue to the full set.
Rising ==
    /\ pc = "send" => \A m \in upd.cfgUp : upd.cfg[m] = res.ser
    /\ \A m \in Modules : drv.cfg[m] <= cfg[m] /\ cfg[m] <= last.ser
    /\ \A i \in DOMAIN queued : \A m \in queued[i].set.cfgUp :
          /\ drv.cfg[m] <= queued[i].set.cfg[m]
          /\ queued[i].set.cfg[m] <= cfg[m]
    /\ \A i, j \in DOMAIN queued :
          \A m \in queued[i].set.cfgUp \cap queued[j].set.cfgUp :
             i < j => queued[i].set.cfg[m] <= queued[j].set.cfg[m]

\* The states in which parameters are for the frame the poll thread is at.
ReadBack == state # "down" /\ ~(state = "started" /\ noReadBack)
Now == IF frame = None THEN 0 ELSE frame

\* Frames are handed over and processed in their order.
Handed ==
    /\ \A f \in Frames : inForce[f] # None => f <= frame
    /\ \A i \in DOMAIN handed : handed[i] <= frame
    /\ \A i \in DOMAIN handed, f \in Frames :
          inForce[f] # None => f < handed[i]
    /\ \A i, j \in DOMAIN handed : i < j => handed[i] < handed[j]

\* Buffers are for the frames in their order; the call under way is for the
\* newest, which has not been handed over.
Timed ==
    ReadBack =>
       /\ DOMAIN effecting \subseteq 0..Now
       /\ \A i \in DOMAIN queued : queued[i].frame <= Now
       /\ \A i, j \in DOMAIN queued :
             i < j => queued[i].frame <= queued[j].frame
       /\ pc = "send" =>
             /\ job = Now
             /\ state = "started" => frame # None
             /\ \A i \in DOMAIN handed : handed[i] < job
             /\ \A f \in Frames : inForce[f] # None => f < job

\* The parameters that frame f will be processed under.
Under(d, q, f) == IF Due(q, f) = 0 THEN d.src ELSE q[Due(q, f)].src

\* The effect map tells what the recent frames were or will be under.
Told ==
    ReadBack =>
        \A f \in Frames : f > frame - KeepMax =>
            /\ inForce[f] \notin {None, 0} => Lookup(f) = inForce[f]
            /\ (\A g \in Frames : inForce[g] # None => g < f)
                  /\ Under(drv, queued, f) # 0 =>
                      Lookup(f) = Under(drv, queued, f)

Inv ==
    /\ Typed /\ Calling /\ AtRest /\ Obeyed /\ Complete /\ Synced
    /\ Lined /\ Overtaken /\ Answering /\ Rising /\ Handed /\ Timed /\ Told

-----------------------------------------------------------------------------
(* What the driver is after a sequence of buffers. *)

LEMMA Indices ==
    ASSUME NEW q \in Seq(Buffers), NEW S, S \subseteq DOMAIN q
    PROVE  S \subseteq Int /\ IsFiniteSet(S)
<1>1. DOMAIN q = 1..Len(q) /\ Len(q) \in Nat
  OBVIOUS
<1>2. IsFiniteSet(1..Len(q))
  BY <1>1, FS_Interval
<1> QED
  BY <1>1, <1>2, FS_Subset

LastToEnable(q, m, k) ==
    /\ m \in q[k].set.enUp
    /\ \A j \in DOMAIN q : m \in q[j].set.enUp => j <= k
LastToConfigure(q, m, k) ==
    /\ m \in q[k].set.cfgUp
    /\ \A j \in DOMAIN q : m \in q[j].set.cfgUp => j <= k

\* The last buffer that enables or disables a module decides.
LEMMA EnabledBy ==
    ASSUME NEW d, NEW q \in Seq(Buffers), NEW m, NEW k \in DOMAIN q,
           LastToEnable(q, m, k)
    PROVE  EnAfter(d, q, m) <=> m \in q[k].set.ens
<1>1. k \in Enabling(q, m) /\ Enabling(q, m) \subseteq DOMAIN q
      /\ \A j \in Enabling(q, m) : j <= k
  BY DEF Enabling, LastToEnable
<1>2. Max(Enabling(q, m)) = k
  BY <1>1, Indices, MaxIs
<1> QED
  BY <1>1, <1>2, Zenon DEF EnAfter

LEMMA EnablingLast ==
    ASSUME NEW q \in Seq(Buffers), NEW m, Enabling(q, m) # {}
    PROVE  \E k \in DOMAIN q : LastToEnable(q, m, k)
<1>1. Enabling(q, m) \subseteq DOMAIN q
  BY DEF Enabling
<1>2. /\ Max(Enabling(q, m)) \in Enabling(q, m)
      /\ \A j \in Enabling(q, m) : j <= Max(Enabling(q, m))
  BY <1>1, Indices, MaxExists
<1> QED
  BY <1>2 DEF Enabling, LastToEnable

LEMMA ConfiguredBy ==
    ASSUME NEW d, NEW q \in Seq(Buffers), NEW m, NEW k \in DOMAIN q,
           LastToConfigure(q, m, k)
    PROVE  CfgAfter(d, q, m) = q[k].set.cfg[m]
<1>1. k \in Configuring(q, m) /\ Configuring(q, m) \subseteq DOMAIN q
      /\ \A j \in Configuring(q, m) : j <= k
  BY DEF Configuring, LastToConfigure
<1>2. Max(Configuring(q, m)) = k
  BY <1>1, Indices, MaxIs
<1> QED
  BY <1>1, <1>2, Zenon DEF CfgAfter

LEMMA ConfiguringLast ==
    ASSUME NEW q \in Seq(Buffers), NEW m, Configuring(q, m) # {}
    PROVE  \E k \in DOMAIN q : LastToConfigure(q, m, k)
<1>1. Configuring(q, m) \subseteq DOMAIN q
  BY DEF Configuring
<1>2. /\ Max(Configuring(q, m)) \in Configuring(q, m)
      /\ \A j \in Configuring(q, m) : j <= Max(Configuring(q, m))
  BY <1>1, Indices, MaxExists
<1> QED
  BY <1>2 DEF Configuring, LastToConfigure

LEMMA AppliedTyped ==
    ASSUME IspParamsAssumption, NEW d \in Drivers, NEW q \in Seq(Buffers)
    PROVE  Applied(d, q) \in Drivers
<1>1. ASSUME NEW m \in Modules PROVE CfgAfter(d, q, m) \in 0..MaxSerial
  <2>1. CASE Configuring(q, m) = {}
    BY <2>1 DEF CfgAfter, Drivers
  <2>2. CASE Configuring(q, m) # {}
    <3>1. PICK k \in DOMAIN q : LastToConfigure(q, m, k)
      BY <2>2, ConfiguringLast
    <3>2. CfgAfter(d, q, m) = q[k].set.cfg[m]
      BY <3>1, ConfiguredBy
    <3>3. q[k] \in Buffers
      OBVIOUS
    <3> QED
      BY <3>2, <3>3 DEF Buffers, Params
  <2> QED
    BY <2>1, <2>2
<1>2. (IF q = <<>> THEN d.src ELSE Last(q).src) \in 0..MaxSerial
  <2>1. CASE q = <<>>
    BY <2>1 DEF Drivers
  <2>2. CASE q # <<>>
    <3>1. Len(q) \in DOMAIN q
      BY <2>2
    <3>2. Last(q) \in Buffers
      BY <3>1 DEF Last
    <3> QED
      BY <2>2, <3>2 DEF Buffers, Serials, IspParamsAssumption
  <2> QED
    BY <2>1, <2>2
<1>3. {m \in Modules : EnAfter(d, q, m)} \in SUBSET Modules
  OBVIOUS
<1>4. [m \in Modules |-> CfgAfter(d, q, m)] \in [Modules -> 0..MaxSerial]
  BY <1>1
<1> QED
  BY <1>2, <1>3, <1>4 DEF Applied, Drivers

\* One more buffer.
LEMMA EnAppend ==
    ASSUME NEW d, NEW q \in Seq(Buffers), NEW b \in Buffers, NEW m
    PROVE  /\ m \in b.set.enUp =>
                  (EnAfter(d, Append(q, b), m) <=> m \in b.set.ens)
           /\ m \notin b.set.enUp =>
                  (EnAfter(d, Append(q, b), m) <=> EnAfter(d, q, m))
<1> DEFINE a == Append(q, b)
<1>1. /\ a \in Seq(Buffers)
      /\ Len(a) = Len(q) + 1 /\ Len(q) \in Nat
      /\ DOMAIN a = 1..(Len(q) + 1) /\ DOMAIN q = 1..Len(q)
      /\ \A i \in DOMAIN q : a[i] = q[i]
      /\ a[Len(q) + 1] = b
  OBVIOUS
<1> HIDE DEF a
<1>2. ASSUME m \in b.set.enUp PROVE EnAfter(d, a, m) <=> m \in b.set.ens
  <2>1. Len(q) + 1 \in DOMAIN a /\ LastToEnable(a, m, Len(q) + 1)
    BY <1>1, <1>2 DEF LastToEnable
  <2>2. EnAfter(d, a, m) <=> m \in a[Len(q) + 1].set.ens
    BY <1>1, <1>2, <2>1, EnabledBy
  <2> QED
    BY <1>1, <2>2
<1>3. ASSUME m \notin b.set.enUp PROVE EnAfter(d, a, m) <=> EnAfter(d, q, m)
  <2>1. CASE Enabling(q, m) = {}
    <3>1. Enabling(a, m) = {}
      BY <1>1, <1>3, <2>1 DEF Enabling
    <3> QED
      BY <2>1, <3>1, Zenon DEF EnAfter
  <2>2. CASE Enabling(q, m) # {}
    <3>1. PICK k \in DOMAIN q : LastToEnable(q, m, k)
      BY <2>2, EnablingLast
    <3>2. k \in DOMAIN a /\ LastToEnable(a, m, k)
      BY <1>1, <1>3, <3>1 DEF LastToEnable
    <3>3. EnAfter(d, a, m) <=> m \in a[k].set.ens
      BY <1>1, <3>2, EnabledBy
    <3>4. EnAfter(d, q, m) <=> m \in q[k].set.ens
      BY <3>1, EnabledBy
    <3> QED
      BY <1>1, <3>3, <3>4
  <2> QED
    BY <2>1, <2>2
<1> QED
  BY <1>2, <1>3 DEF a

LEMMA CfgAppend ==
    ASSUME NEW d, NEW q \in Seq(Buffers), NEW b \in Buffers, NEW m
    PROVE  /\ m \in b.set.cfgUp =>
                  CfgAfter(d, Append(q, b), m) = b.set.cfg[m]
           /\ m \notin b.set.cfgUp =>
                  CfgAfter(d, Append(q, b), m) = CfgAfter(d, q, m)
<1> DEFINE a == Append(q, b)
<1>1. /\ a \in Seq(Buffers)
      /\ Len(a) = Len(q) + 1 /\ Len(q) \in Nat
      /\ DOMAIN a = 1..(Len(q) + 1) /\ DOMAIN q = 1..Len(q)
      /\ \A i \in DOMAIN q : a[i] = q[i]
      /\ a[Len(q) + 1] = b
  OBVIOUS
<1> HIDE DEF a
<1>2. ASSUME m \in b.set.cfgUp PROVE CfgAfter(d, a, m) = b.set.cfg[m]
  <2>1. Len(q) + 1 \in DOMAIN a /\ LastToConfigure(a, m, Len(q) + 1)
    BY <1>1, <1>2 DEF LastToConfigure
  <2>2. CfgAfter(d, a, m) = a[Len(q) + 1].set.cfg[m]
    BY <1>1, <1>2, <2>1, ConfiguredBy
  <2> QED
    BY <1>1, <2>2
<1>3. ASSUME m \notin b.set.cfgUp PROVE CfgAfter(d, a, m) = CfgAfter(d, q, m)
  <2>1. CASE Configuring(q, m) = {}
    <3>1. Configuring(a, m) = {}
      BY <1>1, <1>3, <2>1 DEF Configuring
    <3> QED
      BY <2>1, <3>1, Zenon DEF CfgAfter
  <2>2. CASE Configuring(q, m) # {}
    <3>1. PICK k \in DOMAIN q : LastToConfigure(q, m, k)
      BY <2>2, ConfiguringLast
    <3>2. k \in DOMAIN a /\ LastToConfigure(a, m, k)
      BY <1>1, <1>3, <3>1 DEF LastToConfigure
    <3>3. CfgAfter(d, a, m) = a[k].set.cfg[m]
      BY <1>1, <3>2, ConfiguredBy
    <3>4. CfgAfter(d, q, m) = q[k].set.cfg[m]
      BY <3>1, ConfiguredBy
    <3> QED
      BY <1>1, <3>3, <3>4
  <2> QED
    BY <2>1, <2>2
<1> QED
  BY <1>2, <1>3 DEF a

\* The first k buffers, and the others.
LEMMA Parts ==
    ASSUME NEW q \in Seq(Buffers), NEW k \in 0..Len(q),
           NEW h, h = SubSeq(q, 1, k), NEW t, t = SubSeq(q, k + 1, Len(q))
    PROVE  /\ DOMAIN q = 1..Len(q) /\ Len(q) \in Nat
           /\ h \in Seq(Buffers) /\ t \in Seq(Buffers)
           /\ Len(h) = k /\ DOMAIN h = 1..k
           /\ Len(t) = Len(q) - k /\ DOMAIN t = 1..(Len(q) - k)
           /\ \A i \in 1..k : h[i] = q[i]
           /\ \A i \in 1..(Len(q) - k) : t[i] = q[k + i]
<1>1. \A i \in 1..k : q[i] \in Buffers
  OBVIOUS
<1>2. \A i \in (k + 1)..Len(q) : q[i] \in Buffers
  OBVIOUS
<1>3. /\ h \in Seq(Buffers) /\ Len(h) = k
      /\ \A i \in 1..k : h[i] = q[i]
  BY <1>1
<1>4. /\ t \in Seq(Buffers) /\ Len(t) = Len(q) - k
  BY <1>2
<1>5. \A i \in 1..(Len(q) - k) : t[i] = q[k + i]
  OBVIOUS
<1> QED
  BY <1>3, <1>4, <1>5

\* Applied in two parts, buffers leave the driver as they do at once.
LEMMA EnSplit ==
    ASSUME NEW d, NEW q \in Seq(Buffers), NEW k \in 0..Len(q),
           NEW m \in Modules
    PROVE  EnAfter(Applied(d, SubSeq(q, 1, k)), SubSeq(q, k + 1, Len(q)), m)
              <=> EnAfter(d, q, m)
<1> DEFINE h == SubSeq(q, 1, k)
           t == SubSeq(q, k + 1, Len(q))
           e == Applied(d, h)
<1>1. /\ DOMAIN q = 1..Len(q) /\ Len(q) \in Nat
      /\ h \in Seq(Buffers) /\ t \in Seq(Buffers)
      /\ DOMAIN h = 1..k
      /\ DOMAIN t = 1..(Len(q) - k)
      /\ \A i \in 1..k : h[i] = q[i]
      /\ \A i \in 1..(Len(q) - k) : t[i] = q[k + i]
  BY Parts
<1>2. m \in e.ens <=> EnAfter(d, h, m)
  BY DEF Applied
<1> HIDE DEF h, t, e
<1>3. CASE Enabling(t, m) # {}
  <2>1. PICK j \in DOMAIN t : LastToEnable(t, m, j)
    BY <1>1, <1>3, EnablingLast
  <2>2. j \in 1..(Len(q) - k) /\ k + j \in DOMAIN q
    BY <1>1
  <2>3. ASSUME NEW i \in DOMAIN q, m \in q[i].set.enUp PROVE i <= k + j
    <3>1. CASE i <= k
      BY <2>2, <3>1, <1>1
    <3>2. CASE i > k
      <4>1. i - k \in 1..(Len(q) - k) /\ k + (i - k) = i
        BY <1>1, <3>2
      <4>2. i - k \in DOMAIN t /\ t[i - k] = q[i]
        BY <1>1, <4>1
      <4> QED
        BY <1>1, <2>1, <2>2, <2>3, <4>2 DEF LastToEnable
    <3> QED
      BY <1>1, <3>1, <3>2
  <2>4. LastToEnable(q, m, k + j)
    BY <1>1, <2>1, <2>2, <2>3 DEF LastToEnable
  <2>5. EnAfter(d, q, m) <=> m \in q[k + j].set.ens
    BY <2>2, <2>4, EnabledBy
  <2>6. EnAfter(e, t, m) <=> m \in t[j].set.ens
    BY <1>1, <2>1, EnabledBy
  <2> QED
    BY <1>1, <2>2, <2>5, <2>6 DEF h, t, e
<1>4. CASE Enabling(t, m) = {}
  <2>1. EnAfter(e, t, m) <=> EnAfter(d, h, m)
    BY <1>2, <1>4, Zenon DEF EnAfter
  <2>2. ASSUME NEW i \in DOMAIN q, m \in q[i].set.enUp
        PROVE  i \in DOMAIN h /\ m \in h[i].set.enUp
    <3>1. CASE i > k
      <4>1. i - k \in DOMAIN t /\ t[i - k] = q[i]
        BY <1>1, <3>1
      <4>2. i - k \in Enabling(t, m)
        BY <2>2, <4>1, Zenon DEF Enabling
      <4> QED
        BY <1>4, <4>2
    <3> QED
      BY <1>1, <2>2, <3>1
  <2>3. CASE Enabling(h, m) = {}
    <3>1. Enabling(q, m) = {}
      BY <2>2, <2>3 DEF Enabling
    <3>2. EnAfter(d, h, m) <=> EnAfter(d, q, m)
      BY <2>3, <3>1, Zenon DEF EnAfter
    <3> QED
      BY <2>1, <3>2 DEF h, t, e
  <2>4. CASE Enabling(h, m) # {}
    <3>1. PICK j \in DOMAIN h : LastToEnable(h, m, j)
      BY <1>1, <2>4, EnablingLast
    <3>2. j \in DOMAIN q /\ h[j] = q[j]
      BY <1>1
    <3>3. LastToEnable(q, m, j)
      BY <2>2, <3>1, <3>2 DEF LastToEnable
    <3>4. EnAfter(d, q, m) <=> m \in q[j].set.ens
      BY <3>2, <3>3, EnabledBy
    <3>5. EnAfter(d, h, m) <=> m \in h[j].set.ens
      BY <1>1, <3>1, EnabledBy
    <3> QED
      BY <2>1, <3>2, <3>4, <3>5 DEF h, t, e
  <2> QED
    BY <2>3, <2>4
<1> QED
  BY <1>3, <1>4

LEMMA CfgSplit ==
    ASSUME NEW d, NEW q \in Seq(Buffers), NEW k \in 0..Len(q),
           NEW m \in Modules
    PROVE  CfgAfter(Applied(d, SubSeq(q, 1, k)), SubSeq(q, k + 1, Len(q)), m)
              = CfgAfter(d, q, m)
<1> DEFINE h == SubSeq(q, 1, k)
           t == SubSeq(q, k + 1, Len(q))
           e == Applied(d, h)
<1>1. /\ DOMAIN q = 1..Len(q) /\ Len(q) \in Nat
      /\ h \in Seq(Buffers) /\ t \in Seq(Buffers)
      /\ DOMAIN h = 1..k
      /\ DOMAIN t = 1..(Len(q) - k)
      /\ \A i \in 1..k : h[i] = q[i]
      /\ \A i \in 1..(Len(q) - k) : t[i] = q[k + i]
  BY Parts
<1>2. e.cfg[m] = CfgAfter(d, h, m)
  BY DEF Applied
<1> HIDE DEF h, t, e
<1>3. CASE Configuring(t, m) # {}
  <2>1. PICK j \in DOMAIN t : LastToConfigure(t, m, j)
    BY <1>1, <1>3, ConfiguringLast
  <2>2. j \in 1..(Len(q) - k) /\ k + j \in DOMAIN q
    BY <1>1
  <2>3. ASSUME NEW i \in DOMAIN q, m \in q[i].set.cfgUp PROVE i <= k + j
    <3>1. CASE i <= k
      BY <2>2, <3>1, <1>1
    <3>2. CASE i > k
      <4>1. i - k \in 1..(Len(q) - k) /\ k + (i - k) = i
        BY <1>1, <3>2
      <4>2. i - k \in DOMAIN t /\ t[i - k] = q[i]
        BY <1>1, <4>1
      <4> QED
        BY <1>1, <2>1, <2>2, <2>3, <4>2 DEF LastToConfigure
    <3> QED
      BY <1>1, <3>1, <3>2
  <2>4. LastToConfigure(q, m, k + j)
    BY <1>1, <2>1, <2>2, <2>3 DEF LastToConfigure
  <2>5. CfgAfter(d, q, m) = q[k + j].set.cfg[m]
    BY <2>2, <2>4, ConfiguredBy
  <2>6. CfgAfter(e, t, m) = t[j].set.cfg[m]
    BY <1>1, <2>1, ConfiguredBy
  <2> QED
    BY <1>1, <2>2, <2>5, <2>6 DEF h, t, e
<1>4. CASE Configuring(t, m) = {}
  <2>1. CfgAfter(e, t, m) = CfgAfter(d, h, m)
    BY <1>2, <1>4, Zenon DEF CfgAfter
  <2>2. ASSUME NEW i \in DOMAIN q, m \in q[i].set.cfgUp
        PROVE  i \in DOMAIN h /\ m \in h[i].set.cfgUp
    <3>1. CASE i > k
      <4>1. i - k \in DOMAIN t /\ t[i - k] = q[i]
        BY <1>1, <3>1
      <4>2. i - k \in Configuring(t, m)
        BY <2>2, <4>1, Zenon DEF Configuring
      <4> QED
        BY <1>4, <4>2
    <3> QED
      BY <1>1, <2>2, <3>1
  <2>3. CASE Configuring(h, m) = {}
    <3>1. Configuring(q, m) = {}
      BY <2>2, <2>3 DEF Configuring
    <3>2. CfgAfter(d, h, m) = CfgAfter(d, q, m)
      BY <2>3, <3>1, Zenon DEF CfgAfter
    <3> QED
      BY <2>1, <3>2 DEF h, t, e
  <2>4. CASE Configuring(h, m) # {}
    <3>1. PICK j \in DOMAIN h : LastToConfigure(h, m, j)
      BY <1>1, <2>4, ConfiguringLast
    <3>2. j \in DOMAIN q /\ h[j] = q[j]
      BY <1>1
    <3>3. LastToConfigure(q, m, j)
      BY <2>2, <3>1, <3>2 DEF LastToConfigure
    <3>4. CfgAfter(d, q, m) = q[j].set.cfg[m]
      BY <3>2, <3>3, ConfiguredBy
    <3>5. CfgAfter(d, h, m) = h[j].set.cfg[m]
      BY <1>1, <3>1, ConfiguredBy
    <3> QED
      BY <2>1, <3>2, <3>4, <3>5 DEF h, t, e
  <2> QED
    BY <2>3, <2>4
<1> QED
  BY <1>3, <1>4

-----------------------------------------------------------------------------
(* Which buffers are due at a frame. *)

LEMMA DueFacts ==
    ASSUME NEW q \in Seq(Buffers), NEW f \in Int
    PROVE  /\ Due(q, f) \in 0..Len(q)
           /\ \A j \in 1..Due(q, f) : q[j].frame <= f
           /\ \A j \in 0..Len(q) :
                 (\A i \in 1..j : q[i].frame <= f) => j <= Due(q, f)
<1> DEFINE S == {0} \cup {i \in DOMAIN q : \A j \in 1..i : q[j].frame <= f}
<1>1. DOMAIN q = 1..Len(q) /\ Len(q) \in Nat
  OBVIOUS
<1>2. S \subseteq 0..Len(q) /\ 0 \in S
  BY <1>1
<1>3. IsFiniteSet(S) /\ S \subseteq Int
  <2>1. IsFiniteSet(0..Len(q))
    BY <1>1, FS_Interval
  <2> HIDE DEF S
  <2>2. IsFiniteSet(S)
    BY <1>2, <2>1, FS_Subset
  <2> QED
    BY <1>1, <1>2, <2>2
<1>4. Max(S) \in S /\ \A y \in S : y <= Max(S)
  <2> HIDE DEF S
  <2> QED
    BY <1>2, <1>3, MaxExists
<1>5. Due(q, f) = Max(S)
  BY DEF Due
<1>6. ASSUME NEW j \in 0..Len(q), \A i \in 1..j : q[i].frame <= f
      PROVE  j \in S
  BY <1>1, <1>6
<1>7. ASSUME NEW j \in 1..Max(S) PROVE q[j].frame <= f
  BY <1>4
<1> HIDE DEF S
<1> QED
  BY <1>2, <1>4, <1>5, <1>6, <1>7

LEMMA DueIs ==
    ASSUME NEW q \in Seq(Buffers), NEW f \in Int, NEW k \in 0..Len(q),
           \A j \in 1..k : q[j].frame <= f,
           k < Len(q) => q[k + 1].frame > f
    PROVE  Due(q, f) = k
<1>1. /\ Due(q, f) \in 0..Len(q)
      /\ \A j \in 1..Due(q, f) : q[j].frame <= f
      /\ k <= Due(q, f)
  BY DueFacts
<1>2. CASE k < Due(q, f)
  <2>1. k < Len(q) /\ k + 1 \in 1..Due(q, f) /\ k + 1 \in DOMAIN q
    BY <1>1, <1>2
  <2>2. q[k + 1] \in Buffers
    BY <2>1
  <2>3. q[k + 1].frame \in Int
    BY <2>2 DEF Buffers
  <2> QED
    BY <1>1, <2>1, <2>3
<1> QED
  BY <1>1, <1>2

\* A buffer for the newest frame changes what that frame and later ones are
\* under, and no earlier one.
LEMMA UnderAppend ==
    ASSUME IspParamsAssumption, NEW d, NEW q \in Seq(Buffers),
           NEW b \in Buffers,
           \A i \in DOMAIN q : q[i].frame <= b.frame,
           NEW f \in Int
    PROVE  /\ f >= b.frame => Under(d, Append(q, b), f) = b.src
           /\ f < b.frame => Under(d, Append(q, b), f) = Under(d, q, f)
<1> DEFINE a == Append(q, b)
<1>1. /\ a \in Seq(Buffers)
      /\ Len(a) = Len(q) + 1 /\ Len(q) \in Nat
      /\ DOMAIN q = 1..Len(q)
      /\ \A i \in 1..Len(q) : a[i] = q[i]
      /\ a[Len(q) + 1] = b
  OBVIOUS
<1>2. b.frame \in Int /\ \A i \in 1..Len(q) : q[i].frame \in Int
  <2>1. b.frame \in Int
    BY DEF Buffers
  <2>2. ASSUME NEW i \in 1..Len(q) PROVE q[i].frame \in Int
    <3>1. q[i] \in Buffers
      OBVIOUS
    <3> QED
      BY <3>1 DEF Buffers
  <2> QED
    BY <2>1, <2>2
<1> HIDE DEF a
<1>3. ASSUME f >= b.frame PROVE Under(d, a, f) = b.src
  <2>1. \A i \in 1..(Len(q) + 1) : a[i].frame <= f
    <3>1. ASSUME NEW i \in 1..Len(q) PROVE a[i].frame <= f
      <4>1. a[i] = q[i] /\ q[i].frame \in Int /\ q[i].frame <= b.frame
        BY <1>1, <1>2
      <4> QED
        BY <1>2, <1>3, <4>1
    <3>2. a[Len(q) + 1].frame <= f
      <4>1. a[Len(q) + 1] = b
        BY <1>1
      <4> QED
        BY <1>3, <4>1
    <3> QED
      BY <1>1, <3>1, <3>2
  <2>2. Due(a, f) = Len(q) + 1
    <3>1. a \in Seq(Buffers) /\ Len(q) + 1 \in 0..Len(a) /\ ~(Len(q) + 1 < Len(a))
      BY <1>1
    <3> QED
      BY <2>1, <3>1, DueIs
  <2> QED
    BY <1>1, <2>2 DEF Under
<1>4. ASSUME f < b.frame PROVE Under(d, a, f) = Under(d, q, f)
  <2>1. /\ Due(q, f) \in 0..Len(q)
        /\ \A j \in 1..Due(q, f) : q[j].frame <= f
        /\ \A j \in 0..Len(q) :
              (\A i \in 1..j : q[i].frame <= f) => j <= Due(q, f)
    BY DueFacts
  <2>2. \A j \in 1..Due(q, f) : a[j].frame <= f
    BY <1>1, <2>1
  <2>3. a[Due(q, f) + 1].frame > f
    <3>1. CASE Due(q, f) = Len(q)
      BY <1>1, <1>2, <1>4, <3>1
    <3>2. CASE Due(q, f) < Len(q)
      <4>1. Due(q, f) + 1 \in 1..Len(q)
        BY <1>1, <2>1, <3>2
      <4>2. ~ \A i \in 1..(Due(q, f) + 1) : q[i].frame <= f
        BY <2>1, <4>1
      <4>3. ~(q[Due(q, f) + 1].frame <= f)
        BY <2>1, <4>2
      <4> QED
        BY <1>1, <1>2, <4>1, <4>3
    <3> QED
      BY <1>1, <2>1, <3>1, <3>2
  <2>4. Due(a, f) = Due(q, f)
    <3>1. \A c \in 0..Len(a) : c = Due(q, f) => Due(a, f) = c
      <4> SUFFICES ASSUME NEW c \in 0..Len(a), c = Due(q, f)
                   PROVE  Due(a, f) = c
        OBVIOUS
      <4>1. /\ \A j \in 1..c : a[j].frame <= f
            /\ c < Len(a) => a[c + 1].frame > f
        BY <2>2, <2>3
      <4> QED
        BY <1>1, <4>1, DueIs
    <3>2. Due(q, f) \in 0..Len(a)
      BY <1>1, <2>1
    <3> QED
      BY <3>1, <3>2
  <2> QED
    BY <1>1, <2>1, <2>4 DEF Under
<1> QED
  BY <1>3, <1>4 DEF a

\* A frame leaves the driver under its parameters, and the later frames under
\* theirs.
LEMMA UnderSplit ==
    ASSUME NEW d, NEW q \in Seq(Buffers), NEW f \in Int,
           NEW g \in Int, f <= g
    PROVE  /\ Applied(d, SubSeq(q, 1, Due(q, f))).src = Under(d, q, f)
           /\ Under(Applied(d, SubSeq(q, 1, Due(q, f))),
                    SubSeq(q, Due(q, f) + 1, Len(q)), g) = Under(d, q, g)
<1>1. PICK k \in 0..Len(q) : k = Due(q, f)
  BY DueFacts
<1>2. PICK n \in 0..Len(q) : n = Due(q, g)
  BY DueFacts
<1>3. /\ \A j \in 1..k : q[j].frame <= f
      /\ \A j \in 0..Len(q) : (\A i \in 1..j : q[i].frame <= f) => j <= k
  BY <1>1, DueFacts
<1>4. /\ \A j \in 1..n : q[j].frame <= g
      /\ \A j \in 0..Len(q) : (\A i \in 1..j : q[i].frame <= g) => j <= n
  BY <1>2, DueFacts
<1> DEFINE h == SubSeq(q, 1, k)
           t == SubSeq(q, k + 1, Len(q))
           e == Applied(d, h)
<1>5. /\ DOMAIN q = 1..Len(q) /\ Len(q) \in Nat
      /\ h \in Seq(Buffers) /\ t \in Seq(Buffers)
      /\ Len(h) = k /\ Len(t) = Len(q) - k
      /\ \A i \in 1..k : h[i] = q[i]
      /\ \A i \in 1..(Len(q) - k) : t[i] = q[k + i]
  BY Parts
<1>6. e.src = IF h = <<>> THEN d.src ELSE Last(h).src
  BY DEF Applied
<1> HIDE DEF h, t, e
<1>7. \A i \in 1..Len(q) : q[i].frame \in Int
  <2>1. ASSUME NEW i \in 1..Len(q) PROVE q[i].frame \in Int
    <3>1. q[i] \in Buffers
      OBVIOUS
    <3> QED
      BY <3>1 DEF Buffers
  <2> QED
    BY <2>1
<1>8. e.src = Under(d, q, f)
  <2>1. CASE k = 0
    <3>1. h = <<>>
      BY <1>5, <2>1
    <3> QED
      BY <1>1, <1>6, <2>1, <3>1 DEF Under
  <2>2. CASE k # 0
    <3>1. h # <<>> /\ Last(h) = q[k]
      BY <1>5, <2>2 DEF Last
    <3> QED
      BY <1>1, <1>6, <2>2, <3>1 DEF Under
  <2> QED
    BY <2>1, <2>2
<1>9. k <= n
  <2>1. \A j \in 1..k : q[j].frame <= g
    BY <1>3, <1>5, <1>7
  <2> QED
    BY <1>4, <2>1
<1>10. Due(t, g) = n - k
  <2>1. n - k \in 0..Len(t)
    BY <1>5, <1>9
  <2>2. ASSUME NEW j \in 1..(n - k) PROVE t[j].frame <= g
    <3>1. j \in 1..(Len(q) - k) /\ k + j \in 1..n
      BY <1>5, <1>9
    <3> QED
      BY <1>4, <1>5, <3>1
  <2>3. ASSUME n - k < Len(t) PROVE t[n - k + 1].frame > g
    <3>1. n + 1 \in 1..Len(q) /\ n - k + 1 \in 1..(Len(q) - k)
          /\ k + (n - k + 1) = n + 1
      BY <1>5, <1>9, <2>3
    <3>2. t[n - k + 1] = q[n + 1]
      BY <1>5, <3>1
    <3>3. ~ \A i \in 1..(n + 1) : q[i].frame <= g
      BY <1>4, <3>1
    <3>4. ~(q[n + 1].frame <= g)
      BY <1>4, <3>3
    <3> QED
      BY <1>7, <3>1, <3>2, <3>4
  <2>4. \A c \in 0..Len(t) : c = n - k => Due(t, g) = c
    <3> SUFFICES ASSUME NEW c \in 0..Len(t), c = n - k PROVE Due(t, g) = c
      OBVIOUS
    <3>1. /\ \A j \in 1..c : t[j].frame <= g
          /\ c < Len(t) => t[c + 1].frame > g
      BY <2>2, <2>3
    <3> QED
      BY <1>5, <3>1, DueIs
  <2> QED
    BY <2>1, <2>4
<1>11. Under(e, t, g) = Under(d, q, g)
  <2>1. CASE n = k
    <3>1. Under(e, t, g) = e.src
      BY <1>10, <2>1 DEF Under
    <3>2. Under(d, q, g) = Under(d, q, f)
      BY <1>1, <1>2, <2>1 DEF Under
    <3> QED
      BY <1>8, <3>1, <3>2
  <2>2. CASE n # k
    <3>1. n - k \in 1..(Len(q) - k) /\ k + (n - k) = n /\ n # 0 /\ n - k # 0
      BY <1>5, <1>9, <2>2
    <3>2. t[n - k] = q[n]
      BY <1>5, <3>1
    <3> QED
      BY <1>2, <1>10, <3>1, <3>2 DEF Under
  <2> QED
    BY <2>1, <2>2
<1> QED
  BY <1>1, <1>8, <1>11 DEF h, t, e

-----------------------------------------------------------------------------
(* What EraseOldest leaves. *)

LEMMA EraseOldestTyped ==
    ASSUME IspParamsAssumption, Typed
    PROVE  /\ DOMAIN EraseOldest \subseteq DOMAIN effecting
           /\ \A f \in DOMAIN EraseOldest : EraseOldest[f] = effecting[f]
           /\ Cardinality(DOMAIN EraseOldest) <= KeepMax
<1> DEFINE D == DOMAIN effecting
           K == DOMAIN EraseOldest
<1>1. D \subseteq 0..(MaxFrame + 1) /\ IsFiniteSet(D) /\ D \subseteq Int
  <2>1. D \subseteq 0..(MaxFrame + 1)
    BY DEF Typed, TypeOK
  <2>2. IsFiniteSet(0..(MaxFrame + 1)) /\ MaxFrame \in Nat
    BY FS_Interval DEF IspParamsAssumption
  <2>3. IsFiniteSet(D)
    BY <2>1, <2>2, FS_Subset
  <2> QED
    BY <2>1, <2>2, <2>3
<1>2. /\ K = {f \in D : ~(Cardinality({g \in D : g >= f}) > KeepMax)}
      /\ \A f \in K : EraseOldest[f] = effecting[f]
  BY DEF EraseOldest
<1>3. Cardinality(K) <= KeepMax
  <2>1. KeepMax \in Nat
    BY DEF IspParamsAssumption
  <2>2. CASE K = {}
    BY <2>1, <2>2, FS_EmptySet
  <2>3. CASE K # {}
    <3>1. K \subseteq D /\ K \subseteq Int /\ IsFiniteSet(K)
      <4>1. K \subseteq D
        BY <1>2
      <4> HIDE DEF K, D
      <4> QED
        BY <1>1, <4>1, FS_Subset
    <3>2. Min(K) \in K /\ \A y \in K : Min(K) <= y
      <4> HIDE DEF K, D
      <4> QED
        BY <2>3, <3>1, MinExists
    <3> DEFINE R == {g \in D : g >= Min(K)}
    <3>3. ~(Cardinality(R) > KeepMax)
      BY <1>2, <3>2
    <3>4. R \subseteq D /\ K \subseteq R
      <4> HIDE DEF K
      <4> QED
        BY <1>1, <3>1, <3>2
    <3>5. IsFiniteSet(R) /\ Cardinality(K) <= Cardinality(R)
          /\ Cardinality(R) \in Nat /\ Cardinality(K) \in Nat
      <4> HIDE DEF K, D, R
      <4> QED
        BY <1>1, <3>4, FS_Subset, FS_CardinalityType
    <3> QED
      BY <2>1, <3>3, <3>5
  <2> QED
    BY <2>2, <2>3
<1> QED
  BY <1>2, <1>3

\* Of the recent frames nothing is forgotten.
LEMMA LookupKept ==
    ASSUME IspParamsAssumption, Typed, DOMAIN effecting \subseteq 0..Now,
           NEW f \in Frames, f > frame - KeepMax, effecting' = EraseOldest
    PROVE  Lookup(f)' = Lookup(f)
<1> DEFINE D == DOMAIN effecting
           K == DOMAIN EraseOldest
           s == {g \in D : g <= f}
           t == {g \in K : g <= f}
<1>1. /\ MaxFrame \in Nat /\ KeepMax \in Nat \ {0}
      /\ frame \in Int /\ frame >= -1 /\ f \in Nat /\ Now \in Nat
      /\ (frame >= 0 => Now = frame) /\ (frame < 0 => Now = 0)
  BY SMTT(30) DEF IspParamsAssumption, Typed, TypeOK, Frames, None, Now
<1>2. D \subseteq Int /\ IsFiniteSet(D)
  <2>1. D \subseteq 0..Now
    OBVIOUS
  <2>2. IsFiniteSet(0..Now)
    BY <1>1, FS_Interval
  <2>3. IsFiniteSet(D)
    BY <2>1, <2>2, FS_Subset
  <2> QED
    BY <1>1, <2>3
<1>3. /\ K = {g \in D : ~(Cardinality({h \in D : h >= g}) > KeepMax)}
      /\ \A g \in K : EraseOldest[g] = effecting[g]
  BY DEF EraseOldest
<1>4. Lookup(f) = IF s = {} THEN None ELSE effecting[Max(s)]
  BY DEF Lookup
<1>5. Lookup(f)' = IF t = {} THEN None ELSE EraseOldest[Max(t)]
  BY DEF Lookup
<1>6. t \subseteq s
  BY <1>3
<1>7. CASE s = {}
  BY <1>4, <1>5, <1>6, <1>7
<1>8. CASE s # {}
  <2>1. s \subseteq D /\ s \subseteq Int /\ IsFiniteSet(s)
    <3>1. s \subseteq D
      OBVIOUS
    <3> HIDE DEF s, D
    <3> QED
      BY <1>2, <3>1, FS_Subset
  <2>2. Max(s) \in s /\ \A y \in s : y <= Max(s)
    <3> HIDE DEF s
    <3> QED
      BY <1>8, <2>1, MaxExists
  <2>3. PICK x \in s : x = Max(s)
    BY <2>2
  <2>4. x \in D /\ x <= f /\ x \in Int /\ \A y \in s : y <= x
    BY <2>1, <2>2, <2>3
  <2> DEFINE R == {h \in D : h >= x}
             I == (f + 1)..frame
  <2>5. R \subseteq I \cup {x}
    <3> SUFFICES ASSUME NEW h \in R, h # x PROVE h \in I
      OBVIOUS
    <3>1. h \in 0..Now /\ h > x /\ h \in D
      BY <1>2, <2>4
    <3>2. h > f
      <4>1. CASE h <= f
        <5>1. h \in s
          BY <3>1, <4>1
        <5> QED
          BY <2>4, <3>1, <5>1
      <4> QED
        BY <1>1, <3>1, <4>1
    <3> QED
      BY <1>1, <3>1, <3>2
  <2>6. Cardinality(R) <= KeepMax
    <3>1. IsFiniteSet(I) /\ Cardinality(I) <= KeepMax - 1
          /\ Cardinality(I) \in Nat
      <4>1. CASE f + 1 <= frame
        <5>1. IsFiniteSet(I) /\ Cardinality(I) = frame - (f + 1) + 1
          BY <1>1, <4>1, FS_Interval
        <5> HIDE DEF I
        <5> QED
          BY <1>1, <4>1, <5>1, SMTT(30)
      <4>2. CASE f + 1 > frame
        <5>1. I = {}
          BY <1>1, <4>2
        <5> QED
          BY <1>1, <5>1, FS_EmptySet
      <4> QED
        BY <1>1, <4>1, <4>2
    <3>2. IsFiniteSet(I \cup {x}) /\ Cardinality(I \cup {x}) <= Cardinality(I) + 1
          /\ Cardinality(I \cup {x}) \in Nat
      <4> HIDE DEF I
      <4>1. IsFiniteSet(I \cup {x})
            /\ (Cardinality(I \cup {x}) = Cardinality(I)
                  \/ Cardinality(I \cup {x}) = Cardinality(I) + 1)
        BY <3>1, FS_AddElement
      <4> QED
        BY <3>1, <4>1
    <3>3. Cardinality(R) <= Cardinality(I \cup {x}) /\ Cardinality(R) \in Nat
      <4> HIDE DEF I, R
      <4> QED
        BY <2>5, <3>2, FS_Subset, FS_CardinalityType
    <3> HIDE DEF I, R
    <3> QED
      BY <1>1, <3>1, <3>2, <3>3
  <2>7. x \in K
    <3>1. Cardinality(R) \in Nat
      <4>1. R \subseteq D
        OBVIOUS
      <4> HIDE DEF R, D
      <4> QED
        BY <1>2, <4>1, FS_Subset, FS_CardinalityType
    <3> QED
      BY <1>1, <1>3, <2>4, <2>6, <3>1
  <2>8. x \in t /\ \A y \in t : y <= x
    BY <1>6, <2>4, <2>7
  <2>9. Max(t) = x
    <3>1. t \subseteq Int /\ IsFiniteSet(t)
      <4> HIDE DEF s, t
      <4> QED
        BY <1>6, <2>1, FS_Subset
    <3> HIDE DEF t
    <3> QED
      BY <2>8, <3>1, MaxIs
  <2> QED
    BY <1>3, <1>4, <1>5, <1>8, <2>3, <2>7, <2>8, <2>9
<1> QED
  BY <1>7, <1>8

-----------------------------------------------------------------------------
(* Types. *)

LEMMA InitTyped == IspParamsAssumption /\ Init => Typed
<1> SUFFICES ASSUME IspParamsAssumption, Init PROVE Typed
  OBVIOUS
<1>1. /\ pending \in Seq(Results) /\ Len(pending) = 0
      /\ handed \in Seq(Frames)
      /\ queued \in Seq(Buffers) /\ Len(queued) = 0
  BY DEF Init
<1>2. DOMAIN effecting = {} /\ Cardinality(DOMAIN effecting) = 0
  BY FS_EmptySet DEF Init
<1>3. /\ MaxFrame \in Nat /\ MaxSerial \in Nat /\ PendingMax \in Nat
      /\ KeepMax \in Nat /\ Bufs \in Nat /\ MaxStreams \in Nat
  BY DEF IspParamsAssumption
<1>4. /\ upd \in Params
      /\ drv \in Drivers
      /\ cfg \in [Modules -> 0..MaxSerial]
      /\ inForce \in [Frames -> 0..MaxSerial \cup {None}]
  BY <1>3 DEF Init, NoParams, Params, DriverOff, Drivers
<1>5. calling \in 0..(MaxFrame + 1) \cup {None}
      /\ job \in 0..(MaxFrame + 1) \cup {None}
      /\ frame \in Frames \cup {None}
      /\ streams \in 0..MaxStreams /\ serial \in 0..MaxSerial
      /\ lastId \in 0..(MaxFrame + 1)
  BY <1>3 DEF Init
<1>6. /\ DOMAIN effecting \subseteq 0..(MaxFrame + 1)
      /\ \A f \in DOMAIN effecting : effecting[f] \in Serials
      /\ Cardinality(DOMAIN effecting) <= KeepMax + 1
      /\ Len(pending) <= PendingMax + 1 /\ Len(queued) <= Bufs
  BY <1>1, <1>2, <1>3
<1>7. /\ state \in {"prepared", "started", "stopped", "paused", "down"}
      /\ noReadBack \in BOOLEAN /\ devOn \in BOOLEAN
      /\ last \in Results \cup {NoResult} /\ res \in Results \cup {NoResult}
      /\ ens \subseteq Modules /\ forceEns \subseteq Modules
      /\ missed \subseteq Modules
      /\ flags \subseteq Forceable /\ wish \subseteq Forceable
      /\ pc \in {"idle", "send"}
  BY DEF Init
<1>8. TypeOK
  BY <1>1, <1>4, <1>5, <1>6, <1>7 DEF TypeOK, Drivers
<1> QED
  BY <1>1, <1>8 DEF Typed, Init

LEMMA QueueTyped ==
    ASSUME IspParamsAssumption, Typed, NEW r \in Results, Queue(r)
    PROVE  /\ pending' \in Seq(Results)
           /\ Len(pending') <= PendingMax + 1
           /\ Len(pending') \in Nat \ {0}
           /\ pending'[Len(pending')] = r
           /\ \A i \in DOMAIN pending' :
                 i < Len(pending') =>
                    \E j \in DOMAIN pending :
                       /\ pending'[i] = pending[j]
                       /\ j - i = Len(pending) + 1 - Len(pending')
           /\ Len(pending) <= PendingMax => pending' = Append(pending, r)
<1>1. pending \in Seq(Results) /\ PendingMax \in Nat
      /\ Len(pending) \in Nat /\ Len(pending) <= PendingMax + 1
  BY DEF Typed, TypeOK, IspParamsAssumption
<1>2. CASE Len(pending) > PendingMax
  <2>1. pending' = Append(Tail(pending), r)
    BY <1>2 DEF Queue
  <2>2. pending # <<>>
    BY <1>1, <1>2
  <2>3. Tail(pending) \in Seq(Results) /\ Len(Tail(pending)) = Len(pending) - 1
        /\ \A i \in 1..(Len(pending) - 1) : Tail(pending)[i] = pending[i + 1]
    BY <1>1, <2>2
  <2>4. /\ pending' \in Seq(Results) /\ Len(pending') = Len(pending)
        /\ pending'[Len(pending)] = r
        /\ DOMAIN pending' = 1..Len(pending)
        /\ \A i \in 1..(Len(pending) - 1) : pending'[i] = Tail(pending)[i]
    BY <1>1, <2>1, <2>3
  <2>5. ASSUME NEW i \in DOMAIN pending', i < Len(pending')
        PROVE  i + 1 \in DOMAIN pending /\ pending'[i] = pending[i + 1]
    BY <1>1, <2>3, <2>4, <2>5
  <2>6. ASSUME NEW i \in DOMAIN pending', i < Len(pending')
        PROVE  (i + 1) - i = Len(pending) + 1 - Len(pending')
    BY <1>1, <2>4, <2>6
  <2>7. Len(pending') \in Nat \ {0} /\ pending'[Len(pending')] = r
        /\ Len(pending') <= PendingMax + 1
    BY <1>1, <1>2, <2>4
  <2>8. ASSUME NEW i \in DOMAIN pending', i < Len(pending')
        PROVE  \E j \in DOMAIN pending :
                  /\ pending'[i] = pending[j]
                  /\ j - i = Len(pending) + 1 - Len(pending')
    BY <2>5, <2>6, <2>8
  <2>9. ~(Len(pending) <= PendingMax)
    BY <1>1, <1>2
  <2> QED
    BY <2>4, <2>7, <2>8, <2>9, Zenon
<1>3. CASE ~(Len(pending) > PendingMax)
  <2>1. pending' = Append(pending, r)
    BY <1>3 DEF Queue
  <2>2. /\ pending' \in Seq(Results) /\ Len(pending') = Len(pending) + 1
        /\ pending'[Len(pending) + 1] = r
        /\ DOMAIN pending' = 1..(Len(pending) + 1)
        /\ DOMAIN pending = 1..Len(pending)
        /\ \A i \in 1..Len(pending) : pending'[i] = pending[i]
    BY <1>1, <2>1
  <2>3. ASSUME NEW i \in DOMAIN pending', i < Len(pending')
        PROVE  /\ i \in DOMAIN pending /\ pending'[i] = pending[i]
               /\ i - i = Len(pending) + 1 - Len(pending')
    BY <1>1, <2>2, <2>3
  <2> QED
    BY <1>1, <1>3, <2>1, <2>2, <2>3
<1> QED
  BY <1>2, <1>3

\* Nothing is forced on that the update does not also configure, and what it
\* configures it configures from the result.
LEMMA UpdTyped ==
    ASSUME IspParamsAssumption, Typed, NEW r \in Results,
           NEW u, u = Forced(Converted(r), r)
    PROVE  /\ u \in Params
           /\ u.ens \subseteq u.enUp \cap u.cfgUp
           /\ \A m \in u.cfgUp : u.cfg[m] = r.ser
           /\ flags \ forceEns \subseteq u.enUp \ u.ens
<1> DEFINE told == (Modules \ Flagged) \cup r.upd
           on == (flags \cap forceEns) \cap r.on
           off == flags \ forceEns
<1>1. /\ r.on \subseteq Modules /\ r.upd \subseteq Flagged /\ r.ser \in 1..MaxSerial
      /\ Flagged \subseteq Modules
      /\ flags \subseteq Modules \ Flagged
  BY DEF Results, Serials, Typed, TypeOK, IspParamsAssumption
<1>2. /\ u.ens = ((r.on \cap told) \cup on) \ off
      /\ u.enUp = told \cup on \cup off
      /\ u.cfgUp = ((told \ (Terse \ r.on)) \cup on) \ off
      /\ u.cfg = [m \in Modules |-> IF m \in told THEN r.ser ELSE 0]
      /\ u = [ens |-> u.ens, enUp |-> u.enUp, cfgUp |-> u.cfgUp, cfg |-> u.cfg]
  BY DEF Forced, Converted
<1>3. u.ens \subseteq Modules /\ u.enUp \subseteq Modules
      /\ u.cfgUp \subseteq Modules
  BY <1>1, <1>2
<1>4. u.cfg \in [Modules -> 0..MaxSerial]
  BY <1>1, <1>2 DEF IspParamsAssumption
<1>5. u \in Params
  BY <1>2, <1>3, <1>4 DEF Params
<1>6. \A m \in u.cfgUp : m \in Modules /\ m \in told
  BY <1>1, <1>2
<1>7. \A m \in u.cfgUp : u.cfg[m] = r.ser
  BY <1>2, <1>6
<1>8. u.ens \subseteq u.enUp \cap u.cfgUp
  BY <1>2
<1>9. off \subseteq u.enUp \ u.ens
  BY <1>2
<1> QED
  BY <1>5, <1>7, <1>8, <1>9

LEMMA ChosenTyped ==
    ASSUME IspParamsAssumption, Typed, pending # <<>>, NEW f
    PROVE  /\ Len(pending) \in Nat \ {0} /\ Last(pending) \in Results
           /\ Last(pending) = pending[Len(pending)]
           /\ Chosen(f) \in Results
           /\ Front(pending) \in Seq(Results)
           /\ Len(Front(pending)) = Len(pending) - 1
           /\ \A i \in DOMAIN Front(pending) :
                 i \in DOMAIN pending /\ i < Len(pending)
                 /\ Front(pending)[i] = pending[i]
<1>1. pending \in Seq(Results) /\ Len(pending) \in Nat \ {0}
  BY DEF Typed, TypeOK
<1>2. Last(pending) = pending[Len(pending)] /\ Last(pending) \in Results
  BY <1>1 DEF Last
<1>3. /\ Front(pending) \in Seq(Results)
      /\ Len(Front(pending)) = Len(pending) - 1
      /\ \A i \in DOMAIN Front(pending) :
            i \in DOMAIN pending /\ i < Len(pending)
            /\ Front(pending)[i] = pending[i]
  <2> DEFINE t == SubSeq(pending, 1, Len(pending) - 1)
  <2>1. PICK n \in Nat : n = Len(pending) - 1
    BY <1>1
  <2>2. \A i \in 1..n : pending[i] \in Results
    BY <1>1, <2>1
  <2>3. /\ SubSeq(pending, 1, n) \in Seq(Results)
        /\ Len(SubSeq(pending, 1, n)) = n
        /\ \A i \in 1..n : SubSeq(pending, 1, n)[i] = pending[i]
    BY <1>1, <2>1, <2>2
  <2>4. t \in Seq(Results) /\ Len(t) = Len(pending) - 1
        /\ \A i \in 1..(Len(pending) - 1) : t[i] = pending[i]
    BY <2>1, <2>3
  <2>5. Front(pending) = t
    BY DEF Front
  <2> QED
    BY <1>1, <2>4, <2>5, SMTT(30)
<1>4. Chosen(f) \in Results
  <2>1. CASE last = NoResult
    <3>1. last.id = 0 /\ Last(pending).id \in Nat
      BY <1>2, <2>1 DEF NoResult, Results
    <3>2. ~(last.id > Last(pending).id)
      BY <3>1
    <3> QED
      BY <1>2, <3>2, Zenon DEF Chosen
  <2>2. CASE last \in Results
    BY <1>2, <2>2, Zenon DEF Chosen
  <2> QED
    BY <2>1, <2>2 DEF Typed, TypeOK
<1> QED
  BY <1>1, <1>2, <1>3, <1>4

\* The invariant of types, in the parts the actions disturb.
EngineTyped ==
    /\ state \in {"prepared", "started", "stopped", "paused", "down"}
    /\ noReadBack \in BOOLEAN
    /\ devOn \in BOOLEAN
    /\ streams \in 0..MaxStreams
QueueOK ==
    /\ pending \in Seq(Results) /\ Len(pending) <= PendingMax + 1
    /\ last \in Results \cup {NoResult}
    /\ calling \in 0..(MaxFrame + 1) \cup {None}
    /\ serial \in 0..MaxSerial
    /\ lastId \in 0..(MaxFrame + 1)
EffectOK ==
    /\ DOMAIN effecting \subseteq 0..(MaxFrame + 1)
    /\ \A f \in DOMAIN effecting : effecting[f] \in Serials
    /\ Cardinality(DOMAIN effecting) <= KeepMax + 1
    /\ pc = "send" => Cardinality(DOMAIN effecting) <= KeepMax
FullOK ==
    /\ ens \subseteq Modules
    /\ cfg \in [Modules -> 0..MaxSerial]
    /\ missed \subseteq Modules
ForceOK ==
    /\ flags \subseteq Forceable
    /\ forceEns \subseteq Modules
    /\ wish \subseteq Forceable
SyncOK ==
    /\ pc \in {"idle", "send"}
    /\ job \in 0..(MaxFrame + 1) \cup {None}
    /\ res \in Results \cup {NoResult}
    /\ upd \in Params
    /\ pc = "send" => res \in Results /\ job # None
IspOK ==
    /\ frame \in Frames \cup {None}
    /\ handed \in Seq(Frames)
    /\ queued \in Seq(Buffers)
    /\ Len(queued) <= Bufs
    /\ drv \in Drivers
    /\ inForce \in [Frames -> 0..MaxSerial \cup {None}]
Parted ==
    /\ EngineTyped /\ QueueOK /\ EffectOK /\ FullOK /\ ForceOK /\ SyncOK /\ IspOK

LEMMA TypedParts == Typed <=> Parted
BY DEF Typed, TypeOK, Parted, EngineTyped, QueueOK, EffectOK, FullOK, ForceOK,
       SyncOK, IspOK, Drivers

LEMMA Unaffected ==
    ASSUME Parted
    PROVE  /\ UNCHANGED engine => EngineTyped'
           /\ UNCHANGED <<pending, last, calling, serial, lastId>> => QueueOK'
           /\ UNCHANGED <<effecting, pc>> => EffectOK'
           /\ UNCHANGED full => FullOK'
           /\ UNCHANGED force => ForceOK'
           /\ UNCHANGED sync => SyncOK'
           /\ UNCHANGED isp => IspOK'
<1> USE DEF Parted
<1>1. UNCHANGED engine => EngineTyped'
  BY DEF engine, EngineTyped
<1>2. UNCHANGED <<pending, last, calling, serial, lastId>> => QueueOK'
  BY DEF QueueOK
<1>3. UNCHANGED <<effecting, pc>> => EffectOK'
  BY DEF EffectOK
<1>4. UNCHANGED full => FullOK'
  BY DEF full, FullOK
<1>5. UNCHANGED force => ForceOK'
  BY DEF force, ForceOK
<1>6. UNCHANGED sync => SyncOK'
  BY DEF sync, SyncOK
<1>7. UNCHANGED isp => IspOK'
  BY DEF isp, IspOK
<1> QED
  BY <1>1, <1>2, <1>3, <1>4, <1>5, <1>6, <1>7

LEMMA BeginTyped ==
    ASSUME IspParamsAssumption, Typed, pc = "idle",
           NEW f \in 0..(MaxFrame + 1), Begin(f)
    PROVE  /\ EffectOK' /\ SyncOK' /\ ForceOK'
           /\ pending' \in Seq(Results) /\ Len(pending') <= PendingMax + 1
           /\ last' \in Results \cup {NoResult}
<1>1. Parted
  BY TypedParts
<1>2. EffectOK'
  <2>1. /\ effecting' = EraseOldest
        /\ KeepMax \in Nat
    BY DEF Begin, IspParamsAssumption
  <2>2. /\ DOMAIN effecting' \subseteq DOMAIN effecting
        /\ \A g \in DOMAIN effecting' : effecting'[g] = effecting[g]
        /\ Cardinality(DOMAIN effecting') <= KeepMax
    BY <2>1, EraseOldestTyped
  <2>3. IsFiniteSet(DOMAIN effecting') /\ Cardinality(DOMAIN effecting') \in Nat
    <3>1. IsFiniteSet(0..(MaxFrame + 1))
      <4>1. MaxFrame + 1 \in Int /\ 0 \in Int
        BY DEF IspParamsAssumption
      <4> QED
        BY <4>1, FS_Interval
    <3>2. DOMAIN effecting' \subseteq 0..(MaxFrame + 1)
      BY <1>1, <2>2 DEF Parted, EffectOK
    <3> QED
      BY <3>1, <3>2, FS_Subset, FS_CardinalityType
  <2> QED
    BY <1>1, <2>1, <2>2, <2>3 DEF Parted, EffectOK
<1>3. CASE pending = <<>>
  <2>1. UNCHANGED <<pending, last, flags, sync, forceEns, wish>>
    BY <1>3 DEF Begin
  <2>2. SyncOK' /\ ForceOK'
    BY <1>1, <2>1, Unaffected DEF force
  <2> QED
    BY <1>1, <1>2, <2>1, <2>2 DEF Parted, QueueOK
<1>4. CASE pending # <<>>
  <2>1. PICK r : r = Chosen(f)
    OBVIOUS
  <2>2. /\ res' = r /\ last' = r
        /\ upd' = Forced(Converted(r), r)
        /\ flags' = flags \ Unforced(r)
        /\ pending' = IF Last(pending).id = f THEN Front(pending) ELSE pending
        /\ pc' = "send" /\ job' = f
        /\ UNCHANGED <<forceEns, wish>>
    BY <1>4, <2>1 DEF Begin
  <2>3. r \in Results /\ Front(pending) \in Seq(Results)
        /\ Len(Front(pending)) = Len(pending) - 1
        /\ Len(pending) \in Nat
    BY <1>4, <2>1, ChosenTyped
  <2>4. upd' \in Params
    BY <2>2, <2>3, UpdTyped
  <2>5. SyncOK'
    BY <2>2, <2>3, <2>4 DEF SyncOK, None
  <2>6. ForceOK'
    BY <1>1, <2>2 DEF Parted, ForceOK
  <2>7. pending' \in Seq(Results) /\ Len(pending') <= PendingMax + 1
    <3>1. pending \in Seq(Results) /\ Len(pending) <= PendingMax + 1
          /\ PendingMax \in Nat
      BY <1>1 DEF Parted, QueueOK, IspParamsAssumption
    <3> QED
      BY <2>2, <2>3, <3>1
  <2> QED
    BY <1>2, <2>2, <2>3, <2>5, <2>6, <2>7
<1> QED
  BY <1>3, <1>4

LEMMA MergedTyped ==
    ASSUME IspParamsAssumption, Typed
    PROVE  /\ Merged \in Params
           /\ Merged.ens = (ens \ upd.enUp) \cup (upd.ens \cap upd.enUp)
           /\ Merged.enUp = IF WholeSet THEN Modules ELSE upd.enUp
           /\ Merged.cfgUp = IF WholeSet THEN ens \cup upd.cfgUp ELSE upd.cfgUp
           /\ \A m \in Modules :
                 Merged.cfg[m] = IF m \in upd.cfgUp THEN upd.cfg[m] ELSE cfg[m]
<1>1. /\ ens \subseteq Modules /\ cfg \in [Modules -> 0..MaxSerial]
      /\ upd \in Params
  BY DEF Typed, TypeOK
<1>2. /\ upd.ens \subseteq Modules /\ upd.enUp \subseteq Modules
      /\ upd.cfgUp \subseteq Modules /\ upd.cfg \in [Modules -> 0..MaxSerial]
  BY <1>1 DEF Params
<1>3. Merged =
        [ens |-> Merged.ens, enUp |-> Merged.enUp,
         cfgUp |-> Merged.cfgUp, cfg |-> Merged.cfg]
  BY Zenon DEF Merged
<1>4. /\ Merged.ens = (ens \ upd.enUp) \cup (upd.ens \cap upd.enUp)
      /\ Merged.enUp = IF WholeSet THEN Modules ELSE upd.enUp
      /\ Merged.cfgUp = IF WholeSet THEN ens \cup upd.cfgUp ELSE upd.cfgUp
      /\ Merged.cfg = [m \in Modules |-> IF m \in upd.cfgUp THEN upd.cfg[m]
                                                             ELSE cfg[m]]
  BY Zenon DEF Merged
<1>5. Merged.ens \subseteq Modules
  BY <1>1, <1>2, <1>4
<1>6. Merged.enUp \subseteq Modules
  <2>1. CASE WholeSet
    BY <1>4, <2>1
  <2>2. CASE ~WholeSet
    BY <1>4, <1>2, <2>2
  <2> QED
    BY <2>1, <2>2
<1>7. Merged.cfgUp \subseteq Modules
  <2>1. CASE WholeSet
    BY <1>4, <1>1, <1>2, <2>1
  <2>2. CASE ~WholeSet
    BY <1>4, <1>2, <2>2
  <2> QED
    BY <2>1, <2>2
<1>8. Merged.cfg \in [Modules -> 0..MaxSerial]
  BY <1>1, <1>2, <1>4
<1>9. \A m \in Modules :
         Merged.cfg[m] = IF m \in upd.cfgUp THEN upd.cfg[m] ELSE cfg[m]
  BY <1>4
<1>10. Merged \in Params
  BY <1>3, <1>5, <1>6, <1>7, <1>8, Zenon DEF Params
<1> QED
  BY <1>4, <1>10, <1>9, Zenon

\* What every way out of the call leaves, typed.
LEMMA EndTyped ==
    ASSUME IspParamsAssumption, Typed, Timed, NEW readBack, End(readBack)
    PROVE  /\ UNCHANGED <<pending, last, calling, serial, lastId>>
           /\ QueueOK' /\ ForceOK' /\ SyncOK'
           /\ ens' \subseteq Modules /\ cfg' \in [Modules -> 0..MaxSerial]
           /\ frame' \in Frames \cup {None} /\ handed' \in Seq(Frames)
           /\ drv' \in Drivers
           /\ inForce' \in [Frames -> 0..MaxSerial \cup {None}]
<1>1. Parted /\ pc = "send"
  BY TypedParts DEF End
<1>2. UNCHANGED queue /\ UNCHANGED <<flags, wish, frame, drv, inForce>>
      /\ forceEns' = upd.ens
      /\ ens' = Merged.ens /\ cfg' = Merged.cfg
      /\ pc' = "idle" /\ job' = None /\ res' = NoResult /\ upd' = NoParams
  BY DEF End, queue
<1>3. UNCHANGED <<pending, last, calling, serial, lastId>>
  BY <1>2 DEF queue
<1>4. QueueOK'
  BY <1>1, <1>3, Unaffected
<1>5. upd \in Params
  BY <1>1 DEF Parted, SyncOK
<1>6. ForceOK'
  BY <1>1, <1>2, <1>5 DEF Parted, ForceOK, Params
<1>7. SyncOK'
  <2>1. NoParams \in Params
    BY DEF NoParams, Params, IspParamsAssumption
  <2> QED
    BY <1>2, <2>1 DEF SyncOK
<1>8. ens' \subseteq Modules /\ cfg' \in [Modules -> 0..MaxSerial]
  <2>1. Merged \in Params
    BY MergedTyped
  <2>2. Merged.ens \subseteq Modules /\ Merged.cfg \in [Modules -> 0..MaxSerial]
    BY <2>1 DEF Params
  <2> QED
    BY <1>2, <2>2
<1>9. handed' \in Seq(Frames)
  <2>1. handed \in Seq(Frames) /\ frame \in Frames \cup {None}
    BY <1>1 DEF Parted, IspOK
  <2>2. CASE readBack /\ state = "started" /\ ~noReadBack
    <3>1. job = Now
      BY <1>1, <2>2 DEF Timed, ReadBack
    <3>2. job \in Frames
      BY <2>1, <3>1 DEF Now, Frames, None, IspParamsAssumption
    <3> QED
      BY <2>1, <2>2, <3>2 DEF End
  <2>3. CASE ~(readBack /\ state = "started" /\ ~noReadBack)
    BY <2>1, <2>3, Zenon DEF End
  <2> QED
    BY <2>2, <2>3
<1>10. /\ frame' \in Frames \cup {None} /\ drv' \in Drivers
       /\ inForce' \in [Frames -> 0..MaxSerial \cup {None}]
  BY <1>1, <1>2 DEF Parted, IspOK
<1> QED
  BY <1>3, <1>4, <1>6, <1>7, <1>8, <1>9, <1>10

\* What a buffer that is sent leaves.
LEMMA SentTyped ==
    ASSUME IspParamsAssumption, Typed, Timed, SyncSent
    PROVE  EffectOK' /\ FullOK' /\ IspOK' /\ SyncOK'
<1>1. Parted /\ pc = "send" /\ \E known : End(known)
  BY TypedParts DEF SyncSent, End
<1>2. /\ ens' \subseteq Modules /\ cfg' \in [Modules -> 0..MaxSerial]
      /\ frame' \in Frames \cup {None} /\ handed' \in Seq(Frames)
      /\ drv' \in Drivers
      /\ inForce' \in [Frames -> 0..MaxSerial \cup {None}]
      /\ SyncOK' /\ pc' = "idle"
  BY <1>1, EndTyped DEF End
<1>3. /\ job \in 0..(MaxFrame + 1) /\ res.ser \in Serials
      /\ MaxFrame \in Nat /\ KeepMax \in Nat
  BY <1>1 DEF Parted, SyncOK, Results, IspParamsAssumption
<1>4. EffectOK'
  <2>1. effecting' = Effect(job)
    BY DEF SyncSent
  <2>2. /\ DOMAIN effecting' = DOMAIN effecting \cup {job}
        /\ \A g \in DOMAIN effecting' :
              effecting'[g] = IF g = job THEN res.ser ELSE effecting[g]
    BY <2>1 DEF Effect
  <2>3. /\ DOMAIN effecting \subseteq 0..(MaxFrame + 1)
        /\ \A g \in DOMAIN effecting : effecting[g] \in Serials
        /\ Cardinality(DOMAIN effecting) <= KeepMax
    BY <1>1 DEF Parted, EffectOK
  <2>4. DOMAIN effecting' \subseteq 0..(MaxFrame + 1)
    BY <1>3, <2>2, <2>3
  <2>5. \A g \in DOMAIN effecting' : effecting'[g] \in Serials
    BY <1>3, <2>2, <2>3
  <2>6. Cardinality(DOMAIN effecting') <= KeepMax + 1
    <3>1. IsFiniteSet(0..(MaxFrame + 1))
      <4>1. MaxFrame + 1 \in Int /\ 0 \in Int
        BY <1>3
      <4> QED
        BY <4>1, FS_Interval
    <3>2. IsFiniteSet(DOMAIN effecting)
      BY <2>3, <3>1, FS_Subset
    <3>3. Cardinality(DOMAIN effecting) \in Nat
      BY <3>2, FS_CardinalityType
    <3>4. \/ Cardinality(DOMAIN effecting \cup {job}) = Cardinality(DOMAIN effecting)
          \/ Cardinality(DOMAIN effecting \cup {job})
                = Cardinality(DOMAIN effecting) + 1
      BY <3>2, FS_AddElement
    <3>5. CASE Cardinality(DOMAIN effecting') = Cardinality(DOMAIN effecting)
      BY <1>3, <2>3, <3>3, <3>5
    <3>6. CASE Cardinality(DOMAIN effecting')
                  = Cardinality(DOMAIN effecting) + 1
      BY <1>3, <2>3, <3>3, <3>6
    <3> QED
      BY <2>2, <3>4, <3>5, <3>6, Zenon
  <2> QED
    BY <1>2, <2>4, <2>5, <2>6 DEF EffectOK
<1>5. Merged \in Params
  BY MergedTyped
<1>6. FullOK'
  BY <1>1, <1>2 DEF Parted, FullOK, SyncSent
<1>7. queued' \in Seq(Buffers) /\ Len(queued') <= Bufs
  <2> DEFINE b == [frame |-> job, src |-> res.ser, set |-> Merged]
  <2>1. b \in Buffers
    BY <1>3, <1>5 DEF Buffers
  <2>2. queued \in Seq(Buffers) /\ Len(queued) < Bufs /\ Bufs \in Nat
        /\ queued' = Append(queued, b)
    BY <1>1 DEF Parted, IspOK, SyncSent, IspParamsAssumption
  <2> HIDE DEF b
  <2> QED
    BY <2>1, <2>2
<1>8. IspOK'
  BY <1>2, <1>7 DEF IspOK
<1> QED
  BY <1>2, <1>4, <1>6, <1>8

LEMMA UnsentTyped ==
    ASSUME IspParamsAssumption, Typed, Timed, NEW readBack, End(readBack),
           missed' = missed \cup Merged.enUp \cup Merged.cfgUp,
           UNCHANGED <<effecting, queued>>
    PROVE  EffectOK' /\ FullOK' /\ IspOK' /\ SyncOK' /\ QueueOK' /\ ForceOK'
<1>1. Parted
  BY TypedParts
<1>2. /\ ens' \subseteq Modules /\ cfg' \in [Modules -> 0..MaxSerial]
      /\ frame' \in Frames \cup {None} /\ handed' \in Seq(Frames)
      /\ drv' \in Drivers
      /\ inForce' \in [Frames -> 0..MaxSerial \cup {None}]
      /\ SyncOK' /\ QueueOK' /\ ForceOK' /\ pc' = "idle"
  BY EndTyped DEF End
<1>3. EffectOK'
  BY <1>1, <1>2 DEF Parted, EffectOK
<1>4. FullOK'
  <2>1. Merged \in Params
    BY MergedTyped
  <2>2. Merged.enUp \subseteq Modules /\ Merged.cfgUp \subseteq Modules
    BY <2>1 DEF Params
  <2>3. missed \subseteq Modules
    BY <1>1 DEF Parted, FullOK
  <2> QED
    BY <1>2, <2>2, <2>3 DEF FullOK
<1>5. IspOK'
  BY <1>1, <1>2 DEF Parted, IspOK
<1> QED
  BY <1>2, <1>3, <1>4, <1>5

LEMMA TypedNext ==
    ASSUME IspParamsAssumption, Typed, Timed, [Next]_vars
    PROVE  Typed'
<1>1. Parted
  BY TypedParts
<1>2. SUFFICES Parted'
  BY TypedParts, PTL
<1>3. /\ MaxFrame \in Nat /\ MaxSerial \in Nat /\ MaxStreams \in Nat
  BY DEF IspParamsAssumption
<1> USE DEF Parted
<1>4. CASE SetInitialParams
  <2>1. PICK r \in Results : Queue(r)
    <3>1. PICK u \in SUBSET Flagged, on \in SUBSET Forceable :
             Queue([id |-> 0, ser |-> serial + 1, upd |-> u,
                    on |-> on \cup (Modules \ Forceable)])
      BY <1>4 DEF SetInitialParams
    <3>2. [id |-> 0, ser |-> serial + 1, upd |-> u,
           on |-> on \cup (Modules \ Forceable)] \in Results
      <4>1. serial + 1 \in 1..MaxSerial
        BY <1>1, <1>3, <1>4 DEF QueueOK, SetInitialParams
      <4>2. on \cup (Modules \ Forceable) \in SUBSET Modules
        BY DEF IspParamsAssumption
      <4> QED
        BY <1>3, <4>1, <4>2 DEF Results, Serials
    <3> QED
      BY <3>1, <3>2
  <2>2. pending' \in Seq(Results) /\ Len(pending') <= PendingMax + 1
    BY <2>1, QueueTyped
  <2>3. QueueOK'
    BY <1>1, <1>3, <1>4, <2>2 DEF QueueOK, SetInitialParams
  <2>4. EngineTyped'
    BY <1>1, <1>4 DEF EngineTyped, SetInitialParams
  <2> QED
    BY <1>1, <1>4, <2>3, <2>4, Unaffected DEF SetInitialParams, sync
<1>5. CASE SetIspParams
  <2>1. PICK i \in Ids, u \in SUBSET Flagged, on \in SUBSET Forceable :
             /\ Queue([id |-> i, ser |-> serial + 1, upd |-> u,
                       on |-> on \cup (Modules \ Forceable)])
             /\ lastId' = i
             /\ calling' = IF noReadBack THEN i ELSE None
    BY <1>5 DEF SetIspParams
  <2>2. i \in 0..(MaxFrame + 1)
    BY <1>3 DEF Ids, Answered, Frames
  <2>3. [id |-> i, ser |-> serial + 1, upd |-> u,
         on |-> on \cup (Modules \ Forceable)] \in Results
    <3>1. serial + 1 \in 1..MaxSerial
      BY <1>1, <1>3, <1>5 DEF QueueOK, SetIspParams
    <3>2. on \cup (Modules \ Forceable) \in SUBSET Modules
      BY DEF IspParamsAssumption
    <3> QED
      BY <2>2, <3>1, <3>2 DEF Results, Serials
  <2>4. pending' \in Seq(Results) /\ Len(pending') <= PendingMax + 1
    BY <2>1, <2>3, QueueTyped
  <2>5. QueueOK'
    BY <1>1, <1>3, <1>5, <2>1, <2>2, <2>4 DEF QueueOK, SetIspParams
  <2> QED
    BY <1>1, <1>5, <2>5, Unaffected DEF SetIspParams, sync
<1>6. CASE SyncFrame
  <2>1. /\ frame \in Frames \cup {None} /\ frame < MaxFrame
        /\ pc = "idle" /\ Begin(frame + 1)
    BY <1>1, <1>6 DEF IspOK, SyncFrame
  <2>2. frame + 1 \in Frames /\ frame + 1 \in 0..(MaxFrame + 1)
    BY <1>3, <2>1 DEF Frames, None
  <2>3. /\ EffectOK' /\ SyncOK' /\ ForceOK'
        /\ pending' \in Seq(Results) /\ Len(pending') <= PendingMax + 1
        /\ last' \in Results \cup {NoResult}
    BY <2>1, <2>2, BeginTyped
  <2>4. UNCHANGED <<engine, serial, lastId, full, queued, drv, inForce, calling>>
    BY <1>6, <2>1 DEF Begin, SyncFrame
  <2>5. QueueOK'
    BY <1>1, <2>3, <2>4 DEF QueueOK
  <2>6. IspOK'
    BY <1>1, <1>6, <2>2, <2>4 DEF IspOK, SyncFrame
  <2> QED
    BY <1>1, <2>3, <2>4, <2>5, <2>6, Unaffected
<1>7. CASE SyncOwn
  <2>1. /\ calling \in 0..(MaxFrame + 1)
        /\ pc = "idle" /\ Begin(calling)
    BY <1>1, <1>7 DEF QueueOK, SyncOwn
  <2>2. /\ EffectOK' /\ SyncOK' /\ ForceOK'
        /\ pending' \in Seq(Results) /\ Len(pending') <= PendingMax + 1
        /\ last' \in Results \cup {NoResult}
    BY <2>1, BeginTyped
  <2>3. UNCHANGED <<engine, serial, lastId, full, queued, drv, inForce>>
    BY <2>1 DEF Begin
  <2>4. QueueOK'
    BY <1>1, <1>7, <2>2, <2>3 DEF QueueOK, SyncOwn
  <2>5. IspOK'
    BY <1>1, <1>7, <2>3 DEF IspOK, SyncOwn
  <2> QED
    BY <1>1, <2>2, <2>3, <2>4, <2>5, Unaffected
<1>8. CASE SyncSent
  <2>1. EffectOK' /\ FullOK' /\ IspOK' /\ SyncOK'
    BY <1>8, SentTyped
  <2>2. PICK known : End(known)
    BY <1>8 DEF SyncSent
  <2>3. QueueOK' /\ ForceOK'
    BY <2>2, EndTyped
  <2>4. UNCHANGED engine
    BY <1>8, <2>2 DEF SyncSent, End, engine
  <2> QED
    BY <1>1, <2>1, <2>3, <2>4, Unaffected
<1>9. CASE SyncNoBuffer \/ SyncNotQueued \/ SyncNoPool
  <2>1. PICK known : End(known)
    BY <1>9 DEF SyncNoBuffer, SyncNotQueued, SyncNoPool
  <2>2. /\ missed' = missed \cup Merged.enUp \cup Merged.cfgUp
        /\ UNCHANGED <<effecting, queued>>
        /\ state' \in {state, "down"}
    BY <1>9 DEF SyncNoBuffer, SyncNotQueued, SyncNoPool
  <2>3. EffectOK' /\ FullOK' /\ IspOK' /\ SyncOK' /\ QueueOK' /\ ForceOK'
    BY <2>1, <2>2, UnsentTyped
  <2>4. EngineTyped'
    BY <1>1, <2>1, <2>2 DEF EngineTyped, End
  <2> QED
    BY <2>3, <2>4
<1>10. CASE \E m \in Forceable, on \in BOOLEAN : SetModuleStatus(m, on)
  <2>1. PICK m \in Forceable, on \in BOOLEAN : SetModuleStatus(m, on)
    BY <1>10
  <2>2. m \in Modules
    BY DEF IspParamsAssumption
  <2>3. flags' \subseteq Forceable /\ wish' \subseteq Forceable
        /\ forceEns' \subseteq Modules
    <3>1. /\ flags \subseteq Forceable /\ wish \subseteq Forceable
          /\ forceEns \subseteq Modules
      BY <1>1 DEF ForceOK
    <3>2. flags' \subseteq Forceable
      BY <2>1, <3>1 DEF SetModuleStatus
    <3>3. wish' \subseteq Forceable
      BY <2>1, <3>1 DEF SetModuleStatus
    <3>4. forceEns' \subseteq Modules
      BY <2>1, <2>2, <3>1 DEF SetModuleStatus
    <3> QED
      BY <3>2, <3>3, <3>4
  <2>4. UNCHANGED <<engine, queue, effecting, full, sync, isp>>
    BY <2>1 DEF SetModuleStatus
  <2> QED
    BY <1>1, <2>3, <2>4, Unaffected DEF ForceOK, queue, sync
<1>11. CASE Start
  <2>1. EngineTyped'
    BY <1>1, <1>3, <1>11 DEF EngineTyped, Start
  <2> QED
    BY <1>1, <1>11, <2>1, Unaffected DEF Start, queue, sync
<1>12. CASE Halt
  <2>1. EngineTyped'
    BY <1>1, <1>12 DEF EngineTyped, Halt
  <2>2. QueueOK'
    <3>1. pending' \in Seq(Results) /\ Len(pending') = 0
      BY <1>12 DEF Halt
    <3>2. PendingMax \in Nat
      BY DEF IspParamsAssumption
    <3> QED
      BY <1>1, <1>3, <1>12, <3>1, <3>2 DEF QueueOK, Halt
  <2>3. EffectOK'
    <3>1. DOMAIN effecting' = {} /\ Cardinality(DOMAIN effecting') = 0
      BY <1>12, FS_EmptySet DEF Halt
    <3>2. KeepMax \in Nat
      BY DEF IspParamsAssumption
    <3> QED
      BY <3>1, <3>2 DEF EffectOK
  <2>4. FullOK' /\ ForceOK' /\ SyncOK'
    <3>1. FullOK'
      BY <1>1, <1>12 DEF FullOK, Halt
    <3> QED
      BY <1>1, <1>12, <3>1, Unaffected DEF Halt
  <2>5. IspOK'
    <3>1. handed' \in Seq(Frames) /\ queued' \in Seq(Buffers)
          /\ Len(queued') = 0
      BY <1>12 DEF Halt
    <3>2. drv' \in Drivers
      BY <1>3, <1>12 DEF Halt, DriverOff, Drivers
    <3>3. inForce' \in [Frames -> 0..MaxSerial \cup {None}]
      BY <1>12 DEF Halt
    <3>4. Bufs \in Nat
      BY DEF IspParamsAssumption
    <3> QED
      BY <1>12, <3>1, <3>2, <3>3, <3>4 DEF IspOK, Halt
  <2> QED
    BY <2>1, <2>2, <2>3, <2>4, <2>5
<1>13. CASE Arrive
  <2>1. frame + 1 \in Frames
    BY <1>1, <1>3, <1>13 DEF IspOK, Arrive, Frames, None
  <2>2. IspOK'
    BY <1>1, <1>13, <2>1 DEF IspOK, Arrive
  <2> QED
    BY <1>1, <1>13, <2>2, Unaffected DEF Arrive, queue, sync
<1>14. CASE Process
  <2>1. /\ handed # <<>> /\ handed \in Seq(Frames)
        /\ queued \in Seq(Buffers) /\ Len(queued) <= Bufs
        /\ drv \in Drivers
        /\ inForce \in [Frames -> 0..MaxSerial \cup {None}]
        /\ frame \in Frames \cup {None}
    BY <1>1, <1>14 DEF IspOK, Process
  <2>2. PICK f \in Frames : f = Head(handed)
    BY <2>1
  <2>3. f \in Int
    BY DEF Frames
  <2>4. PICK k \in 0..Len(queued) : k = Due(queued, f)
    BY <2>1, <2>3, DueFacts
  <2>5. /\ drv' = Applied(drv, SubSeq(queued, 1, k))
        /\ queued' = SubSeq(queued, k + 1, Len(queued))
        /\ inForce' = [inForce EXCEPT ![f] = drv'.src]
        /\ handed' = Tail(handed)
        /\ UNCHANGED <<engine, queue, effecting, full, force, sync, frame>>
    BY <1>14, <2>2, <2>4 DEF Process
  <2>6. /\ SubSeq(queued, 1, k) \in Seq(Buffers)
        /\ queued' \in Seq(Buffers) /\ Len(queued') = Len(queued) - k
        /\ Len(queued) \in Nat
    BY <2>1, <2>5, Parts
  <2>7. drv' \in Drivers
    BY <2>1, <2>5, <2>6, AppliedTyped
  <2>8. inForce' \in [Frames -> 0..MaxSerial \cup {None}]
    BY <2>1, <2>5, <2>7 DEF Drivers
  <2>9. handed' \in Seq(Frames)
    BY <2>1, <2>5
  <2>10. IspOK'
    BY <2>1, <2>5, <2>6, <2>7, <2>8, <2>9 DEF IspOK, IspParamsAssumption
  <2> QED
    BY <1>1, <2>5, <2>10, Unaffected DEF queue, sync
<1>17. CASE GetEffectiveIspParams
  <2>1. effecting' = EraseOldest
    BY <1>17 DEF GetEffectiveIspParams
  <2>2. /\ DOMAIN effecting' \subseteq DOMAIN effecting
        /\ \A g \in DOMAIN effecting' : effecting'[g] = effecting[g]
        /\ Cardinality(DOMAIN effecting') <= KeepMax
    BY <2>1, EraseOldestTyped
  <2>3. Cardinality(DOMAIN effecting') <= KeepMax + 1
    <3>1. IsFiniteSet(0..(MaxFrame + 1))
      <4>1. MaxFrame + 1 \in Int /\ 0 \in Int
        BY <1>3
      <4> QED
        BY <4>1, FS_Interval
    <3>2. DOMAIN effecting' \subseteq 0..(MaxFrame + 1)
      BY <1>1, <2>2 DEF EffectOK
    <3>3. Cardinality(DOMAIN effecting') \in Nat /\ KeepMax \in Nat
      BY <3>1, <3>2, FS_Subset, FS_CardinalityType DEF IspParamsAssumption
    <3> QED
      BY <2>2, <3>3
  <2>4. EffectOK'
    BY <1>1, <2>2, <2>3 DEF EffectOK
  <2> QED
    BY <1>1, <1>17, <2>4, Unaffected DEF GetEffectiveIspParams, queue, sync
<1>16. CASE UNCHANGED vars
  BY <1>1, <1>16, Unaffected DEF vars, queue, sync
<1> QED
  BY <1>4, <1>5, <1>6, <1>7, <1>8, <1>9, <1>10, <1>11, <1>12, <1>13, <1>14,
     <1>17, <1>16 DEF Next

-----------------------------------------------------------------------------
(* What the actions do to the state the other conjuncts speak of. *)

\* What is taken is the newest queued result, or the last taken again.
LEMMA BeginEffect ==
    ASSUME IspParamsAssumption, Typed, pc = "idle", NEW f, Begin(f)
    PROVE  /\ pending = <<>> => UNCHANGED <<pending, last, flags, sync>>
           /\ pending # <<>> =>
                 /\ Len(pending) \in DOMAIN pending
                 /\ last' = Chosen(f) /\ res' = last' /\ last' \in Results
                 /\ pc' = "send" /\ job' = f
                 /\ Chosen(f) = IF /\ pending[Len(pending)].id # f
                                   /\ last.id > pending[Len(pending)].id
                                THEN last ELSE pending[Len(pending)]
                 /\ upd' = Forced(Converted(last'), last')
                 /\ flags' = flags \ Unforced(last')
                 /\ pending' = IF pending[Len(pending)].id = f
                               THEN Front(pending) ELSE pending
           /\ UNCHANGED <<engine, serial, lastId, full, forceEns, wish,
                          queued, drv, inForce>>
           /\ effecting' = EraseOldest
<1>1. CASE pending = <<>>
  BY <1>1 DEF Begin
<1>2. CASE pending # <<>>
  <2>1. /\ Len(pending) \in Nat \ {0}
        /\ Last(pending) = pending[Len(pending)]
        /\ Chosen(f) \in Results /\ pending \in Seq(Results)
    BY <1>2, ChosenTyped DEF Typed, TypeOK
  <2>2. Len(pending) \in DOMAIN pending
    BY <2>1
  <2>3. Chosen(f) = IF /\ pending[Len(pending)].id # f
                       /\ last.id > pending[Len(pending)].id
                    THEN last ELSE pending[Len(pending)]
    BY <2>1, Zenon DEF Chosen
  <2>4. /\ res' = Chosen(f) /\ last' = Chosen(f)
        /\ upd' = Forced(Converted(Chosen(f)), Chosen(f))
        /\ flags' = flags \ Unforced(Chosen(f))
        /\ pending' = IF Last(pending).id = f THEN Front(pending) ELSE pending
        /\ pc' = "send" /\ job' = f
    BY <1>2, Zenon DEF Begin
  <2>5. /\ UNCHANGED <<engine, serial, lastId, full, forceEns, wish,
                       queued, drv, inForce>>
        /\ effecting' = EraseOldest
    BY DEF Begin
  <2> QED
    BY <1>2, <2>1, <2>2, <2>3, <2>4, <2>5
<1> QED
  BY <1>1, <1>2

\* A call ends.
Ending ==
    \/ SyncSent
    \/ SyncNoBuffer \/ SyncNotQueued \/ SyncNoPool

LEMMA EndingEffect ==
    ASSUME Ending
    PROVE  /\ pc = "send" /\ pc' = "idle"
           /\ forceEns' = upd.ens /\ ens' = Merged.ens /\ cfg' = Merged.cfg
           /\ UNCHANGED <<noReadBack, devOn, streams, queue, flags, wish,
                          frame, drv, inForce>>
           /\ state' \in {state, "down"}
           /\ \/ handed' = handed
              \/ /\ state = "started" /\ ~noReadBack
                 /\ handed' = Append(handed, job)
<1>1. PICK known : End(known)
  BY DEF Ending, SyncSent, SyncNoBuffer, SyncNotQueued, SyncNoPool
<1>2. state' \in {state, "down"}
  BY DEF Ending, SyncSent, SyncNoBuffer, SyncNotQueued, SyncNoPool
<1> QED
  BY <1>1, <1>2, Zenon DEF End

\* The cases of a step, the ways out of a call together.
LEMMA Steps ==
    ASSUME [Next]_vars
    PROVE  \/ SetInitialParams \/ SetIspParams \/ SyncFrame \/ SyncOwn \/ Ending
           \/ \E m \in Forceable, on \in BOOLEAN : SetModuleStatus(m, on)
           \/ Start \/ Halt \/ Arrive \/ Process \/ GetEffectiveIspParams
           \/ UNCHANGED vars
BY DEF Next, Ending

\* What is queued.
LEMMA SetEffect ==
    ASSUME IspParamsAssumption, Typed, Calling,
           SetInitialParams \/ SetIspParams
    PROVE  \E r \in Results :
              /\ r.ser = serial + 1 /\ r.id = lastId'
              /\ serial' = serial + 1 /\ serial \in Nat
              /\ Queue(r)
              /\ SetInitialParams => r.id = 0
              /\ SetIspParams => r.id \in Ids
              /\ OwnCall => pending' = <<r>>
<1>1. PICK i : \E u \in SUBSET Flagged, on \in SUBSET Forceable :
         /\ Queue([id |-> i, ser |-> serial + 1, upd |-> u,
                   on |-> on \cup (Modules \ Forceable)])
         /\ lastId' = i
         /\ i = 0 \/ i \in Ids
         /\ SetInitialParams => i = 0
         /\ SetIspParams => i \in Ids
  <2>1. ~(SetInitialParams /\ SetIspParams)
    BY DEF SetInitialParams, SetIspParams
  <2>2. CASE SetInitialParams
    <3>1. PICK u \in SUBSET Flagged, on \in SUBSET Forceable :
             Queue([id |-> 0, ser |-> serial + 1, upd |-> u,
                    on |-> on \cup (Modules \ Forceable)])
      BY <2>2 DEF SetInitialParams
    <3>2. lastId' = 0
      BY <2>2 DEF SetInitialParams
    <3> QED
      BY <2>1, <2>2, <3>1, <3>2, Zenon
  <2>3. CASE SetIspParams
    <3>1. PICK i \in Ids, u \in SUBSET Flagged, on \in SUBSET Forceable :
             /\ Queue([id |-> i, ser |-> serial + 1, upd |-> u,
                       on |-> on \cup (Modules \ Forceable)])
             /\ lastId' = i
      BY <2>3 DEF SetIspParams
    <3> QED
      BY <2>1, <2>3, <3>1, Zenon
  <2> QED
    BY <2>2, <2>3
<1>2. /\ serial \in 0..MaxSerial /\ serial < MaxSerial /\ serial' = serial + 1
      /\ MaxFrame \in Nat /\ MaxSerial \in Nat /\ PendingMax \in Nat
      /\ calling = None /\ state # "down"
  BY DEF Typed, TypeOK, SetInitialParams, SetIspParams, IspParamsAssumption
<1>3. i \in 0..(MaxFrame + 1)
  BY <1>1, <1>2 DEF Ids, Answered, Frames
<1>4. PICK u \in SUBSET Flagged, on \in SUBSET Forceable :
         Queue([id |-> i, ser |-> serial + 1, upd |-> u,
                on |-> on \cup (Modules \ Forceable)])
  BY <1>1
<1> DEFINE r == [id |-> i, ser |-> serial + 1, upd |-> u,
                 on |-> on \cup (Modules \ Forceable)]
<1>5. r \in Results /\ r.ser = serial + 1 /\ r.id = i
  <2>1. on \cup (Modules \ Forceable) \in SUBSET Modules
    BY DEF IspParamsAssumption
  <2> QED
    BY <1>2, <1>3, <2>1 DEF Results, Serials
<1>6. ASSUME OwnCall PROVE pending' = <<r>>
  <2>1. pending = <<>>
    BY <1>2, <1>6 DEF Calling
  <2>2. ~(Len(pending) > PendingMax)
    BY <1>2, <2>1
  <2>3. pending' = Append(pending, r)
    BY <1>4, <2>2, Zenon DEF Queue
  <2> HIDE DEF r
  <2> QED
    BY <1>5, <2>1, <2>3
<1> HIDE DEF r
<1>7. Queue(r)
  BY <1>4 DEF r
<1> QED
  BY <1>1, <1>2, <1>5, <1>6, <1>7

\* What the queue and the calls have in common does not change.
LEMMA CallingKept ==
    ASSUME Calling,
           UNCHANGED <<state, noReadBack, pending, calling, serial, pc>>
    PROVE  Calling'
BY DEF Calling, OwnCall

LEMMA CallingNext ==
    ASSUME IspParamsAssumption, Inv, [Next]_vars
    PROVE  Calling'
<1>1. Typed /\ Calling /\ pending \in Seq(Results) /\ pc \in {"idle", "send"}
      /\ PendingMax \in Nat
  BY DEF Inv, Typed, TypeOK, IspParamsAssumption
<1>2. CASE SetInitialParams \/ SetIspParams
  <2>1. PICK r \in Results :
              /\ r.ser = serial + 1 /\ r.id = lastId'
              /\ serial' = serial + 1
              /\ OwnCall => pending' = <<r>>
    BY <1>1, <1>2, SetEffect
  <2>2. OwnCall' => OwnCall /\ pending' = <<r>> /\ calling' = r.id
                    /\ calling' # None
    <3>1. OwnCall' => OwnCall
      <4>1. SetInitialParams => OwnCall
        BY DEF OwnCall, SetInitialParams
      <4>2. SetIspParams => UNCHANGED <<state, noReadBack>>
        BY DEF SetIspParams, engine
      <4> QED
        BY <1>2, <4>1, <4>2 DEF OwnCall
    <3>2. OwnCall => calling' = r.id
      <4>1. SetInitialParams => calling' = lastId'
        BY DEF SetInitialParams
      <4>2. SetIspParams /\ noReadBack => calling' = lastId'
        BY DEF SetIspParams
      <4>3. SetIspParams /\ OwnCall => noReadBack
        BY DEF OwnCall, SetIspParams
      <4> QED
        BY <1>2, <2>1, <4>1, <4>2, <4>3
    <3>3. r.id # None
      BY DEF Results, None
    <3> QED
      BY <2>1, <3>1, <3>2, <3>3
  <2>3. calling' # None => OwnCall'
    <3>1. SetInitialParams => OwnCall'
      BY DEF OwnCall, SetInitialParams
    <3>2. SetIspParams /\ calling' # None => noReadBack'
      BY DEF SetIspParams, engine
    <3> QED
      BY <1>2, <3>1, <3>2 DEF OwnCall
  <2>4. OwnCall' => Len(pending') = 1 /\ pending'[1] = r
    BY <2>2
  <2>5. pc' = "send" => calling' = None
    BY <1>1, <1>2 DEF SetInitialParams, SetIspParams, sync
  <2>6. state' # "down"
    BY <1>2 DEF SetInitialParams, SetIspParams, engine
  <2> QED
    BY <2>1, <2>2, <2>3, <2>4, <2>5, <2>6 DEF Calling
<1>3. CASE SyncFrame
  <2>1. ~OwnCall /\ calling = None
    BY <1>1, <1>3 DEF SyncFrame, OwnCall, Calling
  <2>2. UNCHANGED <<state, noReadBack, calling>> /\ state = "started"
    BY <1>1, <1>3 DEF SyncFrame, Begin, engine
  <2> QED
    BY <2>1, <2>2 DEF Calling, OwnCall
<1>4. CASE SyncOwn
  <2>1. /\ calling # None /\ pc = "idle" /\ Begin(calling) /\ calling' = None
        /\ Len(pending) = 1 /\ pending[1].id = calling /\ OwnCall
        /\ state # "down"
    BY <1>1, <1>4 DEF SyncOwn, Calling
  <2>2. pending' = Front(pending) /\ UNCHANGED engine
    <3>1. pending # <<>>
      <4>1. Len(pending) = 1 /\ pending \in Seq(Results)
        BY <1>1, <2>1, Zenon
      <4>2. Len(<<>>) # 1
        OBVIOUS
      <4> QED
        BY <4>1, <4>2, Zenon
    <3>2. pending[Len(pending)].id = calling
      BY <2>1, Zenon
    <3> QED
      BY <1>1, <2>1, <3>1, <3>2, BeginEffect
  <2>3. Front(pending) = <<>>
    <3>1. pending # <<>>
      <4>1. Len(pending) = 1 /\ pending \in Seq(Results)
        BY <1>1, <2>1, Zenon
      <4>2. Len(<<>>) # 1
        OBVIOUS
      <4> QED
        BY <4>1, <4>2, Zenon
    <3>2. Front(pending) \in Seq(Results) /\ Len(Front(pending)) = 1 - 1
      BY <1>1, <2>1, <3>1, ChosenTyped
    <3> QED
      BY <3>2
  <2> QED
    BY <2>1, <2>2, <2>3 DEF Calling, OwnCall, engine
<1>5. CASE Ending
  <2>1. /\ pc = "send" /\ pc' = "idle"
        /\ UNCHANGED <<noReadBack, queue>> /\ state' \in {state, "down"}
    BY <1>5, EndingEffect
  <2> QED
    BY <1>1, <2>1 DEF Calling, OwnCall, queue
<1>6. CASE Start
  BY <1>1, <1>6 DEF Start, Calling, OwnCall, queue, sync
<1>7. CASE Halt
  <2>1. pending' = <<>> /\ calling' = None /\ pc' = "idle" /\ state' # "down"
    BY <1>7 DEF Halt, sync
  <2> QED
    BY <2>1 DEF Calling
<1>8. CASE \/ \E m \in Forceable, on \in BOOLEAN : SetModuleStatus(m, on)
           \/ Arrive \/ Process \/ GetEffectiveIspParams \/ UNCHANGED vars
  <2>1. UNCHANGED <<engine, queue, sync>>
    BY <1>8 DEF SetModuleStatus, Arrive, Process, GetEffectiveIspParams, vars
  <2> QED
    BY <1>1, <2>1, CallingKept DEF engine, queue, sync
<1> QED
  BY <1>2, <1>3, <1>4, <1>5, <1>6, <1>7, <1>8, Steps

LEMMA AtRestNext ==
    ASSUME IspParamsAssumption, Inv, [Next]_vars
    PROVE  AtRest'
<1>1. Typed /\ Calling /\ AtRest
  BY DEF Inv
<1>2. CASE SetInitialParams \/ SetIspParams
  BY <1>1, <1>2 DEF AtRest, SetInitialParams, SetIspParams, engine, isp
<1>3. CASE SyncFrame
  <2>1. state = "started" /\ state' = state
    BY <1>3 DEF SyncFrame, Begin, engine
  <2> QED
    BY <2>1 DEF AtRest
<1>4. CASE SyncOwn
  <2>1. UNCHANGED <<engine, lastId, drv, inForce, frame, handed>>
        /\ calling' = None
    BY <1>4 DEF SyncOwn, Begin
  <2> QED
    BY <1>1, <2>1 DEF AtRest, engine
<1>5. CASE Ending
  <2>1. /\ UNCHANGED <<queue, frame, drv, inForce>>
        /\ state' \in {state, "down"}
        /\ handed' = handed \/ state = "started"
    BY <1>5, EndingEffect
  <2> QED
    BY <1>1, <2>1 DEF AtRest, queue
<1>6. CASE Start
  BY <1>6 DEF Start, AtRest
<1>7. CASE Halt
  BY <1>7 DEF Halt, AtRest
<1>8. CASE Arrive \/ Process
  <2>1. state = "started" /\ state' = state
    BY <1>8 DEF Arrive, Process, engine
  <2> QED
    BY <2>1 DEF AtRest
<1>9. CASE \/ \E m \in Forceable, on \in BOOLEAN : SetModuleStatus(m, on)
           \/ GetEffectiveIspParams \/ UNCHANGED vars
  <2>1. UNCHANGED <<engine, queue, isp>>
    BY <1>9 DEF SetModuleStatus, GetEffectiveIspParams, vars
  <2> QED
    BY <1>1, <2>1 DEF AtRest, engine, queue, isp
<1> QED
  BY <1>2, <1>3, <1>4, <1>5, <1>6, <1>7, <1>8, <1>9, Steps

\* A call begins for some frame, or not at all.
LEMMA Beginning ==
    ASSUME IspParamsAssumption, Typed, SyncFrame \/ SyncOwn
    PROVE  /\ pc = "idle" /\ Begin(IF SyncFrame THEN frame + 1 ELSE calling)
           /\ UNCHANGED <<engine, serial, lastId, full, forceEns, wish,
                          queued, drv, inForce>>
           /\ effecting' = EraseOldest
           /\ \/ /\ pending = <<>>
                 /\ UNCHANGED <<pending, last, flags, sync>>
              \/ /\ pc' = "send" /\ last' \in Results /\ res' = last'
                 /\ upd' = Forced(Converted(last'), last')
                 /\ flags' = flags \ Unforced(last')
<1>1. pc = "idle" /\ Begin(IF SyncFrame THEN frame + 1 ELSE calling)
  BY DEF SyncFrame, SyncOwn
<1> QED
  BY <1>1, BeginEffect

LEMMA ObeyedNext ==
    ASSUME IspParamsAssumption, Inv, [Next]_vars
    PROVE  Obeyed' /\ Complete'
<1>1. Typed /\ Obeyed /\ Complete /\ pc \in {"idle", "send"}
  BY DEF Inv, Typed, TypeOK
<1>2. CASE SyncFrame \/ SyncOwn
  <2>1. pc = "idle" /\ UNCHANGED <<forceEns, wish>>
    BY <1>1, <1>2, Beginning
  <2>2. CASE pending = <<>> /\ UNCHANGED <<pending, last, flags, sync>>
    BY <1>1, <2>1, <2>2 DEF Obeyed, Complete, sync
  <2>3. CASE /\ pc' = "send" /\ last' \in Results /\ res' = last'
             /\ upd' = Forced(Converted(last'), last')
             /\ flags' = flags \ Unforced(last')
    <3>1. PICK r \in Results : r = last'
      BY <2>3
    <3>2. upd' = Forced(Converted(r), r) /\ flags' = flags \ Unforced(r)
      BY <2>3, <3>1
    <3>3. PICK u : u = upd'
      OBVIOUS
    <3>4. /\ u.ens \subseteq u.enUp \cap u.cfgUp
          /\ flags \ forceEns \subseteq u.enUp \ u.ens
      BY <1>1, <3>2, <3>3, UpdTyped
    <3>5. wish \subseteq flags \ forceEns
      BY <1>1, <2>1 DEF Obeyed
    <3>6. wish \subseteq flags'
      BY <3>2, <3>5 DEF Unforced
    <3>7. Complete'
      BY <3>3, <3>4 DEF Complete
    <3>8. Obeyed'
      BY <2>1, <2>3, <3>3, <3>4, <3>5, <3>6 DEF Obeyed
    <3> QED
      BY <3>7, <3>8
  <2> QED
    BY <1>1, <1>2, <2>2, <2>3, Beginning
<1>3. CASE Ending
  <2>1. /\ pc = "send" /\ pc' = "idle" /\ forceEns' = upd.ens
        /\ UNCHANGED <<flags, wish>>
    BY <1>3, EndingEffect
  <2> QED
    BY <1>1, <2>1 DEF Obeyed, Complete
<1>4. CASE \E m \in Forceable, on \in BOOLEAN : SetModuleStatus(m, on)
  <2>1. PICK m \in Forceable, on \in BOOLEAN : SetModuleStatus(m, on)
    BY <1>4
  <2>2. UNCHANGED <<pc, upd>> /\ flags' = flags \cup {m}
    BY <2>1 DEF SetModuleStatus, sync
  <2>3. CASE on
    <3>1. forceEns' = forceEns \cup {m} /\ wish' = wish \ {m}
      BY <2>1, <2>3 DEF SetModuleStatus
    <3> QED
      BY <1>1, <2>2, <3>1 DEF Obeyed, Complete
  <2>4. CASE ~on
    <3>1. forceEns' = forceEns \ {m}
          /\ wish' = IF pc = "idle" THEN wish \cup {m} ELSE wish \ {m}
      BY <2>1, <2>4 DEF SetModuleStatus
    <3>2. Complete'
      BY <1>1, <2>2 DEF Complete
    <3>3. CASE pc = "idle"
      BY <1>1, <2>2, <3>1, <3>2, <3>3 DEF Obeyed
    <3>4. CASE pc = "send"
      BY <1>1, <2>2, <3>1, <3>2, <3>4 DEF Obeyed
    <3> QED
      BY <1>1, <3>3, <3>4
  <2> QED
    BY <2>3, <2>4
<1>5. CASE \/ SetInitialParams \/ SetIspParams \/ Start \/ Halt
           \/ Arrive \/ Process \/ GetEffectiveIspParams \/ UNCHANGED vars
  <2>1. UNCHANGED <<force, sync>>
    BY <1>5 DEF SetInitialParams, SetIspParams, Start, Halt, Arrive, Process,
                GetEffectiveIspParams, vars
  <2> QED
    BY <1>1, <2>1 DEF Obeyed, Complete, force, sync
<1> QED
  BY <1>2, <1>3, <1>4, <1>5, Steps

LEMMA LinedNext ==
    ASSUME IspParamsAssumption, Inv, [Next]_vars
    PROVE  Lined'
<1>1. Typed
  BY DEF Inv
<1>2. Typed /\ Calling /\ Lined /\ pending \in Seq(Results)
      /\ serial \in Nat /\ lastId \in Nat
  <2>1. pending \in Seq(Results) /\ serial \in 0..MaxSerial
        /\ lastId \in 0..(MaxFrame + 1)
    BY <1>1 DEF Typed, TypeOK
  <2>2. MaxSerial \in Nat /\ MaxFrame \in Nat
    BY DEF IspParamsAssumption
  <2> QED
    BY <2>1, <2>2 DEF Inv
<1>3. \A i \in DOMAIN pending : pending[i].ser \in Int /\ pending[i].id \in Int
  <2>1. ASSUME NEW i \in DOMAIN pending
        PROVE  pending[i].ser \in Int /\ pending[i].id \in Int
    <3>1. pending[i] \in Results
      BY <1>2
    <3> QED
      BY <3>1 DEF Results, Serials
  <2> QED
    BY <2>1
<1>4. CASE SetInitialParams \/ SetIspParams
  <2>1. PICK r \in Results :
              /\ r.ser = serial + 1 /\ r.id = lastId'
              /\ serial' = serial + 1 /\ Queue(r)
              /\ SetIspParams => r.id \in Ids
              /\ OwnCall => pending' = <<r>>
    BY <1>2, <1>4, SetEffect
  <2>2. r.id \in Int /\ r.ser \in Int
    BY DEF Results, Serials
  <2>3. CASE OwnCall
    <3>1. DOMAIN pending' = {1} /\ pending'[1] = r
      BY <2>1, <2>3
    <3> QED
      BY <1>2, <2>1, <2>2, <3>1 DEF Lined
  <2>4. CASE ~OwnCall
    <3>1. r.id > lastId
      BY <1>4, <2>1, <2>4 DEF Ids, SetInitialParams, OwnCall
    <3>2. /\ pending' \in Seq(Results)
          /\ Len(pending') \in Nat \ {0}
          /\ pending'[Len(pending')] = r
          /\ \A i \in DOMAIN pending' :
                i < Len(pending') =>
                   \E j \in DOMAIN pending :
                      /\ pending'[i] = pending[j]
                      /\ j - i = Len(pending) + 1 - Len(pending')
      BY <1>2, <2>1, QueueTyped
    <3>3. DOMAIN pending' = 1..Len(pending') /\ DOMAIN pending = 1..Len(pending)
          /\ Len(pending) \in Nat
      BY <1>2, <3>2
    <3>4. ASSUME NEW i \in DOMAIN pending', i < Len(pending')
          PROVE  /\ pending'[i].ser <= serial
                 /\ pending'[i].id <= lastId
                 /\ pending'[i].ser \in Int /\ pending'[i].id \in Int
      BY <1>2, <1>3, <3>2, <3>4 DEF Lined
    <3>5. ASSUME NEW i \in DOMAIN pending', NEW j \in DOMAIN pending', i < j
          PROVE  /\ pending'[i].ser < pending'[j].ser
                 /\ pending'[i].id < pending'[j].id
      <4>1. CASE j = Len(pending')
        <5>1. pending'[j] = r /\ i < Len(pending')
          BY <3>2, <3>5, <4>1
        <5>2. /\ pending'[i].ser <= serial
              /\ pending'[i].id <= lastId
              /\ pending'[i].ser \in Int /\ pending'[i].id \in Int
          BY <3>4, <5>1
        <5>3. pending'[j].ser = serial + 1 /\ pending'[j].id > lastId
              /\ pending'[j].id \in Int
          BY <2>1, <2>2, <3>1, <5>1
        <5> QED
          BY <1>2, <5>2, <5>3, SMTT(30)
      <4>2. CASE j # Len(pending')
        <5>1. j < Len(pending') /\ i < Len(pending')
          BY <3>3, <3>5, <4>2
        <5>2. PICK k \in DOMAIN pending :
                 /\ pending'[i] = pending[k]
                 /\ k - i = Len(pending) + 1 - Len(pending')
          BY <3>2, <5>1
        <5>3. PICK l \in DOMAIN pending :
                 /\ pending'[j] = pending[l]
                 /\ l - j = Len(pending) + 1 - Len(pending')
          BY <3>2, <5>1
        <5>4. k < l
          BY <3>3, <3>5, <5>2, <5>3, SMTT(30)
        <5> QED
          BY <1>2, <5>2, <5>3, <5>4 DEF Lined
      <4> QED
        BY <4>1, <4>2
    <3>6. ASSUME NEW i \in DOMAIN pending'
          PROVE  pending'[i].ser <= serial' /\ pending'[i].id <= lastId'
      <4>1. CASE i = Len(pending')
        BY <2>1, <2>2, <3>2, <4>1
      <4>2. CASE i # Len(pending')
        <5>1. i < Len(pending')
          BY <3>3, <4>2
        <5>2. /\ pending'[i].ser <= serial
              /\ pending'[i].id <= lastId
              /\ pending'[i].ser \in Int /\ pending'[i].id \in Int
          BY <3>4, <5>1
        <5> QED
          BY <1>2, <2>1, <2>2, <3>1, <5>2, SMTT(30)
      <4> QED
        BY <4>1, <4>2
    <3> QED
      BY <3>5, <3>6 DEF Lined
  <2> QED
    BY <2>3, <2>4
<1>5. CASE SyncFrame \/ SyncOwn
  <2>1. UNCHANGED <<serial, lastId>>
    BY <1>2, <1>5, Beginning
  <2>2. \A i \in DOMAIN pending' : i \in DOMAIN pending /\ pending'[i] = pending[i]
    <3>1. PICK f : pc = "idle" /\ Begin(f)
      BY <1>2, <1>5, Beginning
    <3>2. CASE pending = <<>>
      BY <1>2, <3>1, <3>2, BeginEffect
    <3>3. CASE pending # <<>>
      <4>1. pending' = Front(pending) \/ pending' = pending
        BY <1>2, <3>1, <3>3, BeginEffect
      <4>2. \A i \in DOMAIN Front(pending) :
               i \in DOMAIN pending /\ Front(pending)[i] = pending[i]
        BY <1>2, <3>3, ChosenTyped
      <4> QED
        BY <4>1, <4>2
    <3> QED
      BY <3>2, <3>3
  <2> QED
    BY <1>2, <2>1, <2>2 DEF Lined
<1>6. CASE Ending
  <2>1. UNCHANGED queue
    BY <1>6, EndingEffect
  <2> QED
    BY <1>2, <2>1 DEF Lined, queue
<1>7. CASE Halt
  <2>1. DOMAIN pending' = {}
    BY <1>7 DEF Halt
  <2> QED
    BY <2>1 DEF Lined
<1>8. CASE \/ \E m \in Forceable, on \in BOOLEAN : SetModuleStatus(m, on)
           \/ Start \/ Arrive \/ Process \/ GetEffectiveIspParams
           \/ UNCHANGED vars
  <2>1. UNCHANGED queue
    BY <1>8 DEF SetModuleStatus, Start, Arrive, Process, GetEffectiveIspParams,
                vars
  <2> QED
    BY <1>2, <2>1 DEF Lined, queue
<1> QED
  BY <1>4, <1>5, <1>6, <1>7, <1>8, Steps

LEMMA Numbers ==
    ASSUME IspParamsAssumption, Typed
    PROVE  /\ serial \in Nat /\ lastId \in Nat /\ frame \in Int
           /\ frame >= -1
           /\ last.ser \in Nat /\ last.id \in Nat
           /\ \A i \in DOMAIN pending :
                 /\ pending[i] \in Results
                 /\ pending[i].ser \in Nat /\ pending[i].id \in Nat
<1>1. MaxSerial \in Nat /\ MaxFrame \in Nat
  BY DEF IspParamsAssumption
<1>2. serial \in Nat /\ lastId \in Nat /\ frame \in Int /\ frame >= -1
  BY <1>1 DEF Typed, TypeOK, Frames, None
<1>3. last.ser \in Nat /\ last.id \in Nat
  <2>1. last \in Results \/ last = NoResult
    BY DEF Typed, TypeOK
  <2> QED
    BY <1>1, <2>1 DEF Results, NoResult, Serials
<1>4. ASSUME NEW i \in DOMAIN pending
      PROVE  /\ pending[i] \in Results
             /\ pending[i].ser \in Nat /\ pending[i].id \in Nat
  <2>1. pending[i] \in Results
    BY SMTT(30) DEF Typed, TypeOK
  <2> QED
    BY <1>1, <2>1 DEF Results, Serials
<1> QED
  BY <1>2, <1>3, <1>4

\* What is taken is never older than what was taken before.
LEMMA LastRises ==
    ASSUME IspParamsAssumption, Inv, SyncFrame \/ SyncOwn
    PROVE  last.ser <= last'.ser
<1>1. Typed /\ Calling /\ Lined /\ Overtaken /\ Answering
  BY DEF Inv
<1>2. CASE pending = <<>>
  <2>1. last' = last
    BY <1>1, <1>2, Beginning, BeginEffect
  <2> QED
    BY <1>1, <2>1, Numbers
<1>3. CASE pending # <<>>
  <2>1. PICK f : f = IF SyncFrame THEN frame + 1 ELSE calling
    OBVIOUS
  <2>2. pc = "idle" /\ Begin(f)
    BY <1>1, <2>1, Beginning
  <2>3. PICK n : n = Len(pending)
    OBVIOUS
  <2>4. /\ n \in DOMAIN pending
        /\ last' = IF /\ pending[n].id # f
                      /\ last.id > pending[n].id
                   THEN last ELSE pending[n]
    BY <1>1, <1>3, <2>2, <2>3, BeginEffect
  <2>5. /\ serial \in Nat /\ lastId \in Nat /\ frame \in Int
        /\ last.ser \in Nat /\ last.id \in Nat
        /\ pending[n].ser \in Nat /\ pending[n].id \in Nat
    BY <1>1, <2>4, Numbers
  <2>6. CASE last' = last
    BY <2>5, <2>6
  <2>7. CASE last' # last
    <3>1. last' = pending[n]
          /\ ~(pending[n].id # f /\ last.id > pending[n].id)
      BY <2>4, <2>7
    <3>2. ASSUME last.ser > pending[n].ser PROVE FALSE
      <4>1. last.id > pending[n].id /\ last.id <= lastId
        BY <1>1, <2>4, <3>2 DEF Overtaken
      <4>2. pending[n].id = f
        BY <3>1, <4>1
      <4>3. CASE SyncFrame
        <5>1. lastId <= frame + 1
          BY <1>1, <4>3 DEF Answering, SyncFrame
        <5> QED
          BY <2>1, <2>5, <4>1, <4>2, <4>3, <5>1
      <4>4. CASE SyncOwn
        <5>1. Len(pending) = 1 /\ pending[1].ser = serial
          BY <1>1, <4>4 DEF Calling, SyncOwn
        <5>2. pending[n].ser = serial /\ last.ser <= serial
          BY <1>1, <2>3, <5>1 DEF Overtaken
        <5> QED
          BY <2>5, <3>2, <5>2
      <4> QED
        BY <4>3, <4>4
    <3> QED
      BY <2>5, <3>1, <3>2
  <2> QED
    BY <2>6, <2>7
<1> QED
  BY <1>2, <1>3

LEMMA OvertakenNext ==
    ASSUME IspParamsAssumption, Inv, [Next]_vars
    PROVE  Overtaken'
<1>1. Typed /\ Calling /\ Lined /\ Overtaken /\ pending \in Seq(Results)
  BY DEF Inv, Typed, TypeOK
<1>2. /\ serial \in Nat /\ lastId \in Nat /\ last.ser \in Nat /\ last.id \in Nat
      /\ \A i \in DOMAIN pending :
            pending[i].ser \in Nat /\ pending[i].id \in Nat
  BY <1>1, Numbers
<1>3. CASE SetInitialParams \/ SetIspParams
  <2>1. PICK r \in Results :
              /\ r.ser = serial + 1 /\ r.id = lastId'
              /\ serial' = serial + 1 /\ Queue(r)
              /\ SetIspParams => r.id \in Ids
              /\ OwnCall => pending' = <<r>>
    BY <1>1, <1>3, SetEffect
  <2>2. UNCHANGED <<last, sync>>
    BY <1>3 DEF SetInitialParams, SetIspParams
  <2>3. ASSUME NEW i \in DOMAIN pending', last.ser > pending'[i].ser
        PROVE  last.id > pending'[i].id /\ last.id <= lastId'
    <3>1. last.ser <= serial
      BY <1>1 DEF Overtaken
    <3>2. pending'[i] # r
      BY <1>2, <2>1, <2>3, <3>1
    <3>3. ~OwnCall
      <4>1. CASE OwnCall
        <5>1. pending' = <<r>>
          BY <2>1, <4>1
        <5>2. DOMAIN pending' = {1} /\ pending'[1] = r
          BY <5>1
        <5> QED
          BY <3>2, <5>2
      <4> QED
        BY <4>1
    <3>4. lastId' > lastId
      BY <1>3, <2>1, <3>3 DEF Ids, SetInitialParams, OwnCall
    <3>5. /\ pending' \in Seq(Results)
          /\ pending'[Len(pending')] = r
          /\ \A k \in DOMAIN pending' :
                k < Len(pending') =>
                   \E j \in DOMAIN pending : pending'[k] = pending[j]
      BY <1>1, <2>1, QueueTyped
    <3>6. i < Len(pending')
      <4>1. i \in 1..Len(pending') /\ i # Len(pending')
        BY <3>2, <3>5
      <4> QED
        BY <3>5, <4>1
    <3>7. PICK j \in DOMAIN pending : pending'[i] = pending[j]
      BY <3>5, <3>6
    <3>8. last.id > pending[j].id /\ last.id <= lastId
      BY <1>1, <2>3, <3>7 DEF Overtaken
    <3>9. lastId' \in Int
      BY <2>1 DEF Results
    <3> QED
      BY <1>2, <3>4, <3>7, <3>8, <3>9
  <2>4. last.ser <= serial'
    BY <1>1, <1>2, <2>1 DEF Overtaken
  <2> QED
    BY <1>1, <2>2, <2>3, <2>4 DEF Overtaken, sync
<1>4. CASE SyncFrame \/ SyncOwn
  <2>1. UNCHANGED <<serial, lastId>>
    BY <1>1, <1>4, Beginning
  <2>2. PICK f : pc = "idle" /\ Begin(f)
    BY <1>1, <1>4, Beginning
  <2>3. CASE pending = <<>>
    <3>1. UNCHANGED <<pending, last, sync>>
      BY <1>1, <2>2, <2>3, BeginEffect
    <3> QED
      BY <1>1, <2>1, <3>1 DEF Overtaken, sync
  <2>4. CASE pending # <<>>
    <3>1. PICK n : n = Len(pending)
      OBVIOUS
    <3>2. /\ n \in DOMAIN pending /\ res' = last'
          /\ last' = IF /\ pending[n].id # f
                        /\ last.id > pending[n].id
                     THEN last ELSE pending[n]
          /\ pending' = IF pending[n].id = f
                        THEN Front(pending) ELSE pending
      BY <1>1, <2>2, <2>4, <3>1, BeginEffect
    <3>3. \A i \in DOMAIN Front(pending) :
             i \in DOMAIN pending /\ Front(pending)[i] = pending[i]
      BY <1>1, <2>4, ChosenTyped
    <3>4. \A i \in DOMAIN pending' :
             i \in DOMAIN pending /\ pending'[i] = pending[i]
      BY <3>2, <3>3
    <3>5. CASE last' = last
      BY <1>1, <2>1, <3>2, <3>4, <3>5 DEF Overtaken
    <3>6. CASE last' = pending[n]
      <4>1. last'.ser <= serial /\ last'.id <= lastId
        BY <1>1, <3>2, <3>6 DEF Lined
      <4>2. ASSUME NEW i \in DOMAIN pending', last'.ser > pending'[i].ser
            PROVE  last'.id > pending'[i].id
        <5>1. i \in DOMAIN pending /\ pending'[i] = pending[i]
          BY <3>4
        <5>2. i # n
          BY <1>2, <3>2, <3>6, <4>2, <5>1
        <5>3. i < n
          BY <1>1, <3>1, <5>1, <5>2
        <5>4. pending[i].id < pending[n].id
          BY <1>1, <3>2, <5>1, <5>3 DEF Lined
        <5> QED
          BY <1>2, <3>2, <3>6, <5>1, <5>4
      <4> QED
        BY <2>1, <3>2, <4>1, <4>2 DEF Overtaken
    <3> QED
      BY <3>2, <3>5, <3>6
  <2> QED
    BY <2>3, <2>4
<1>5. CASE Ending
  <2>1. UNCHANGED queue /\ pc' = "idle"
    BY <1>5, EndingEffect
  <2> QED
    BY <1>1, <2>1 DEF Overtaken, queue
<1>6. CASE Halt
  <2>1. DOMAIN pending' = {} /\ UNCHANGED <<last, serial, sync>>
    BY <1>6 DEF Halt
  <2> QED
    BY <1>1, <2>1 DEF Overtaken, sync
<1>7. CASE \/ \E m \in Forceable, on \in BOOLEAN : SetModuleStatus(m, on)
           \/ Start \/ Arrive \/ Process \/ GetEffectiveIspParams
           \/ UNCHANGED vars
  <2>1. UNCHANGED <<queue, sync>>
    BY <1>7 DEF SetModuleStatus, Start, Arrive, Process, GetEffectiveIspParams,
                vars
  <2> QED
    BY <1>1, <2>1 DEF Overtaken, queue, sync
<1> QED
  BY <1>3, <1>4, <1>5, <1>6, <1>7, Steps

LEMMA AnsweringNext ==
    ASSUME IspParamsAssumption, Inv, [Next]_vars
    PROVE  Answering'
<1>1. Typed /\ Answering /\ AtRest /\ Handed /\ Calling
  BY DEF Inv
<1>2. frame \in Int /\ lastId \in Nat
  BY <1>1, Numbers
<1>3. CASE SetInitialParams
  BY <1>3 DEF Answering, SetInitialParams
<1>4. CASE SetIspParams
  <2>1. PICK i \in Ids : lastId' = i
    BY <1>4 DEF SetIspParams
  <2>2. PICK g \in Frames : inForce[g] # None /\ i = g + 1
    BY DEF Ids, Answered
  <2>3. g <= frame /\ g \in Int
    BY <1>1, <2>2 DEF Handed, Frames
  <2>4. frame' = frame
    BY <1>4 DEF SetIspParams, isp
  <2> QED
    BY <1>2, <2>1, <2>2, <2>3, <2>4 DEF Answering
<1>5. CASE SyncFrame
  <2>1. frame' = frame + 1 /\ UNCHANGED <<lastId, state, noReadBack>>
    BY <1>1, <1>5, Beginning DEF SyncFrame, engine
  <2> QED
    BY <1>1, <1>2, <2>1 DEF Answering
<1>6. CASE SyncOwn
  <2>1. frame' = frame /\ UNCHANGED <<lastId, state, noReadBack>>
    BY <1>1, <1>6, Beginning DEF SyncOwn, engine
  <2> QED
    BY <1>1, <2>1 DEF Answering
<1>7. CASE Ending
  <2>1. UNCHANGED <<frame, noReadBack, queue>> /\ state' \in {state, "down"}
    BY <1>7, EndingEffect
  <2> QED
    BY <1>1, <2>1 DEF Answering, queue
<1>8. CASE Start
  <2>1. frame = None /\ lastId = 0
    BY <1>1, <1>8 DEF Start, AtRest
  <2> QED
    BY <1>8, <2>1 DEF Answering, Start, queue, isp, None
<1>9. CASE Halt
  BY <1>9 DEF Answering, Halt
<1>10. CASE Arrive
  <2>1. noReadBack /\ noReadBack' = noReadBack
    BY <1>10 DEF Arrive, engine
  <2> QED
    BY <2>1 DEF Answering
<1>11. CASE \/ \E m \in Forceable, on \in BOOLEAN : SetModuleStatus(m, on)
            \/ Process \/ GetEffectiveIspParams \/ UNCHANGED vars
  <2>1. UNCHANGED <<engine, queue, frame>>
    BY <1>11 DEF SetModuleStatus, Process, GetEffectiveIspParams, vars, isp
  <2> QED
    BY <1>1, <2>1 DEF Answering, engine, queue
<1> QED
  BY <1>3, <1>4, <1>5, <1>6, <1>7, <1>8, <1>9, <1>10, <1>11, Steps

\* The update that is merged configures every module that it has on.
LEMMA MergedConfigures ==
    ASSUME IspParamsAssumption, Typed, Complete, pc = "send",
           NEW m \in Merged.enUp, m \in Merged.ens
    PROVE  m \in Merged.cfgUp
<1>1. upd.ens \subseteq upd.enUp \cap upd.cfgUp
  BY DEF Complete
<1>2. m \in ens \ upd.enUp \/ m \in upd.ens
  BY MergedTyped
<1>3. CASE WholeSet
  <2>1. Merged.cfgUp = ens \cup upd.cfgUp
    BY <1>3, MergedTyped
  <2> QED
    BY <1>1, <1>2, <2>1
<1>4. CASE ~WholeSet
  <2>1. Merged.cfgUp = upd.cfgUp /\ Merged.enUp = upd.enUp
    BY <1>4, MergedTyped
  <2> QED
    BY <1>1, <1>2, <2>1
<1> QED
  BY <1>3, <1>4

\* The part of Synced that is about one module.
SyncedAt(m) ==
    /\ EnAfter(drv, queued, m) <=> m \in ens
    /\ m \in ens => CfgAfter(drv, queued, m) = cfg[m]
Followed == devOn /\ (state = "started" \/ (calling = None /\ pc = "idle"))

LEMMA SyncedParts == Synced <=> (Followed => \A m \in Modules \ missed : SyncedAt(m))
BY DEF Synced, Followed, SyncedAt

\* A buffer that is sent leaves the driver as the full set; one that is not
\* leaves the modules it does not name as they were.
LEMMA SyncedEnding ==
    ASSUME IspParamsAssumption, Inv, Ending
    PROVE  Synced'
<1>1. Typed /\ Complete /\ Synced
  BY DEF Inv
<1>2. /\ pc = "send" /\ pc' = "idle" /\ ens' = Merged.ens /\ cfg' = Merged.cfg
      /\ UNCHANGED <<devOn, drv>>
      /\ state' \in {state, "down"}
  BY EndingEffect
<1>3. SUFFICES ASSUME Followed', NEW m \in Modules, m \notin missed'
               PROVE  SyncedAt(m)'
  BY DEF SyncedAt, Synced, Followed
<1>4. devOn
  BY <1>2, <1>3 DEF Followed
<1>5. ASSUME m \notin Merged.enUp
      PROVE  /\ state = "started"
             /\ m \notin upd.enUp /\ (m \in ens' <=> m \in ens)
             /\ Merged.cfgUp = upd.cfgUp
             /\ m \notin missed => SyncedAt(m)
  <2>1. ~WholeSet
    BY <1>5, MergedTyped, <1>1
  <2>2. Merged.enUp = upd.enUp /\ Merged.cfgUp = upd.cfgUp
        /\ Merged.ens = (ens \ upd.enUp) \cup (upd.ens \cap upd.enUp)
    BY <1>1, <2>1, MergedTyped
  <2>3. Followed
    BY <1>4, <2>1 DEF Followed, WholeSet
  <2>4. m \notin missed => SyncedAt(m)
    BY <1>1, <2>3, SyncedParts
  <2> QED
    BY <1>2, <1>5, <2>1, <2>2, <2>4 DEF WholeSet
<1>6. cfg'[m] = IF m \in upd.cfgUp THEN upd.cfg[m] ELSE cfg[m]
  BY <1>1, <1>2, MergedTyped
<1>7. CASE SyncSent
  <2>1. missed' = missed \ (Merged.enUp \cap
                     (Merged.cfgUp \cup (Modules \ Merged.ens)))
    BY <1>7 DEF SyncSent
  <2>2. PICK b : b = [frame |-> job, src |-> res.ser, set |-> Merged]
    OBVIOUS
  <2>3. queued' = Append(queued, b) /\ b.set = Merged
    BY <1>7, <2>2 DEF SyncSent
  <2>4. b \in Buffers /\ queued \in Seq(Buffers)
    <3>1. job \in 0..(MaxFrame + 1) /\ res.ser \in Serials
      BY <1>1, <1>2 DEF Typed, TypeOK, Results
    <3>2. Merged \in Params
      BY <1>1, MergedTyped
    <3> QED
      BY <1>1, <2>2, <3>1, <3>2 DEF Buffers, Typed
  <2>5. /\ m \in Merged.enUp =>
              (EnAfter(drv, queued', m) <=> m \in Merged.ens)
        /\ m \notin Merged.enUp =>
              (EnAfter(drv, queued', m) <=> EnAfter(drv, queued, m))
    BY <2>3, <2>4, EnAppend
  <2>6. /\ m \in Merged.cfgUp =>
              CfgAfter(drv, queued', m) = Merged.cfg[m]
        /\ m \notin Merged.cfgUp =>
              CfgAfter(drv, queued', m) = CfgAfter(drv, queued, m)
    BY <2>3, <2>4, CfgAppend
  <2>7. CASE m \in Merged.enUp
    <3>1. m \in Merged.ens => m \in Merged.cfgUp
      BY <1>1, <1>2, <2>7, MergedConfigures
    <3> QED
      BY <1>2, <2>5, <2>6, <2>7, <3>1 DEF SyncedAt
  <2>8. CASE m \notin Merged.enUp
    <3>1. m \notin missed
      BY <1>3, <2>1, <2>8
    <3>2. SyncedAt(m) /\ (m \in ens' <=> m \in ens)
          /\ Merged.cfgUp = upd.cfgUp
      BY <1>5, <2>8, <3>1
    <3>3. EnAfter(drv, queued', m) <=> m \in ens'
      BY <2>5, <2>8, <3>2 DEF SyncedAt
    <3>4. m \in ens' => CfgAfter(drv, queued', m) = cfg'[m]
      BY <1>2, <1>6, <2>6, <3>2 DEF SyncedAt
    <3> QED
      BY <1>2, <3>3, <3>4 DEF SyncedAt
  <2> QED
    BY <2>7, <2>8
<1>8. CASE ~SyncSent
  <2>1. /\ missed' = missed \cup Merged.enUp \cup Merged.cfgUp
        /\ queued' = queued
    BY <1>8 DEF Ending, SyncNoBuffer, SyncNotQueued, SyncNoPool
  <2>2. m \notin missed /\ m \notin Merged.enUp /\ m \notin Merged.cfgUp
    BY <1>3, <2>1
  <2>3. SyncedAt(m) /\ (m \in ens' <=> m \in ens) /\ cfg'[m] = cfg[m]
    BY <1>5, <1>6, <2>2
  <2> QED
    BY <1>2, <2>1, <2>3 DEF SyncedAt
<1> QED
  BY <1>7, <1>8

LEMMA SyncedNext ==
    ASSUME IspParamsAssumption, Inv, [Next]_vars
    PROVE  Synced'
<1>1. Typed /\ Calling /\ Synced
  BY DEF Inv
<1>2. CASE SetInitialParams
  BY <1>2 DEF SetInitialParams, Synced, None
<1>3. CASE SetIspParams
  <2>1. state = "started" /\ UNCHANGED <<engine, full, isp>>
    BY <1>3 DEF SetIspParams
  <2> QED
    BY <1>1, <2>1 DEF Synced, engine, full, isp
<1>4. CASE SyncFrame
  <2>1. state = "started" /\ UNCHANGED <<engine, full, drv, queued>>
    BY <1>1, <1>4, Beginning DEF SyncFrame
  <2> QED
    BY <1>1, <2>1 DEF Synced, engine, full
<1>5. CASE SyncOwn
  <2>1. UNCHANGED <<engine, full, drv, queued>>
    BY <1>1, <1>5, Beginning
  <2>2. pc' = "send"
    <3>1. Begin(calling) /\ pc = "idle" /\ Len(pending) = 1
      BY <1>1, <1>5 DEF SyncOwn, Calling
    <3>2. pending # <<>>
      <4>1. Len(pending) = 1 /\ Len(<<>>) # 1
        BY <3>1
      <4> QED
        BY <4>1, Zenon
    <3> QED
      BY <1>1, <3>1, <3>2, BeginEffect
  <2> QED
    BY <1>1, <2>1, <2>2 DEF Synced, engine, full
<1>6. CASE Ending
  BY <1>6, SyncedEnding
<1>7. CASE Start
  BY <1>1, <1>7 DEF Synced, Start, full, isp
<1>8. CASE Halt
  BY <1>8 DEF Synced, Halt
<1>9. CASE Process
  <2>1. handed \in Seq(Frames) /\ handed # <<>>
    BY <1>1, <1>9 DEF Typed, TypeOK, Process
  <2>2. PICK f \in Frames : f = Head(handed)
    BY <2>1
  <2>3. queued \in Seq(Buffers) /\ f \in Int
    BY <1>1 DEF Typed, Frames
  <2>4. PICK k \in 0..Len(queued) : k = Due(queued, f)
    BY <2>3, DueFacts
  <2>5. /\ drv' = Applied(drv, SubSeq(queued, 1, k))
        /\ queued' = SubSeq(queued, k + 1, Len(queued))
        /\ UNCHANGED <<engine, queue, full, sync>>
        /\ state = "started"
    BY <1>9, <2>2, <2>4 DEF Process
  <2>6. ASSUME NEW m \in Modules
        PROVE  /\ EnAfter(drv', queued', m) <=> EnAfter(drv, queued, m)
               /\ CfgAfter(drv', queued', m) = CfgAfter(drv, queued, m)
    BY <2>3, <2>5, EnSplit, CfgSplit
  <2>7. ASSUME Followed', NEW m \in Modules, m \notin missed'
        PROVE  SyncedAt(m)'
    <3>1. Followed /\ m \notin missed
      BY <2>5, <2>7 DEF Followed, engine, full
    <3>2. SyncedAt(m)
      BY <1>1, <3>1, SyncedParts
    <3>3. UNCHANGED <<ens, cfg>>
      BY <2>5 DEF full
    <3> QED
      BY <2>6, <3>2, <3>3 DEF SyncedAt
  <2> QED
    BY <2>7 DEF Synced, SyncedAt, Followed
<1>10. CASE \/ \E m \in Forceable, on \in BOOLEAN : SetModuleStatus(m, on)
            \/ Arrive \/ GetEffectiveIspParams \/ UNCHANGED vars
  <2>1. UNCHANGED <<engine, queue, full, sync, queued, drv>>
    BY <1>10 DEF SetModuleStatus, Arrive, GetEffectiveIspParams, vars, isp
  <2> QED
    BY <1>1, <2>1 DEF Synced, engine, queue, full, sync
<1> QED
  BY <1>2, <1>3, <1>4, <1>5, <1>6, <1>7, <1>8, <1>9, <1>10, Steps

LEMMA Configurations ==
    ASSUME IspParamsAssumption, Typed, NEW m \in Modules
    PROVE  /\ cfg[m] \in Nat /\ drv.cfg[m] \in Nat /\ upd.cfg[m] \in Nat
           /\ \A i \in DOMAIN queued :
                 queued[i] \in Buffers /\ queued[i].set.cfg[m] \in Nat
                 /\ queued[i].set.cfgUp \subseteq Modules
<1>1. cfg \in [Modules -> 0..MaxSerial] /\ drv \in Drivers /\ upd \in Params
      /\ MaxSerial \in Nat
  BY DEF Typed, TypeOK, Drivers, IspParamsAssumption
<1>2. ASSUME NEW i \in DOMAIN queued
      PROVE  queued[i] \in Buffers /\ queued[i].set.cfg[m] \in Nat
             /\ queued[i].set.cfgUp \subseteq Modules
  <2>1. queued[i] \in Buffers
    BY DEF Typed
  <2>2. queued[i].set \in Params
    BY <2>1 DEF Buffers
  <2> QED
    BY <1>1, <2>1, <2>2 DEF Params
<1> QED
  BY <1>1, <1>2 DEF Drivers, Params

\* The driver takes the first of its buffers.
LEMMA ProcessShifts ==
    ASSUME IspParamsAssumption, Typed, Process
    PROVE  \E f \in Frames, k \in 0..Len(queued) :
              /\ f = Head(handed) /\ f \in Int
              /\ k = Due(queued, f)
              /\ drv' = Applied(drv, SubSeq(queued, 1, k))
              /\ queued' = SubSeq(queued, k + 1, Len(queued))
              /\ \A i \in DOMAIN queued' :
                    k + i \in DOMAIN queued /\ queued'[i] = queued[k + i]
                    /\ k + i > k /\ k \in Int /\ i \in Int
<1>1. handed \in Seq(Frames) /\ handed # <<>> /\ queued \in Seq(Buffers)
  BY DEF Typed, TypeOK, Process
<1>2. PICK f \in Frames : f = Head(handed)
  BY <1>1
<1>3. f \in Int
  BY DEF Frames
<1>4. PICK k \in 0..Len(queued) : k = Due(queued, f)
  BY <1>1, <1>3, DueFacts
<1>5. /\ drv' = Applied(drv, SubSeq(queued, 1, k))
      /\ queued' = SubSeq(queued, k + 1, Len(queued))
  BY <1>2, <1>4 DEF Process
<1>6. /\ DOMAIN queued = 1..Len(queued) /\ Len(queued) \in Nat
      /\ DOMAIN queued' = 1..(Len(queued) - k)
      /\ \A i \in 1..(Len(queued) - k) : queued'[i] = queued[k + i]
  BY <1>1, <1>5, Parts, SMTT(30)
<1>7. ASSUME NEW i \in DOMAIN queued'
      PROVE  k + i \in DOMAIN queued /\ queued'[i] = queued[k + i]
             /\ k + i > k /\ k \in Int /\ i \in Int
  <2>1. i \in 1..(Len(queued) - k)
    BY <1>6
  <2>2. k + i \in 1..Len(queued) /\ k + i > k /\ k \in Int /\ i \in Int
    BY <1>6, <2>1
  <2> QED
    BY <1>6, <2>1, <2>2
<1> QED
  BY <1>2, <1>3, <1>4, <1>5, <1>7

\* The driver's configurations rise as it applies buffers.
LEMMA ProcessRises ==
    ASSUME IspParamsAssumption, Typed, Rising, Process, NEW m \in Modules
    PROVE  /\ drv.cfg[m] <= drv'.cfg[m] /\ drv'.cfg[m] <= cfg[m]
           /\ drv'.cfg[m] \in Nat
           /\ \A i \in DOMAIN queued' : m \in queued'[i].set.cfgUp =>
                 drv'.cfg[m] <= queued'[i].set.cfg[m]
<1>1. PICK f \in Frames, k \in 0..Len(queued) :
         /\ k = Due(queued, f)
         /\ drv' = Applied(drv, SubSeq(queued, 1, k))
         /\ \A i \in DOMAIN queued' :
               k + i \in DOMAIN queued /\ queued'[i] = queued[k + i]
               /\ k + i > k /\ k \in Int /\ i \in Int
  BY ProcessShifts
<1>2. queued \in Seq(Buffers)
  BY DEF Typed
<1>3. PICK h : h = SubSeq(queued, 1, k)
  OBVIOUS
<1>4. /\ DOMAIN queued = 1..Len(queued) /\ Len(queued) \in Nat
      /\ h \in Seq(Buffers) /\ DOMAIN h = 1..k
      /\ \A i \in 1..k : h[i] = queued[i]
  BY <1>2, <1>3, Parts
<1>5. /\ cfg[m] \in Nat /\ drv.cfg[m] \in Nat
      /\ \A i \in DOMAIN queued : queued[i].set.cfg[m] \in Nat
      /\ drv.cfg[m] <= cfg[m]
      /\ \A i \in DOMAIN queued : m \in queued[i].set.cfgUp =>
            /\ drv.cfg[m] <= queued[i].set.cfg[m]
            /\ queued[i].set.cfg[m] <= cfg[m]
      /\ \A i, j \in DOMAIN queued :
            i < j /\ m \in queued[i].set.cfgUp /\ m \in queued[j].set.cfgUp =>
               queued[i].set.cfg[m] <= queued[j].set.cfg[m]
  BY Configurations DEF Rising
<1>6. drv'.cfg[m] = CfgAfter(drv, h, m)
  BY <1>1, <1>3 DEF Applied
<1>7. \A i \in DOMAIN queued' :
          k + i \in DOMAIN queued /\ queued'[i] = queued[k + i]
          /\ k + i > k /\ i \in Int
  BY <1>1
<1>8. CASE Configuring(h, m) = {}
  <2>1. drv'.cfg[m] = drv.cfg[m]
    BY <1>6, <1>8 DEF CfgAfter
  <2> QED
    BY <1>5, <1>7, <2>1, SMTT(30)
<1>9. CASE Configuring(h, m) # {}
  <2>1. PICK j \in DOMAIN h : LastToConfigure(h, m, j)
    BY <1>4, <1>9, ConfiguringLast
  <2>2. CfgAfter(drv, h, m) = h[j].set.cfg[m]
    BY <1>4, <2>1, ConfiguredBy
  <2>3. j \in DOMAIN queued /\ h[j] = queued[j] /\ j \in 1..k
        /\ m \in queued[j].set.cfgUp
    BY <1>4, <2>1 DEF LastToConfigure
  <2>4. drv'.cfg[m] = queued[j].set.cfg[m]
    BY <1>6, <2>2, <2>3
  <2>5. ASSUME NEW i \in DOMAIN queued', m \in queued'[i].set.cfgUp
        PROVE  drv'.cfg[m] <= queued'[i].set.cfg[m]
    <3>1. k + i \in DOMAIN queued /\ queued'[i] = queued[k + i] /\ j < k + i
      BY <1>4, <1>7, <2>3
    <3> QED
      BY <1>5, <2>3, <2>4, <2>5, <3>1
  <2> QED
    BY <1>5, <1>7, <2>3, <2>4, <2>5
<1> QED
  BY <1>8, <1>9

LEMMA RisingEnding ==
    ASSUME IspParamsAssumption, Inv, Ending
    PROVE  Rising'
<1>1. Typed /\ Rising /\ Overtaken /\ queued \in Seq(Buffers)
  BY DEF Inv, Typed
<1>2. /\ pc = "send" /\ pc' = "idle" /\ cfg' = Merged.cfg
      /\ UNCHANGED <<drv, last>>
  BY EndingEffect DEF queue
<1>3. res = last /\ last.ser \in Nat
  BY <1>1, <1>2, Numbers DEF Overtaken
<1>4. \A m \in Modules : cfg'[m] = IF m \in upd.cfgUp THEN upd.cfg[m] ELSE cfg[m]
  BY <1>1, <1>2, MergedTyped
<1>5. ASSUME NEW m \in Modules
      PROVE  /\ cfg[m] <= cfg'[m] /\ cfg'[m] <= last.ser
             /\ drv.cfg[m] <= cfg'[m] /\ cfg'[m] \in Nat
  <2>1. cfg[m] \in Nat /\ drv.cfg[m] \in Nat
        /\ drv.cfg[m] <= cfg[m] /\ cfg[m] <= last.ser
    BY <1>1, Configurations DEF Rising
  <2>2. m \in upd.cfgUp => upd.cfg[m] = last.ser
    BY <1>1, <1>2, <1>3 DEF Rising
  <2> QED
    BY <1>3, <1>4, <2>1, <2>2
<1>6. ASSUME NEW i \in DOMAIN queued, NEW m \in queued[i].set.cfgUp
      PROVE  /\ drv.cfg[m] <= queued[i].set.cfg[m]
             /\ queued[i].set.cfg[m] <= cfg'[m]
             /\ m \in Modules
  <2>1. m \in Modules
    <3>1. queued[i] \in Buffers
      BY <1>1
    <3>2. queued[i].set \in Params
      BY <3>1 DEF Buffers
    <3> QED
      BY <3>2 DEF Params
  <2>2. queued[i].set.cfg[m] \in Nat /\ cfg[m] \in Nat
    BY <1>1, <2>1, Configurations
  <2>3. drv.cfg[m] <= queued[i].set.cfg[m] /\ queued[i].set.cfg[m] <= cfg[m]
    BY <1>1 DEF Rising
  <2> QED
    BY <1>5, <2>1, <2>2, <2>3
<1>7. CASE queued' = queued
  BY <1>1, <1>2, <1>5, <1>6, <1>7 DEF Rising
<1>8. CASE SyncSent
  <2>1. PICK b : b = [frame |-> job, src |-> res.ser, set |-> Merged]
    OBVIOUS
  <2>2. queued' = Append(queued, b) /\ b.set = Merged
    BY <1>8, <2>1 DEF SyncSent
  <2>3. b \in Buffers /\ Merged.cfgUp \subseteq Modules
    <3>1. job \in 0..(MaxFrame + 1) /\ res.ser \in Serials
      BY <1>1, <1>2 DEF Typed, TypeOK, Results
    <3>2. Merged \in Params
      BY <1>1, MergedTyped
    <3> QED
      BY <1>1, <2>1, <3>1, <3>2 DEF Buffers, Typed, Params
  <2>4. PICK n \in Nat : n = Len(queued)
    BY <1>1
  <2>5. /\ DOMAIN queued' = 1..(n + 1) /\ DOMAIN queued = 1..n
        /\ \A i \in 1..n : queued'[i] = queued[i]
        /\ queued'[n + 1] = b
    BY <1>1, <2>2, <2>3, <2>4
  <2>6. ASSUME NEW i \in DOMAIN queued', NEW m \in queued'[i].set.cfgUp
        PROVE  /\ drv.cfg[m] <= queued'[i].set.cfg[m]
               /\ queued'[i].set.cfg[m] <= cfg'[m]
               /\ m \in Modules
               /\ i = n + 1 => queued'[i].set.cfg[m] = cfg'[m]
    <3>1. CASE i = n + 1
      <4>1. queued'[i].set = Merged /\ m \in Modules
        BY <2>2, <2>3, <2>5, <2>6, <3>1
      <4> QED
        BY <1>2, <1>5, <4>1
    <3>2. CASE i # n + 1
      <4>1. i \in DOMAIN queued /\ queued'[i] = queued[i]
        BY <2>5, <3>2
      <4> QED
        BY <1>6, <2>6, <3>2, <4>1
    <3> QED
      BY <3>1, <3>2
  <2>7. ASSUME NEW i \in DOMAIN queued', NEW j \in DOMAIN queued',
               NEW m \in queued'[i].set.cfgUp \cap queued'[j].set.cfgUp, i < j
        PROVE  queued'[i].set.cfg[m] <= queued'[j].set.cfg[m]
    <3>1. CASE j = n + 1
      BY <2>6, <3>1
    <3>2. CASE j # n + 1
      <4>1. i \in DOMAIN queued /\ queued'[i] = queued[i]
            /\ j \in DOMAIN queued /\ queued'[j] = queued[j]
        BY <2>5, <2>7, <3>2
      <4> QED
        BY <1>1, <2>7, <4>1 DEF Rising
    <3> QED
      BY <3>1, <3>2
  <2> QED
    BY <1>2, <1>5, <2>6, <2>7 DEF Rising
<1> QED
  BY <1>7, <1>8 DEF Ending, SyncNoBuffer, SyncNotQueued, SyncNoPool

LEMMA RisingNext ==
    ASSUME IspParamsAssumption, Inv, [Next]_vars
    PROVE  Rising'
<1>1. Typed /\ Rising
  BY DEF Inv
<1>2. CASE SyncFrame \/ SyncOwn
  <2>1. UNCHANGED <<full, drv, queued>> /\ last.ser <= last'.ser
    BY <1>1, <1>2, Beginning, LastRises
  <2>2. last.ser \in Nat /\ last'.ser \in Nat
    <3>1. last' \in Results \/ last' = last
      BY <1>1, <1>2, Beginning
    <3>2. last.ser \in Nat
      BY <1>1, Numbers
    <3> QED
      BY <3>1, <3>2 DEF Results, Serials
  <2>3. ASSUME NEW m \in Modules
        PROVE  drv.cfg[m] <= cfg[m] /\ cfg[m] <= last'.ser
    <3>1. drv.cfg[m] <= cfg[m] /\ cfg[m] <= last.ser /\ cfg[m] \in Nat
      BY <1>1, Configurations DEF Rising
    <3> QED
      BY <2>1, <2>2, <3>1
  <2>4. pc' = "send" => \A m \in upd'.cfgUp : upd'.cfg[m] = res'.ser
    <3>1. CASE UNCHANGED <<pending, last, flags, sync>>
      BY <1>1, <3>1 DEF Rising, sync
    <3>2. CASE /\ pc' = "send" /\ last' \in Results /\ res' = last'
               /\ upd' = Forced(Converted(last'), last')
               /\ flags' = flags \ Unforced(last')
      <4>1. PICK r \in Results : r = last'
        BY <3>2
      <4>2. PICK u : u = upd'
        OBVIOUS
      <4>3. u = Forced(Converted(r), r)
        BY <3>2, <4>1, <4>2
      <4>4. \A m \in u.cfgUp : u.cfg[m] = r.ser
        BY <1>1, <4>3, UpdTyped
      <4> QED
        BY <3>2, <4>1, <4>2, <4>4
    <3> QED
      BY <1>1, <1>2, <3>1, <3>2, Beginning
  <2> QED
    BY <1>1, <2>1, <2>3, <2>4 DEF Rising, full
<1>3. CASE Ending
  BY <1>3, RisingEnding
<1>4. CASE Process
  <2>1. UNCHANGED <<cfg, last, pc, upd, res>>
    BY <1>4 DEF Process, full, queue, sync
  <2>2. \A m \in Modules : drv'.cfg[m] <= cfg[m]
    BY <1>1, <1>4, ProcessRises
  <2>3. PICK k \in 0..Len(queued) : \A i \in DOMAIN queued' :
           k + i \in DOMAIN queued /\ queued'[i] = queued[k + i]
           /\ k \in Int /\ i \in Int
    BY <1>1, <1>4, ProcessShifts
  <2>4. ASSUME NEW i \in DOMAIN queued', NEW m \in queued'[i].set.cfgUp
        PROVE  /\ drv'.cfg[m] <= queued'[i].set.cfg[m]
               /\ queued'[i].set.cfg[m] <= cfg[m]
    <3>1. k + i \in DOMAIN queued /\ queued'[i] = queued[k + i]
      BY <2>3
    <3>2. m \in Modules
      <4>1. queued[k + i] \in Buffers
        BY <1>1, <3>1 DEF Typed
      <4>2. queued[k + i].set \in Params
        BY <4>1 DEF Buffers
      <4> QED
        BY <3>1, <4>2 DEF Params
    <3> QED
      BY <1>1, <1>4, <3>1, <3>2, ProcessRises DEF Rising
  <2>5. ASSUME NEW i \in DOMAIN queued', NEW j \in DOMAIN queued',
               NEW m \in queued'[i].set.cfgUp \cap queued'[j].set.cfgUp, i < j
        PROVE  queued'[i].set.cfg[m] <= queued'[j].set.cfg[m]
    <3>1. /\ k + i \in DOMAIN queued /\ queued'[i] = queued[k + i]
          /\ k + j \in DOMAIN queued /\ queued'[j] = queued[k + j]
          /\ k + i < k + j
      BY <2>3, <2>5
    <3> QED
      BY <1>1, <3>1 DEF Rising
  <2> QED
    BY <1>1, <2>1, <2>2, <2>4, <2>5 DEF Rising
<1>5. CASE Halt
  <2>1. DOMAIN queued' = {} /\ drv' = DriverOff
        /\ UNCHANGED <<pc, upd, res, cfg, last>>
    BY <1>5 DEF Halt, sync
  <2>2. ASSUME NEW m \in Modules PROVE drv'.cfg[m] <= cfg[m]
    BY <1>1, <2>1, Configurations DEF DriverOff
  <2> QED
    BY <1>1, <2>1, <2>2 DEF Rising
<1>6. CASE \/ SetInitialParams \/ SetIspParams
           \/ \E m \in Forceable, on \in BOOLEAN : SetModuleStatus(m, on)
           \/ Start \/ Arrive \/ GetEffectiveIspParams \/ UNCHANGED vars
  <2>1. UNCHANGED <<last, full, sync, queued, drv>>
    BY <1>6 DEF SetInitialParams, SetIspParams, SetModuleStatus, Start, Arrive,
                GetEffectiveIspParams, vars, isp, queue
  <2> QED
    BY <1>1, <2>1 DEF Rising, full, sync
<1> QED
  BY <1>2, <1>3, <1>4, <1>5, <1>6, Steps

LEMMA HandedTyped ==
    ASSUME IspParamsAssumption, Typed
    PROVE  /\ handed \in Seq(Frames) /\ frame \in Int /\ Frames \subseteq Nat
           /\ \A i \in DOMAIN handed : handed[i] \in Frames /\ handed[i] \in Int
           /\ inForce \in [Frames -> 0..MaxSerial \cup {None}]
<1>1. Frames \subseteq Nat /\ Frames \subseteq Int
  BY DEF Frames
<1>2. handed \in Seq(Frames) /\ frame \in Int
      /\ inForce \in [Frames -> 0..MaxSerial \cup {None}]
  BY <1>1 DEF Typed, TypeOK, None
<1>3. \A i \in DOMAIN handed : handed[i] \in Frames
  BY <1>2
<1> QED
  BY <1>1, <1>2, <1>3

\* One more frame, later than all before.
LEMMA HandedAppend ==
    ASSUME IspParamsAssumption, Typed, Handed, NEW x \in Frames,
           handed' = Append(handed, x), inForce' = inForce,
           frame' \in Int, frame <= frame', x <= frame',
           \A i \in DOMAIN handed : handed[i] < x,
           \A f \in Frames : inForce[f] # None => f < x
    PROVE  Handed'
<1>1. /\ handed \in Seq(Frames) /\ frame \in Int /\ Frames \subseteq Nat
      /\ \A i \in DOMAIN handed : handed[i] \in Frames /\ handed[i] \in Int
  BY HandedTyped
<1>2. PICK n \in Nat : n = Len(handed)
  BY <1>1
<1>3. /\ DOMAIN handed' = 1..(n + 1) /\ DOMAIN handed = 1..n
      /\ \A i \in 1..n : handed'[i] = handed[i]
      /\ handed'[n + 1] = x
  BY <1>1, <1>2
<1>4. x \in Int /\ \A f \in Frames : f \in Int
  BY <1>1
<1>5. \A f \in Frames : inForce'[f] # None => f <= frame'
  BY <1>1, <1>4 DEF Handed
<1>6. ASSUME NEW i \in DOMAIN handed'
      PROVE  /\ handed'[i] <= frame'
             /\ \A f \in Frames : inForce'[f] # None => f < handed'[i]
  <2>1. CASE i = n + 1
    BY <1>3, <2>1
  <2>2. CASE i # n + 1
    <3>1. i \in DOMAIN handed /\ handed'[i] = handed[i] /\ handed[i] \in Int
      BY <1>1, <1>3, <2>2
    <3> QED
      BY <1>1, <3>1 DEF Handed
  <2> QED
    BY <2>1, <2>2
<1>7. ASSUME NEW i \in DOMAIN handed', NEW j \in DOMAIN handed', i < j
      PROVE  handed'[i] < handed'[j]
  <2>1. i \in DOMAIN handed /\ handed'[i] = handed[i]
    BY <1>3, <1>7
  <2>2. CASE j = n + 1
    BY <1>3, <2>1, <2>2
  <2>3. CASE j # n + 1
    <3>1. j \in DOMAIN handed /\ handed'[j] = handed[j]
      BY <1>3, <2>3
    <3> QED
      BY <1>7, <2>1, <3>1 DEF Handed
  <2> QED
    BY <2>2, <2>3
<1> QED
  BY <1>5, <1>6, <1>7 DEF Handed

LEMMA HandedNext ==
    ASSUME IspParamsAssumption, Inv, [Next]_vars
    PROVE  Handed'
<1>1. Typed /\ Handed /\ Timed
  BY DEF Inv
<1>2. /\ handed \in Seq(Frames) /\ frame \in Int /\ Frames \subseteq Nat
      /\ \A i \in DOMAIN handed : handed[i] \in Frames /\ handed[i] \in Int
      /\ inForce \in [Frames -> 0..MaxSerial \cup {None}]
  BY <1>1, HandedTyped
<1>3. \A f \in Frames : f \in Int
  BY <1>2
<1>4. CASE SyncFrame \/ Arrive
  <2>1. frame' = frame + 1 /\ inForce' = inForce /\ frame < MaxFrame
        /\ handed' \in {handed, Append(handed, frame + 1)}
    <3>1. CASE SyncFrame
      <4>1. inForce' = inForce
        BY <1>1, <3>1, Beginning
      <4> QED
        BY <3>1, <4>1 DEF SyncFrame
    <3>2. CASE Arrive
      BY <3>2 DEF Arrive
    <3> QED
      BY <1>4, <3>1, <3>2
  <2>2. frame + 1 \in Frames
    BY <1>1, <2>1, SMTT(30) DEF Typed, TypeOK, Frames, None, IspParamsAssumption
  <2>3. /\ \A i \in DOMAIN handed : handed[i] < frame + 1
        /\ \A f \in Frames : inForce[f] # None => f < frame + 1
    BY <1>1, <1>2, <1>3 DEF Handed
  <2>4. CASE handed' = handed
    BY <1>1, <1>2, <1>3, <2>1, <2>4 DEF Handed
  <2>5. CASE handed' = Append(handed, frame + 1)
    <3>1. frame' \in Int /\ frame <= frame' /\ frame + 1 <= frame'
      BY <1>2, <2>1
    <3> QED
      BY <1>1, <2>1, <2>2, <2>3, <2>5, <3>1, HandedAppend
  <2> QED
    BY <2>1, <2>4, <2>5
<1>5. CASE Ending
  <2>1. /\ pc = "send" /\ UNCHANGED <<frame, inForce>>
        /\ \/ handed' = handed
           \/ /\ state = "started" /\ ~noReadBack
              /\ handed' = Append(handed, job)
    BY <1>5, EndingEffect
  <2>2. CASE handed' = handed
    BY <1>1, <2>1, <2>2 DEF Handed
  <2>3. CASE /\ state = "started" /\ ~noReadBack
             /\ handed' = Append(handed, job)
    <3>1. /\ job = Now /\ frame # None
          /\ \A i \in DOMAIN handed : handed[i] < job
          /\ \A f \in Frames : inForce[f] # None => f < job
      BY <1>1, <2>1, <2>3 DEF Timed, ReadBack
    <3>2. job = frame
      BY <3>1 DEF Now
    <3>3. job \in Frames /\ job <= frame
      BY <1>1, <1>2, <3>1, <3>2 DEF Typed, TypeOK
    <3>4. frame' \in Int /\ frame <= frame' /\ job <= frame'
      BY <1>2, <2>1, <3>3
    <3> QED
      BY <1>1, <2>1, <2>3, <3>1, <3>3, <3>4, HandedAppend
  <2> QED
    BY <2>1, <2>2, <2>3
<1>6. CASE Halt
  <2>1. DOMAIN handed' = {} /\ \A f \in Frames : inForce'[f] = None
    BY <1>6 DEF Halt
  <2> QED
    BY <2>1 DEF Handed
<1>7. CASE Process
  <2>1. /\ handed # <<>> /\ handed' = Tail(handed) /\ frame' = frame
    BY <1>7 DEF Process
  <2>2. PICK x : x = Head(handed)
    OBVIOUS
  <2>3. x = handed[1] /\ 1 \in DOMAIN handed
    BY <1>2, <2>1, <2>2
  <2>4. inForce' = [inForce EXCEPT ![x] = drv'.src]
    BY <1>7, <2>2 DEF Process
  <2>5. PICK n \in Nat : n = Len(handed) - 1
    <3>1. Len(handed) - 1 \in Nat
      BY <1>2, <2>3
    <3> QED
      BY <3>1
  <2>6. /\ DOMAIN handed = 1..(n + 1) /\ DOMAIN handed' = 1..n
        /\ \A i \in 1..n : handed'[i] = handed[i + 1]
    BY <1>2, <2>1, <2>5
  <2>7. x \in Frames /\ x \in Int /\ x <= frame
        /\ \A i \in 1..n : x < handed[i + 1]
    <3>1. x \in Frames /\ x \in Int /\ x <= frame
      BY <1>1, <1>2, <2>3 DEF Handed
    <3>2. ASSUME NEW i \in 1..n PROVE x < handed[i + 1]
      <4>1. i + 1 \in DOMAIN handed /\ 1 < i + 1
        BY <2>6
      <4> QED
        BY <1>1, <2>3, <4>1 DEF Handed
    <3> QED
      BY <3>1, <3>2
  <2>8. ASSUME NEW f \in Frames, inForce'[f] # None
        PROVE  f = x \/ inForce[f] # None
    BY <1>2, <2>4, <2>8
  <2>9. \A f \in Frames : inForce'[f] # None => f <= frame
    BY <1>1, <2>7, <2>8 DEF Handed
  <2>10. ASSUME NEW i \in DOMAIN handed'
        PROVE  /\ i + 1 \in DOMAIN handed /\ handed'[i] = handed[i + 1]
               /\ x < handed'[i] /\ i \in Int
    BY <2>6, <2>7
  <2>11. ASSUME NEW i \in DOMAIN handed', NEW f \in Frames, inForce'[f] # None
         PROVE  f < handed'[i]
    BY <1>1, <2>8, <2>10, <2>11 DEF Handed
  <2>12. ASSUME NEW i \in DOMAIN handed', NEW j \in DOMAIN handed', i < j
         PROVE  handed'[i] < handed'[j]
    <3>1. i + 1 < j + 1 /\ i + 1 \in DOMAIN handed /\ j + 1 \in DOMAIN handed
      BY <2>10, <2>12
    <3> QED
      BY <1>1, <2>10, <3>1 DEF Handed
  <2>13. \A i \in DOMAIN handed' : handed'[i] <= frame
    BY <1>1, <2>10 DEF Handed
  <2> QED
    BY <2>1, <2>9, <2>11, <2>12, <2>13 DEF Handed
<1>8. CASE \/ SetInitialParams \/ SetIspParams \/ SyncOwn
           \/ \E m \in Forceable, on \in BOOLEAN : SetModuleStatus(m, on)
           \/ Start \/ GetEffectiveIspParams \/ UNCHANGED vars
  <2>1. CASE SyncOwn
    <3>1. inForce' = inForce /\ frame' = frame /\ handed' = handed
      BY <1>1, <2>1, Beginning DEF SyncOwn
    <3> QED
      BY <1>1, <3>1 DEF Handed
  <2>2. CASE ~SyncOwn
    <3>1. UNCHANGED isp
      BY <1>8, <2>2 DEF SetInitialParams, SetIspParams, SetModuleStatus, Start,
                        GetEffectiveIspParams, vars
    <3> QED
      BY <1>1, <3>1 DEF Handed, isp
  <2> QED
    BY <2>1, <2>2
<1> QED
  BY <1>4, <1>5, <1>6, <1>7, <1>8, Steps

-----------------------------------------------------------------------------
(* The read-back's buffers and the frames they are for. *)

LEMMA TimedEnding ==
    ASSUME IspParamsAssumption, Inv, Ending
    PROVE  Timed'
<1>1. Typed /\ Timed
  BY DEF Inv
<1>2. /\ pc = "send" /\ pc' = "idle" /\ UNCHANGED <<noReadBack, frame>>
      /\ state' \in {state, "down"}
  BY EndingEffect
<1>3. SUFFICES ASSUME ReadBack' PROVE Timed'
  BY DEF Timed
<1>4. ReadBack /\ Now' = Now /\ frame \in Int /\ Now \in Nat
  <2>1. frame \in Int /\ frame >= -1
    BY <1>1, Numbers
  <2> QED
    BY <1>2, <1>3, <2>1 DEF ReadBack, Now, None
<1>5. /\ DOMAIN effecting \subseteq 0..Now
      /\ \A i \in DOMAIN queued : queued[i].frame <= Now
      /\ \A i, j \in DOMAIN queued :
            i < j => queued[i].frame <= queued[j].frame
      /\ job = Now
  BY <1>1, <1>2, <1>4 DEF Timed
<1>6. CASE SyncSent
  <2>1. DOMAIN effecting' = DOMAIN effecting \cup {job}
    BY <1>6 DEF SyncSent, Effect
  <2>2. PICK b : b = [frame |-> job, src |-> res.ser, set |-> Merged]
    OBVIOUS
  <2>3. queued' = Append(queued, b) /\ b.frame = Now
    BY <1>5, <1>6, <2>2 DEF SyncSent
  <2>4. PICK n \in Nat : n = Len(queued)
    BY <1>1 DEF Typed
  <2>5. /\ DOMAIN queued' = 1..(n + 1) /\ DOMAIN queued = 1..n
        /\ \A i \in 1..n : queued'[i] = queued[i]
        /\ queued'[n + 1] = b
    BY <1>1, <2>3, <2>4 DEF Typed
  <2>6. ASSUME NEW i \in DOMAIN queued' PROVE queued'[i].frame <= Now
    BY <1>4, <1>5, <2>3, <2>5
  <2>7. ASSUME NEW i \in DOMAIN queued', NEW j \in DOMAIN queued', i < j
        PROVE  queued'[i].frame <= queued'[j].frame
    <3>1. CASE j = n + 1
      BY <2>3, <2>5, <2>6, <3>1
    <3>2. CASE j # n + 1
      BY <1>5, <2>5, <2>7, <3>2, SMTT(30)
    <3> QED
      BY <3>1, <3>2
  <2> QED
    BY <1>2, <1>4, <1>5, <2>1, <2>6, <2>7 DEF Timed
<1>7. CASE ~SyncSent
  <2>1. UNCHANGED <<effecting, queued>>
    BY <1>7 DEF Ending, SyncNoBuffer, SyncNotQueued, SyncNoPool
  <2> QED
    BY <1>2, <1>4, <1>5, <2>1 DEF Timed
<1> QED
  BY <1>6, <1>7

LEMMA TimedNext ==
    ASSUME IspParamsAssumption, Inv, [Next]_vars
    PROVE  Timed'
<1>1. Typed /\ Timed /\ Handed /\ AtRest /\ Calling
  BY DEF Inv
<1>2. /\ handed \in Seq(Frames) /\ frame \in Int /\ Frames \subseteq Nat
      /\ \A i \in DOMAIN handed : handed[i] \in Frames /\ handed[i] \in Int
      /\ inForce \in [Frames -> 0..MaxSerial \cup {None}]
      /\ frame >= -1
  BY <1>1, HandedTyped, Numbers
<1>3. DOMAIN EraseOldest \subseteq DOMAIN effecting
  BY <1>1, EraseOldestTyped
<1>4. CASE SyncFrame
  <2>1. /\ ReadBack /\ state = "started" /\ frame' = frame + 1
        /\ UNCHANGED <<engine, queued, drv, inForce>>
        /\ effecting' = EraseOldest
        /\ pc = "idle" /\ Begin(frame + 1)
    BY <1>1, <1>4, Beginning DEF SyncFrame, ReadBack
  <2>2. Now' = frame + 1 /\ Now <= Now' /\ Now \in Nat /\ Now' \in Nat
    BY <1>2, <2>1 DEF Now, None
  <2>3. DOMAIN effecting' \subseteq 0..Now'
    BY <1>1, <1>3, <2>1, <2>2 DEF Timed
  <2>4. \A i \in DOMAIN queued : queued[i].frame <= Now'
    <3>1. \A i \in DOMAIN queued : queued[i].frame \in Int
      <4>1. ASSUME NEW i \in DOMAIN queued PROVE queued[i].frame \in Int
        <5>1. queued[i] \in Buffers
          BY <1>1 DEF Typed
        <5> QED
          BY <5>1 DEF Buffers
      <4> QED
        BY <4>1
    <3>2. \A i \in DOMAIN queued : queued[i].frame <= Now
      BY <1>1, <2>1 DEF Timed
    <3> QED
      BY <2>2, <3>1, <3>2
  <2>5. /\ \A i \in DOMAIN handed : handed[i] < Now'
        /\ \A f \in Frames : inForce[f] # None => f < Now'
    BY <1>1, <1>2, <2>2, SMTT(30) DEF Handed
  <2>6. CASE pending = <<>>
    <3>1. pc' = "idle"
      BY <1>1, <2>1, <2>6, BeginEffect DEF sync
    <3> QED
      BY <1>1, <2>1, <2>3, <2>4, <3>1 DEF Timed
  <2>7. CASE pending # <<>>
    <3>1. job' = frame + 1 /\ handed' = handed /\ frame' # None
      BY <1>1, <1>2, <1>4, <2>1, <2>7, BeginEffect DEF SyncFrame, None
    <3> QED
      BY <1>1, <2>1, <2>2, <2>3, <2>4, <2>5, <3>1 DEF Timed
  <2> QED
    BY <2>6, <2>7
<1>5. CASE SyncOwn
  <2>1. /\ UNCHANGED <<engine, queued, drv, inForce, frame, handed>>
        /\ effecting' = EraseOldest
        /\ Begin(calling) /\ pc = "idle" /\ calling # None
    BY <1>1, <1>5, Beginning DEF SyncOwn
  <2>2. SUFFICES ASSUME ReadBack' PROVE Timed'
    BY DEF Timed
  <2>3. ReadBack /\ Now' = Now
    BY <2>1, <2>2 DEF ReadBack, Now, engine
  <2>4. state \notin {"started", "down"}
    BY <1>1, <2>1, <2>3 DEF ReadBack, Calling, OwnCall
  <2>5. frame = None /\ handed = <<>> /\ calling = 0
        /\ \A f \in Frames : inForce[f] = None
    BY <1>1, <2>1, <2>4 DEF AtRest
  <2>6. pc' = "send" => job' = Now
    <3>1. CASE pending = <<>>
      BY <1>1, <2>1, <3>1, BeginEffect DEF sync
    <3>2. CASE pending # <<>>
      BY <1>1, <2>1, <2>5, <3>2, BeginEffect DEF Now
    <3> QED
      BY <3>1, <3>2
  <2>7. DOMAIN handed' = {} /\ \A f \in Frames : inForce'[f] = None
    BY <2>1, <2>5
  <2>8. state' # "started"
    BY <2>1, <2>4 DEF engine
  <2> QED
    BY <1>1, <1>3, <2>1, <2>3, <2>6, <2>7, <2>8 DEF Timed
<1>6. CASE Ending
  BY <1>6, TimedEnding
<1>7. CASE Halt
  <2>1. DOMAIN queued' = {} /\ DOMAIN effecting' = {} /\ pc' = "idle"
    BY <1>7 DEF Halt, sync
  <2> QED
    BY <2>1 DEF Timed
<1>8. CASE Arrive
  <2>1. ~ReadBack'
    BY <1>8 DEF Arrive, ReadBack, engine
  <2> QED
    BY <2>1 DEF Timed
<1>9. CASE Process
  <2>1. /\ UNCHANGED <<engine, sync, frame, effecting>>
        /\ handed # <<>> /\ handed' = Tail(handed)
    BY <1>9 DEF Process
  <2>2. PICK x : x = Head(handed)
    OBVIOUS
  <2>3. inForce' = [inForce EXCEPT ![x] = drv'.src]
    BY <1>9, <2>2 DEF Process
  <2>4. x = handed[1] /\ 1 \in DOMAIN handed
    BY <1>2, <2>1, <2>2
  <2>5. \A i \in DOMAIN handed' : i + 1 \in DOMAIN handed
                                  /\ handed'[i] = handed[i + 1]
    BY <1>2, <2>1
  <2>6. PICK k \in 0..Len(queued) : \A i \in DOMAIN queued' :
           k + i \in DOMAIN queued /\ queued'[i] = queued[k + i]
           /\ k \in Int /\ i \in Int
    BY <1>1, <1>9, ProcessShifts
  <2>7. SUFFICES ASSUME ReadBack' PROVE Timed'
    BY DEF Timed
  <2>8. ReadBack /\ Now' = Now
    BY <2>1, <2>7 DEF ReadBack, Now, engine
  <2>9. \A i \in DOMAIN queued' : queued'[i].frame <= Now
    BY <1>1, <2>6, <2>8 DEF Timed
  <2>10. ASSUME NEW i \in DOMAIN queued', NEW j \in DOMAIN queued', i < j
         PROVE  queued'[i].frame <= queued'[j].frame
    <3>1. k + i < k + j
      BY <2>6, <2>10
    <3> QED
      BY <1>1, <2>6, <2>8, <3>1 DEF Timed
  <2>11. ASSUME pc = "send"
         PROVE  /\ \A i \in DOMAIN handed' : handed'[i] < job
                /\ \A f \in Frames : inForce'[f] # None => f < job
    <3>1. /\ \A i \in DOMAIN handed : handed[i] < job
          /\ \A f \in Frames : inForce[f] # None => f < job
      BY <1>1, <2>8, <2>11 DEF Timed
    <3>2. \A i \in DOMAIN handed' : handed'[i] < job
      BY <2>5, <3>1
    <3>3. ASSUME NEW f \in Frames, inForce'[f] # None PROVE f < job
      BY <1>2, <2>3, <2>4, <3>1, <3>3
    <3> QED
      BY <3>2, <3>3
  <2> QED
    BY <1>1, <2>1, <2>8, <2>9, <2>10, <2>11 DEF Timed, sync, engine
<1>10. CASE \/ SetInitialParams \/ SetIspParams \/ Start
            \/ \E m \in Forceable, on \in BOOLEAN : SetModuleStatus(m, on)
            \/ GetEffectiveIspParams \/ UNCHANGED vars
  <2>1. UNCHANGED <<isp, sync>> /\ DOMAIN effecting' \subseteq DOMAIN effecting
    BY <1>3, <1>10 DEF SetInitialParams, SetIspParams, SetModuleStatus, Start,
                       GetEffectiveIspParams, vars
  <2>2. ReadBack' => ReadBack
    BY <1>10 DEF SetInitialParams, SetIspParams, SetModuleStatus, Start,
                 GetEffectiveIspParams, vars, engine, ReadBack
  <2>3. pc = "send" => state' = state
    BY <1>10 DEF SetInitialParams, SetIspParams, SetModuleStatus, Start,
                 GetEffectiveIspParams, vars, engine
  <2> QED
    BY <1>1, <2>1, <2>2, <2>3 DEF Timed, isp, sync, Now
<1> QED
  BY <1>4, <1>5, <1>6, <1>7, <1>8, <1>9, <1>10, Steps

-----------------------------------------------------------------------------
(* What the effect map answers. *)

\* The entry of a call answers for its frame and the later ones.
LEMMA LookupSent ==
    ASSUME NEW n \in Nat, job = n, DOMAIN effecting \subseteq 0..n,
           effecting' = Effect(job), NEW f \in Nat
    PROVE  /\ f >= n => Lookup(f)' = res.ser
           /\ f < n => Lookup(f)' = Lookup(f)
<1> DEFINE s == {g \in DOMAIN effecting : g <= f}
           t == {g \in DOMAIN effecting' : g <= f}
<1>1. /\ DOMAIN effecting' = DOMAIN effecting \cup {n}
      /\ \A g \in DOMAIN effecting' :
            effecting'[g] = IF g = n THEN res.ser ELSE effecting[g]
  BY DEF Effect
<1>2. t \subseteq 0..n /\ IsFiniteSet(t) /\ t \subseteq Int
      /\ s \subseteq 0..n /\ IsFiniteSet(s) /\ s \subseteq Int
  <2>1. t \subseteq 0..n /\ s \subseteq 0..n
    BY <1>1
  <2>2. IsFiniteSet(0..n)
    BY FS_Interval
  <2> HIDE DEF s, t
  <2>3. IsFiniteSet(t) /\ IsFiniteSet(s)
    BY <2>1, <2>2, FS_Subset
  <2> QED
    BY <2>1, <2>3
<1>3. Lookup(f) = IF s = {} THEN None ELSE effecting[Max(s)]
  BY DEF Lookup
<1>4. Lookup(f)' = IF t = {} THEN None ELSE effecting'[Max(t)]
  BY DEF Lookup
<1>5. ASSUME f >= n PROVE Lookup(f)' = res.ser
  <2>1. n \in t /\ \A y \in t : y <= n
    BY <1>1, <1>2, <1>5
  <2>2. Max(t) = n
    <3> HIDE DEF t
    <3> QED
      BY <1>2, <2>1, MaxIs
  <2> QED
    BY <1>1, <1>4, <2>1, <2>2
<1>6. ASSUME f < n PROVE Lookup(f)' = Lookup(f)
  <2>1. t = s
    BY <1>1, <1>6
  <2>2. CASE s = {}
    BY <1>3, <1>4, <2>1, <2>2
  <2>3. CASE s # {}
    <3>1. Max(s) \in s
      <4> HIDE DEF s
      <4> QED
        BY <1>2, <2>3, MaxExists
    <3>2. PICK x \in s : x = Max(s)
      BY <3>1
    <3>3. x \in DOMAIN effecting /\ x # n
      BY <1>6, <3>2
    <3>4. effecting'[x] = effecting[x]
      BY <1>1, <3>3
    <3> QED
      BY <1>3, <1>4, <2>1, <2>3, <3>2, <3>4
  <2> QED
    BY <2>2, <2>3
<1> QED
  BY <1>5, <1>6

LEMMA ToldSent ==
    ASSUME IspParamsAssumption, Inv, SyncSent
    PROVE  Told'
<1>1. Typed /\ Timed /\ Told /\ Ending
  BY DEF Inv, Ending
<1>2. /\ pc = "send" /\ UNCHANGED <<noReadBack, frame, drv, inForce>>
      /\ state' = state
  BY <1>1, EndingEffect DEF SyncSent
<1>3. SUFFICES ASSUME ReadBack' PROVE Told'
  BY DEF Told
<1>4. ReadBack /\ Now \in Nat
  <2>1. frame \in Int /\ frame >= -1
    BY <1>1, Numbers
  <2> QED
    BY <1>2, <1>3, <2>1 DEF ReadBack, Now, None
<1>5. /\ DOMAIN effecting \subseteq 0..Now
      /\ \A i \in DOMAIN queued : queued[i].frame <= Now
      /\ job = Now
      /\ \A f \in Frames : inForce[f] # None => f < Now
  BY <1>1, <1>2, <1>4 DEF Timed
<1>6. PICK b : b = [frame |-> job, src |-> res.ser, set |-> Merged]
  OBVIOUS
<1>7. /\ queued' = Append(queued, b) /\ b.frame = Now /\ b.src = res.ser
      /\ effecting' = Effect(job)
  BY <1>5, <1>6 DEF SyncSent
<1>8. b \in Buffers /\ queued \in Seq(Buffers)
  <2>1. job \in 0..(MaxFrame + 1) /\ res.ser \in Serials
    BY <1>1, <1>2 DEF Typed, TypeOK, Results
  <2>2. Merged \in Params
    BY <1>1, MergedTyped
  <2> QED
    BY <1>1, <1>6, <2>1, <2>2 DEF Buffers, Typed
<1>9. ASSUME NEW f \in Frames, f > frame - KeepMax
      PROVE  /\ inForce[f] \notin {None, 0} => Lookup(f)' = inForce[f]
             /\ (\A g \in Frames : inForce[g] # None => g < f)
                   /\ Under(drv, queued', f) # 0 =>
                       Lookup(f)' = Under(drv, queued', f)
  <2>1. f \in Nat /\ f \in Int
    BY DEF Frames
  <2>2. /\ f >= Now => Lookup(f)' = res.ser
        /\ f < Now => Lookup(f)' = Lookup(f)
    BY <1>4, <1>5, <1>7, <2>1, LookupSent
  <2>3. /\ f >= Now => Under(drv, queued', f) = res.ser
        /\ f < Now => Under(drv, queued', f) = Under(drv, queued, f)
    <3>1. \A i \in DOMAIN queued : queued[i].frame <= b.frame
      BY <1>5, <1>7
    <3>2. /\ f >= b.frame => Under(drv, Append(queued, b), f) = b.src
          /\ f < b.frame => Under(drv, Append(queued, b), f) = Under(drv, queued, f)
      BY <1>8, <2>1, <3>1, UnderAppend
    <3> QED
      BY <1>7, <3>2
  <2>4. /\ inForce[f] \notin {None, 0} => Lookup(f) = inForce[f]
        /\ (\A g \in Frames : inForce[g] # None => g < f)
              /\ Under(drv, queued, f) # 0 =>
                  Lookup(f) = Under(drv, queued, f)
    BY <1>1, <1>4, <1>9 DEF Told
  <2>5. CASE f >= Now
    <3>1. inForce[f] = None
      BY <1>4, <1>5, <2>1, <2>5
    <3> QED
      BY <2>2, <2>3, <2>5, <3>1
  <2>6. CASE f < Now
    BY <2>2, <2>3, <2>4, <2>6
  <2> QED
    BY <1>4, <2>1, <2>5, <2>6
<1> QED
  BY <1>2, <1>9 DEF Told

LEMMA ToldProcess ==
    ASSUME IspParamsAssumption, Inv, Process
    PROVE  Told'
<1>1. Typed /\ Handed /\ Told
  BY DEF Inv
<1>2. /\ handed \in Seq(Frames)
      /\ inForce \in [Frames -> 0..MaxSerial \cup {None}]
  BY <1>1, HandedTyped
<1>3. PICK x \in Frames, k \in 0..Len(queued) :
         /\ x = Head(handed) /\ x \in Int
         /\ k = Due(queued, x)
         /\ drv' = Applied(drv, SubSeq(queued, 1, k))
         /\ queued' = SubSeq(queued, k + 1, Len(queued))
  BY <1>1, ProcessShifts
<1>4. /\ inForce' = [inForce EXCEPT ![x] = drv'.src]
      /\ UNCHANGED <<engine, effecting, frame>>
      /\ handed # <<>>
  BY <1>3 DEF Process
<1>5. queued \in Seq(Buffers) /\ drv \in Drivers
  BY <1>1 DEF Typed, TypeOK, Drivers
<1>6. ASSUME NEW f \in Frames, x <= f
      PROVE  /\ drv'.src = Under(drv, queued, x)
             /\ Under(drv', queued', f) = Under(drv, queued, f)
  <2>1. f \in Int
    BY DEF Frames
  <2> DEFINE n == Due(queued, x)
             split == SubSeq(queued, 1, n)
             rest == SubSeq(queued, n + 1, Len(queued))
  <2>2. /\ Applied(drv, split).src = Under(drv, queued, x)
        /\ Under(Applied(drv, split), rest, f) = Under(drv, queued, f)
    <3>1. x \in Int /\ x <= f
      BY <1>3, <1>6
    <3> QED
      BY <1>5, <2>1, <3>1, UnderSplit
  <2>3. drv' = Applied(drv, split) /\ queued' = rest
    BY <1>3
  <2> HIDE DEF n, split, rest
  <2> QED
    BY <2>2, <2>3
<1>7. drv'.src = Under(drv, queued, x) /\ drv'.src # None
  <2>1. drv'.src = Under(drv, queued, x)
    BY <1>3, <1>6, SMTT(30)
  <2>2. drv' \in Drivers
    <3>1. SubSeq(queued, 1, k) \in Seq(Buffers)
      BY <1>5, Parts
    <3> QED
      BY <1>3, <1>5, <3>1, AppliedTyped
  <2> QED
    BY <2>1, <2>2 DEF Drivers, None
<1>8. \A g \in Frames : inForce[g] # None => g < x
  <2>1. 1 \in DOMAIN handed /\ x = handed[1]
    BY <1>2, <1>3, <1>4, SMTT(30)
  <2> QED
    BY <1>1, <2>1 DEF Handed
<1>9. SUFFICES ASSUME ReadBack, NEW f \in Frames, f > frame - KeepMax
               PROVE  /\ inForce'[f] \notin {None, 0} =>
                            Lookup(f) = inForce'[f]
                      /\ (\A g \in Frames : inForce'[g] # None => g < f)
                            /\ Under(drv', queued', f) # 0 =>
                                Lookup(f) = Under(drv', queued', f)
  BY <1>4 DEF Told, ReadBack, Lookup, engine
<1>10. /\ inForce[f] \notin {None, 0} => Lookup(f) = inForce[f]
       /\ (\A g \in Frames : inForce[g] # None => g < f)
             /\ Under(drv, queued, f) # 0 =>
                 Lookup(f) = Under(drv, queued, f)
  BY <1>1, <1>9 DEF Told
<1>11. ASSUME inForce'[f] \notin {None, 0} PROVE Lookup(f) = inForce'[f]
  <2>1. CASE f = x
    <3>1. inForce'[f] = Under(drv, queued, f)
      BY <1>2, <1>4, <1>7, <2>1
    <3> QED
      BY <1>8, <1>10, <1>11, <2>1, <3>1
  <2>2. CASE f # x
    BY <1>2, <1>4, <1>10, <1>11, <2>2
  <2> QED
    BY <2>1, <2>2
<1>12. ASSUME \A g \in Frames : inForce'[g] # None => g < f,
              Under(drv', queued', f) # 0
       PROVE  Lookup(f) = Under(drv', queued', f)
  <2>1. inForce'[x] # None
    BY <1>2, <1>4, <1>7
  <2>2. x < f /\ x <= f
    <3>1. x \in Int /\ f \in Int
      BY <1>3 DEF Frames
    <3> QED
      BY <1>12, <2>1, <3>1
  <2>3. Under(drv', queued', f) = Under(drv, queued, f)
    BY <1>6, <2>2
  <2>4. ASSUME NEW g \in Frames, inForce[g] # None PROVE g < f
    <3>1. inForce'[g] # None
      BY <1>2, <1>4, <2>1, <2>4
    <3> QED
      BY <1>12, <3>1
  <2> QED
    BY <1>10, <1>12, <2>3, <2>4
<1> QED
  BY <1>11, <1>12

LEMMA ToldNext ==
    ASSUME IspParamsAssumption, Inv, [Next]_vars
    PROVE  Told'
<1>1. Typed /\ Timed /\ Told /\ KeepMax \in Nat
  BY DEF Inv, IspParamsAssumption
<1>2. CASE SyncFrame \/ SyncOwn \/ GetEffectiveIspParams
  <2>1. UNCHANGED <<engine, queued, drv, inForce>> /\ effecting' = EraseOldest
    BY <1>1, <1>2, Beginning DEF GetEffectiveIspParams, isp
  <2>2. frame \in Int /\ frame' \in Int /\ frame <= frame'
    <3>1. frame \in Int
      BY <1>1, Numbers
    <3>2. frame' = frame \/ frame' = frame + 1
      BY <1>2 DEF SyncFrame, SyncOwn, GetEffectiveIspParams, isp
    <3> QED
      BY <3>1, <3>2
  <2>3. SUFFICES ASSUME ReadBack', NEW f \in Frames, f > frame' - KeepMax
                 PROVE  /\ inForce[f] \notin {None, 0} =>
                              Lookup(f)' = inForce[f]
                        /\ (\A g \in Frames : inForce[g] # None => g < f)
                              /\ Under(drv, queued, f) # 0 =>
                                  Lookup(f)' = Under(drv, queued, f)
    BY <2>1 DEF Told
  <2>4. ReadBack /\ DOMAIN effecting \subseteq 0..Now
    BY <1>1, <2>1, <2>3 DEF ReadBack, Timed, engine
  <2>5. f > frame - KeepMax
    <3>1. f \in Int
      BY DEF Frames
    <3>2. PICK n : n = frame'
      OBVIOUS
    <3>3. n \in Int /\ frame <= n /\ f > n - KeepMax /\ frame \in Int
      BY <2>2, <2>3, <3>2
    <3> QED
      BY <1>1, <3>1, <3>3
  <2>6. Lookup(f)' = Lookup(f)
    BY <1>1, <2>1, <2>4, <2>5, LookupKept
  <2> QED
    BY <1>1, <2>4, <2>5, <2>6 DEF Told
<1>3. CASE SyncSent
  BY <1>3, ToldSent
<1>4. CASE Ending /\ ~SyncSent
  <2>1. /\ UNCHANGED <<noReadBack, frame, drv, inForce, effecting, queued>>
        /\ state' \in {state, "down"}
    BY <1>4, EndingEffect DEF Ending, SyncNoBuffer, SyncNotQueued, SyncNoPool
  <2> QED
    BY <1>1, <2>1 DEF Told, ReadBack, Lookup
<1>5. CASE Halt
  <2>1. /\ \A f \in Frames : inForce'[f] = None
        /\ drv' = DriverOff /\ queued' = <<>>
    BY <1>5 DEF Halt
  <2>2. ASSUME NEW f \in Frames PROVE Under(drv', queued', f) = 0
    <3>1. queued' \in Seq(Buffers) /\ f \in Int /\ Len(queued') = 0
      BY <2>1 DEF Frames
    <3>2. Due(queued', f) \in 0..Len(queued')
      BY <3>1, DueFacts
    <3>3. Due(queued', f) = 0
      BY <3>1, <3>2
    <3> QED
      BY <2>1, <3>3 DEF Under, DriverOff
  <2> QED
    BY <2>1, <2>2 DEF Told
<1>6. CASE Arrive
  <2>1. ~ReadBack'
    BY <1>6 DEF Arrive, ReadBack, engine
  <2> QED
    BY <2>1 DEF Told
<1>7. CASE Process
  BY <1>7, ToldProcess
<1>8. CASE \/ SetInitialParams \/ SetIspParams \/ Start
           \/ \E m \in Forceable, on \in BOOLEAN : SetModuleStatus(m, on)
           \/ UNCHANGED vars
  <2>1. UNCHANGED <<isp, effecting>>
    BY <1>8 DEF SetInitialParams, SetIspParams, SetModuleStatus, Start, vars
  <2>2. ReadBack' => ReadBack
    BY <1>8 DEF SetInitialParams, SetIspParams, SetModuleStatus, Start,
                vars, engine, ReadBack
  <2> QED
    BY <1>1, <2>1, <2>2 DEF Told, Lookup, isp
<1> QED
  BY <1>2, <1>3, <1>4, <1>5, <1>6, <1>7, <1>8, Steps

-----------------------------------------------------------------------------
(* The inductive invariant, and what follows from it. *)

LEMMA InitInv == Init => Inv
<1> SUFFICES ASSUME Init PROVE Inv
  OBVIOUS
<1>1. Typed
  BY IspParamsAssumption, InitTyped
<1>2. DOMAIN pending = {} /\ DOMAIN handed = {} /\ DOMAIN queued = {}
      /\ DOMAIN effecting = {}
  BY DEF Init
<1>3. Calling /\ AtRest /\ Obeyed /\ Complete /\ Synced
  BY DEF Init, Calling, AtRest, Obeyed, Complete, Synced, None
<1>4. Lined /\ Overtaken /\ Answering
  BY <1>2 DEF Init, Lined, Overtaken, Answering, NoResult
<1>5. Rising
  BY <1>2 DEF Init, Rising, DriverOff, NoResult
<1>6. Handed /\ Timed
  BY <1>2 DEF Init, Handed, Timed
<1>7. Told
  <2>1. ASSUME NEW f \in Frames PROVE Under(drv, queued, f) = 0
    <3>1. queued \in Seq(Buffers) /\ f \in Int /\ Len(queued) = 0
      BY DEF Frames, Init
    <3>2. Due(queued, f) \in 0..Len(queued)
      BY <3>1, DueFacts
    <3>3. Due(queued, f) = 0
      BY <3>1, <3>2
    <3> QED
      BY <3>3 DEF Under, DriverOff, Init
  <2> QED
    BY <2>1 DEF Told, Init
<1> QED
  BY <1>1, <1>3, <1>4, <1>5, <1>6, <1>7 DEF Inv

LEMMA NextInv == Inv /\ [Next]_vars => Inv'
<1> SUFFICES ASSUME Inv, [Next]_vars PROVE Inv'
  OBVIOUS
<1> USE IspParamsAssumption
<1>1. Typed'
  BY TypedNext DEF Inv
<1>2. Calling' /\ AtRest' /\ (Obeyed' /\ Complete') /\ Synced'
  BY CallingNext, AtRestNext, ObeyedNext, SyncedNext
<1>3. Lined' /\ Overtaken' /\ Answering' /\ Rising'
  BY LinedNext, OvertakenNext, AnsweringNext, RisingNext
<1>4. Handed' /\ Timed' /\ Told'
  BY HandedNext, TimedNext, ToldNext
<1> QED
  BY <1>1, <1>2, <1>3, <1>4 DEF Inv

LEMMA Invariance == Spec => []Inv
BY InitInv, NextInv, PTL DEF Spec

\* Every variable keeps its type: the pending results, the effect map and the
\* driver's queue stay within their bounds.
THEOREM TypeCorrect == Spec => []TypeOK
<1>1. Inv => TypeOK
  BY DEF Inv, Typed
<1> QED
  BY <1>1, Invariance, PTL

\* getEffectiveIspParams answers for each of the last frames with the
\* parameters the ISP processed it under (getEffectiveIspParams against
\* setIspParamsSync and the driver).
THEOREM EffectiveIsAppliedAlways == Spec => []EffectiveIsApplied
<1>1. Inv => EffectiveIsApplied
  BY DEF Inv, Told, ReadBack, EffectiveIsApplied
<1> QED
  BY <1>1, Invariance, PTL

\* With nothing queued the driver has every module as the full set has it,
\* but for those an unsent buffer was to set (gen_full_isp_params).
THEOREM DriverInSyncAlways == Spec => []DriverInSync
<1>1. Inv => DriverInSync
  <2> SUFFICES ASSUME Inv, state = "started", devOn, queued = <<>>,
                      NEW m \in Modules \ missed
               PROVE  /\ m \in drv.ens <=> m \in ens
                      /\ m \in ens => drv.cfg[m] = cfg[m]
    BY DEF DriverInSync
  <2>1. /\ EnAfter(drv, queued, m) <=> m \in ens
        /\ m \in ens => CfgAfter(drv, queued, m) = cfg[m]
    BY DEF Inv, Synced
  <2>2. DOMAIN queued = {}
    OBVIOUS
  <2>3. Enabling(queued, m) = {} /\ Configuring(queued, m) = {}
    BY <2>2 DEF Enabling, Configuring
  <2>4. EnAfter(drv, queued, m) <=> m \in drv.ens
    BY <2>3 DEF EnAfter
  <2>5. CfgAfter(drv, queued, m) = drv.cfg[m]
    BY <2>3 DEF CfgAfter
  <2> QED
    BY <2>1, <2>4, <2>5
<1> QED
  BY <1>1, Invariance, PTL

\* Within a stream the driver takes no module back to an older result,
\* whichever of the pending results the sync chooses (setIspParamsSync).
THEOREM NeverGoesBackAlways == Spec => NeverGoesBack
<1> DEFINE P == state = "started" /\ state' = "started" =>
                   \A m \in Modules : drv'.cfg[m] >= drv.cfg[m]
<1>1. Inv /\ [Next]_vars => P
  <2> SUFFICES ASSUME Inv, [Next]_vars, state = "started", state' = "started",
                      NEW m \in Modules
               PROVE  drv'.cfg[m] >= drv.cfg[m]
    OBVIOUS
  <2> USE IspParamsAssumption
  <2>1. Typed /\ Rising
    BY DEF Inv
  <2>2. drv.cfg[m] \in Nat
    BY <2>1, Configurations
  <2>3. CASE Process
    <3>1. drv.cfg[m] <= drv'.cfg[m] /\ drv'.cfg[m] \in Nat
      BY <2>1, <2>3, ProcessRises
    <3> QED
      BY <2>2, <3>1
  <2>4. CASE ~Process
    <3>1. drv' = drv
      <4>1. CASE SyncFrame \/ SyncOwn
        BY <2>1, <4>1, Beginning
      <4>2. CASE Ending
        BY <4>2, EndingEffect
      <4>3. CASE \/ SetInitialParams \/ SetIspParams \/ Start \/ Arrive
                 \/ \E n \in Forceable, on \in BOOLEAN : SetModuleStatus(n, on)
                 \/ GetEffectiveIspParams \/ UNCHANGED vars
        BY <4>3 DEF SetInitialParams, SetIspParams, SetModuleStatus, Start,
                    Arrive, GetEffectiveIspParams, vars, isp
      <4>4. ~Halt
        BY DEF Halt
      <4> QED
        BY <2>4, <4>1, <4>2, <4>3, <4>4, Steps
    <3> QED
      BY <2>2, <3>1
  <2> QED
    BY <2>3, <2>4
<1>2. P => [P]_vars
  OBVIOUS
<1> QED
  BY <1>1, <1>2, Invariance, PTL DEF Spec, NeverGoesBack

\* A module the user switched off is off after every call of the sync
\* (forceOverwriteAiqIspCfg and updateIspModuleForceEns).
THEOREM OffStaysOffAlways == Spec => OffStaysOff
<1> DEFINE P == pc = "send" /\ pc' = "idle" => ens' \cap wish = {}
<1>1. Inv /\ [Next]_vars => P
  <2> SUFFICES ASSUME Inv, [Next]_vars, pc = "send", pc' = "idle"
               PROVE  ens' \cap wish = {}
    OBVIOUS
  <2> USE IspParamsAssumption
  <2>1. Typed /\ Obeyed
    BY DEF Inv
  <2>2. Ending
    <3>1. ~UNCHANGED pc
      OBVIOUS
    <3>2. ~(SyncFrame \/ SyncOwn)
      BY DEF SyncFrame, SyncOwn
    <3> QED
      BY <3>1, <3>2, Steps DEF SetInitialParams, SetIspParams, SetModuleStatus,
              Start, Halt, Arrive, Process, GetEffectiveIspParams, vars, sync
  <2>3. ens' = (ens \ upd.enUp) \cup (upd.ens \cap upd.enUp)
    BY <2>1, <2>2, EndingEffect, MergedTyped
  <2> QED
    BY <2>1, <2>3 DEF Obeyed
<1>2. P => [P]_vars
  OBVIOUS
<1> QED
  BY <1>1, <1>2, Invariance, PTL DEF Spec, OffStaysOff
=============================================================================
