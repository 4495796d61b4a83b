---------------------------- MODULE HdrReadback -----------------------------
(***************************************************************************)
(* The read-back pipeline of Isp20PollThread.  The sensor writes each      *)
(* exposure of a frame through its own MIPI tx device; one poll thread per *)
(* device collects the buffers, sync_tx_buf pairs them by sequence and     *)
(* trigger_readback, called by these threads and by the luma thread, hands *)
(* them to the rx devices and tells the ISP to read them.  A second poll   *)
(* thread per device gives a buffer back to capture when the ISP is done.  *)
(* Left out: the number of read-backs, timestamps and raw dumps.           *)
(*                                                                         *)
(* trigger_readback is one step: it runs under _mipi_trigger_mutex, and    *)
(* what the rx threads do meanwhile to one device commutes with what it    *)
(* does to the others.                                                     *)
(***************************************************************************)
EXTENDS Naturals, FiniteSets, Sequences, SequencesExt, FiniteSetsExt

CONSTANTS
    NDev,           \* _mipi_dev_max: 1 normal, 2 and 3 for HDR
    Bufs,           \* buffer indices of each tx and each rx device
    MaxSeq,         \* bound: frames the sensor delivers between two starts
    NeedLuma,       \* HDR mode with _need_luma_rd_info
    LumaMayDrop,    \* the luma statistics of a frame may be lost
    ParamsMayFail,  \* setIspParamsSync may fail
    QueueMayFail,   \* VIDIOC_QBUF on an rx device may fail
    MaxFlip         \* bound on skip_frm_cnt, 0: no mirror/flip calls

ASSUME HdrAssumption ==
    /\ NDev \in Nat \ {0}
    /\ IsFiniteSet(Bufs)
    /\ MaxSeq \in Nat
    /\ MaxFlip \in Nat
    /\ {NeedLuma, LumaMayDrop, ParamsMayFail, QueueMayFail} \subseteq BOOLEAN

Devs == 1..NDev
Frames == 1..MaxSeq
TxBuf == [seq : Frames, buf : Bufs]
RxBuf == [seq : Frames, buf : Bufs, rx : Bufs]

VARIABLES
    captured,  \* last sequence each tx stream has written or lost
    filled,    \* per device: written buffers the poll thread has not dequeued
    txpc,      \* where each tx poll thread is
    hold,      \* buffers each tx poll thread has references to
    txlist,    \* _isp_mipi_tx_infos[].buf_list
    cache,     \* _isp_mipi_rx_infos[].cache_list
    rxlist,    \* _isp_mipi_rx_infos[].buf_list
    rxq,       \* buffers queued to each rx device and not yet read
    rxdone,    \* buffers the ISP has read, not yet dequeued
    queued,    \* rx indices whose V4l2Buffer::_queued is set
    closing,   \* rx indices each rx poll thread has dequeued and not returned
    isp,       \* frames triggered and not yet read
    ready,     \* keys of _isp_hdr_fid2ready_map
    luma,      \* keys of _isp_hdr_fid2times_map
    lumaSeq,   \* last frame whose luma was analyzed
    lumaPc,    \* the luma thread between its insertion and its trigger
    skip,      \* _skip_num, _skip_to_seq; history: from, and frames below it
    fate,      \* history: what became of each frame
    missed,    \* history: rx get_buffer found no free index
    unqueued   \* history: an rx queue_buffer failed

vars == <<captured, filled, txpc, hold, txlist, cache, rxlist, rxq, rxdone,
          queued, closing, isp, ready, luma, lumaSeq, lumaPc, skip, fate,
          missed, unqueued>>
capture == <<captured, filled>>
tx == <<txpc, hold, txlist>>
rx == <<rxlist, rxq, rxdone, queued, closing, isp>>
analysis == <<lumaSeq, lumaPc>>
history == <<missed, unqueued>>

BufsIn(s) == {s[i].buf : i \in DOMAIN s}
SeqsOf(s) == [i \in DOMAIN s |-> s[i].seq]

\* A tx buffer goes back to the driver when its last V4l2BufferProxy dies.
Free(d) ==
    Bufs \ (BufsIn(filled[d]) \cup BufsIn(txlist[d]) \cup BufsIn(cache[d])
              \cup BufsIn(rxlist[d])
              \cup UNION {{h.buf : h \in {k \in hold[t] : k.dev = d}}
                              : t \in Devs})

TypeOK ==
    /\ captured \in [Devs -> 0..MaxSeq]
    /\ filled \in [Devs -> Seq(TxBuf)]
    /\ txpc \in [Devs -> {"poll", "sync", "mark", "trigger"}]
    /\ hold \in [Devs -> SUBSET [dev : Devs, seq : Frames, buf : Bufs]]
    /\ txlist \in [Devs -> Seq(TxBuf)]
    /\ cache \in [Devs -> Seq(TxBuf)]
    /\ rxlist \in [Devs -> Seq(TxBuf)]
    /\ rxq \in [Devs -> Seq(RxBuf)]
    /\ rxdone \in [Devs -> Seq(RxBuf)]
    /\ queued \in [Devs -> SUBSET Bufs]
    /\ closing \in [Devs -> SUBSET Bufs]
    /\ isp \in Seq(Frames)
    /\ ready \subseteq Frames
    /\ luma \subseteq Frames
    /\ lumaSeq \in 0..MaxSeq
    /\ lumaPc \in {"wait", "trigger"}
    /\ skip \in [num : 0..MaxFlip, from : 0..MaxSeq, to : 0..MaxSeq + MaxFlip,
                 old : 0..MaxFlip]
    /\ fate \in [Frames -> {"none", "read", "dropped"}]
    /\ missed \in BOOLEAN
    /\ unqueued \in BOOLEAN

NoSkip == [num |-> 0, from |-> 0, to |-> 0, old |-> 0]
Empty == [d \in Devs |-> <<>>]

Init ==
    /\ captured = [d \in Devs |-> 0]
    /\ filled = Empty
    /\ txpc = [d \in Devs |-> "poll"]
    /\ hold = [d \in Devs |-> {}]
    /\ txlist = Empty
    /\ cache = Empty
    /\ rxlist = Empty
    /\ rxq = Empty
    /\ rxdone = Empty
    /\ queued = [d \in Devs |-> {}]
    /\ closing = [d \in Devs |-> {}]
    /\ isp = <<>>
    /\ ready = {}
    /\ luma = {}
    /\ lumaSeq = 0
    /\ lumaPc = "wait"
    /\ skip = NoSkip
    /\ fate = [f \in Frames |-> "none"]
    /\ missed = FALSE
    /\ unqueued = FALSE

-----------------------------------------------------------------------------
(* The capture driver: a stream without an empty buffer loses the frame.   *)

Capture(d) ==
    /\ captured[d] < MaxSeq
    /\ \A e \in Devs : captured[d] <= captured[e]
    /\ captured' = [captured EXCEPT ![d] = @ + 1]
    /\ IF Free(d) = {}
       THEN UNCHANGED filled
       ELSE \E b \in Free(d) :
                filled' = [filled EXCEPT
                    ![d] = Append(@, [seq |-> captured'[d], buf |-> b])]
    /\ UNCHANGED <<tx, cache, rx, ready, luma, analysis, skip, fate, history>>

-----------------------------------------------------------------------------
(* trigger_readback. *)

\* match_lumadetect_map: forget the infos up to f; an info of a later frame
\* means that the one of f is never going to come.
LumaKnown(f) == ~NeedLuma \/ \E g \in luma : g >= f
PruneLuma(f) == luma' = IF NeedLuma THEN {g \in luma : g > f} ELSE luma

\* Mutant: a frame without parameters leaves its buffers in the caches.
DropFrameKeeps(f) ==
    /\ ParamsMayFail
    /\ fate' = [fate EXCEPT ![f] = "dropped"]
    /\ UNCHANGED <<cache, rx, history>>

\* setIspParamsSync failed: give the frame's buffers back to capture.
DropFrame(f) ==
    /\ ParamsMayFail
    /\ cache' = [d \in Devs |-> Tail(cache[d])]
    /\ fate' = [fate EXCEPT ![f] = "dropped"]
    /\ UNCHANGED <<rx, history>>

\* V4l2Device::get_buffer: the index of the tx buffer, or any unqueued one.
RxIndices(d) ==
    LET b == Head(cache[d]).buf IN IF b \notin queued[d] THEN {b}
                                   ELSE Bufs \ queued[d]

\* Mutant: nothing keeps a reference to the buffer that the ISP will read.
MoveToRxForgets(moved) ==
    /\ cache' = [d \in Devs |-> IF d \in moved THEN Tail(cache[d]) ELSE cache[d]]
    /\ rxlist' = rxlist

MoveToRx(moved) ==
    /\ cache' = [d \in Devs |-> IF d \in moved THEN Tail(cache[d]) ELSE cache[d]]
    /\ rxlist' = [d \in Devs |-> IF d \in moved
                                 THEN Append(rxlist[d], Head(cache[d]))
                                 ELSE rxlist[d]]

QueueRx(indices, sent) ==
    /\ rxq' = [d \in Devs |-> IF d \in sent
                  THEN Append(rxq[d], [seq |-> Head(cache[d]).seq,
                                       buf |-> Head(cache[d]).buf,
                                       rx |-> indices[d]])
                  ELSE rxq[d]]
    /\ queued' = [d \in Devs |-> IF d \in sent THEN queued[d] \cup {indices[d]}
                                              ELSE queued[d]]

\* get_buffer fails on a device: the devices before it keep what they moved.
NoRxBuffer(f) ==
    /\ \E d \in Devs :
          /\ RxIndices(d) = {}
          /\ \A e \in 1..(d - 1) : RxIndices(e) # {}
          /\ MoveToRx(1..(d - 1))
    /\ missed' = TRUE
    /\ fate' = [fate EXCEPT ![f] = "dropped"]
    /\ UNCHANGED <<rxq, rxdone, queued, closing, isp, unqueued>>

\* queue_buffer fails on a device: the oldest entry of its buf_list goes, the
\* devices after it are not queued and the ISP is not triggered.
QueueFails(f) ==
    /\ QueueMayFail
    /\ \A d \in Devs : RxIndices(d) # {}
    /\ \E d \in Devs, indices \in [Devs -> Bufs] :
          /\ \A e \in Devs : indices[e] \in RxIndices(e)
          /\ QueueRx(indices, 1..(d - 1))
          /\ cache' = [e \in Devs |-> Tail(cache[e])]
          /\ rxlist' = [e \in Devs |->
                 LET l == Append(rxlist[e], Head(cache[e]))
                 IN IF e = d THEN Tail(l) ELSE l]
    /\ unqueued' = TRUE
    /\ fate' = [fate EXCEPT ![f] = "dropped"]
    /\ UNCHANGED <<rxdone, closing, isp, missed>>

ReadBack(f) ==
    /\ \E indices \in [Devs -> Bufs] :
          /\ \A d \in Devs : indices[d] \in RxIndices(d)
          /\ MoveToRx(Devs)
          /\ QueueRx(indices, Devs)
    /\ isp' = Append(isp, f)
    /\ fate' = [fate EXCEPT ![f] = "read"]
    /\ UNCHANGED <<rxdone, closing, history>>

\* Mutant: the newest ready frame is tried.
TriggerNewest ==
    IF ready = {}
    THEN UNCHANGED <<ready, luma, cache, rx, fate, history>>
    ELSE LET f == Max(ready) IN
         /\ PruneLuma(f)
         /\ IF LumaKnown(f)
            THEN /\ ready' = ready \ {f}
                 /\ DropFrame(f) \/ NoRxBuffer(f) \/ QueueFails(f) \/ ReadBack(f)
            ELSE UNCHANGED <<ready, cache, rx, fate, history>>

\* The lowest ready frame, and only that one, is tried.
TriggerReadback ==
    IF ready = {}
    THEN UNCHANGED <<ready, luma, cache, rx, fate, history>>
    ELSE LET f == Min(ready) IN
         /\ PruneLuma(f)
         /\ IF LumaKnown(f)
            THEN /\ ready' = ready \ {f}
                 /\ DropFrame(f) \/ NoRxBuffer(f) \/ QueueFails(f) \/ ReadBack(f)
            ELSE UNCHANGED <<ready, cache, rx, fate, history>>

-----------------------------------------------------------------------------
(* The tx poll threads: dequeue, handle_tx_buf, sync_tx_buf.               *)

\* No thread is inside sync_tx_buf (_mipi_buf_mutex is free).
SyncFree == \A d \in Devs : txpc[d] \notin {"mark", "trigger"}

TxPush(d) ==
    /\ txpc[d] = "poll"
    /\ filled[d] # <<>>
    /\ filled' = [filled EXCEPT ![d] = Tail(@)]
    /\ txlist' = [txlist EXCEPT ![d] = Append(@, Head(filled[d]))]
    /\ hold' = [hold EXCEPT ![d] = {[dev |-> d, seq |-> Head(filled[d]).seq,
                                     buf |-> Head(filled[d]).buf]}]
    /\ txpc' = [txpc EXCEPT ![d] = "sync"]
    /\ UNCHANGED <<captured, cache, rx, ready, luma, analysis, skip, fate, history>>

Heads == {[dev |-> d, seq |-> Head(txlist[d]).seq, buf |-> Head(txlist[d]).buf]
              : d \in Devs}
\* Mutant: the sequences of the heads are not compared.
CompleteAnySeq == \A d \in Devs : txlist[d] # <<>>

Complete ==
    /\ \A d \in Devs : txlist[d] # <<>>
    /\ Cardinality({h.seq : h \in Heads}) = 1

\* Some list is empty, or the heads are of different frames: nothing moves.
SyncNothing(d) ==
    /\ txpc[d] = "sync"
    /\ SyncFree
    /\ ~Complete
    /\ txpc' = [txpc EXCEPT ![d] = "poll"]
    /\ hold' = [hold EXCEPT ![d] = {}]
    /\ UNCHANGED <<capture, txlist, cache, rx, ready, luma, analysis, skip,
                   fate, history>>

\* Mutant: the skip window ends one frame early.
SkippedShort(f) == skip.num > 0 /\ f + 1 < skip.to

\* check_skip_frame.
Skipped(f) == skip.num > 0 /\ f < skip.to

SyncSkip(d) ==
    /\ txpc[d] = "sync"
    /\ SyncFree
    /\ Complete
    /\ LET f == Head(txlist[d]).seq IN
       /\ Skipped(f)
       /\ skip' = [skip EXCEPT !.num = @ - 1,
                               !.old = IF f < skip.from THEN @ + 1 ELSE @]
       /\ fate' = [fate EXCEPT ![f] = "dropped"]
    /\ txlist' = [e \in Devs |-> Tail(txlist[e])]
    /\ txpc' = [txpc EXCEPT ![d] = "poll"]
    /\ hold' = [hold EXCEPT ![d] = {}]
    /\ UNCHANGED <<capture, cache, rx, ready, luma, analysis, history>>

SyncMatch(d) ==
    /\ txpc[d] = "sync"
    /\ SyncFree
    /\ Complete
    /\ ~Skipped(Head(txlist[d]).seq)
    /\ txlist' = [e \in Devs |-> Tail(txlist[e])]
    /\ cache' = [e \in Devs |-> Append(cache[e], Head(txlist[e]))]
    /\ hold' = [hold EXCEPT ![d] = @ \cup Heads]
    /\ txpc' = [txpc EXCEPT ![d] = "mark"]
    /\ UNCHANGED <<capture, rx, ready, luma, analysis, skip, fate, history>>

\* The frame a thread in "mark" has just cached.
Marking(d) == Last(cache[d]).seq

MarkReady(d) ==
    /\ txpc[d] = "mark"
    /\ ready' = ready \cup {Marking(d)}
    /\ txpc' = [txpc EXCEPT ![d] = "trigger"]
    /\ UNCHANGED <<capture, hold, txlist, cache, rx, luma, analysis, skip, fate,
                   history>>

\* Mutant: sync_tx_buf leaves the trigger to the luma thread.
TxTriggerNever(d) ==
    /\ txpc[d] = "trigger"
    /\ txpc' = [txpc EXCEPT ![d] = "poll"]
    /\ hold' = [hold EXCEPT ![d] = {}]
    /\ UNCHANGED <<capture, txlist, cache, rx, ready, luma, analysis, skip,
                   fate, history>>

TxTrigger(d) ==
    /\ txpc[d] = "trigger"
    /\ TriggerReadback
    /\ txpc' = [txpc EXCEPT ![d] = "poll"]
    /\ hold' = [hold EXCEPT ![d] = {}]
    /\ UNCHANGED <<capture, txlist, analysis, skip>>

-----------------------------------------------------------------------------
(* set_hdr_frame_readback_infos, on the luma thread.                       *)

LumaInfo(f) ==
    /\ NeedLuma
    /\ lumaPc = "wait"
    /\ IF LumaMayDrop THEN f > lumaSeq ELSE f = lumaSeq + 1
    /\ \E d \in Devs : f <= captured[d]
    /\ luma' = luma \cup {f}
    /\ lumaSeq' = f
    /\ lumaPc' = "trigger"
    /\ UNCHANGED <<capture, tx, cache, rx, ready, skip, fate, history>>

LumaTrigger ==
    /\ lumaPc = "trigger"
    /\ TriggerReadback
    /\ lumaPc' = "wait"
    /\ UNCHANGED <<capture, tx, lumaSeq, skip>>

-----------------------------------------------------------------------------
(* The ISP and the rx poll threads.                                        *)

\* The ISP reads the oldest queued buffer of every rx device.
IspRead ==
    /\ isp # <<>>
    /\ isp' = Tail(isp)
    /\ rxq' = [d \in Devs |-> Tail(rxq[d])]
    /\ rxdone' = [d \in Devs |-> Append(rxdone[d], Head(rxq[d]))]
    /\ UNCHANGED <<capture, tx, cache, rxlist, queued, closing, ready, luma,
                   analysis, skip, fate, history>>

\* Mutant: the rx buffer is remembered by its sequence, not by its index.
RxDequeueBySeq(d) ==
    /\ closing[d] = {}
    /\ rxdone[d] # <<>>
    /\ rxdone' = [rxdone EXCEPT ![d] = Tail(@)]
    /\ closing' = [closing EXCEPT ![d] = {Head(rxdone[d]).seq}]
    /\ rxlist' = [rxlist EXCEPT ![d] = IF @ = <<>> THEN @ ELSE Tail(@)]
    /\ UNCHANGED <<capture, tx, cache, rxq, queued, isp, ready, luma, analysis,
                   skip, fate, history>>

\* dequeue_buffer and handle_rx_buf: the oldest tx buffer is given back, the
\* rx index stays marked as queued until the proxy dies at the end of loop.
RxDequeue(d) ==
    /\ closing[d] = {}
    /\ rxdone[d] # <<>>
    /\ rxdone' = [rxdone EXCEPT ![d] = Tail(@)]
    /\ closing' = [closing EXCEPT ![d] = {Head(rxdone[d]).rx}]
    /\ rxlist' = [rxlist EXCEPT ![d] = IF @ = <<>> THEN @ ELSE Tail(@)]
    /\ UNCHANGED <<capture, tx, cache, rxq, queued, isp, ready, luma, analysis,
                   skip, fate, history>>

RxReturn(d) ==
    /\ closing[d] # {}
    /\ queued' = [queued EXCEPT ![d] = @ \ closing[d]]
    /\ closing' = [closing EXCEPT ![d] = {}]
    /\ UNCHANGED <<capture, tx, cache, rxlist, rxq, rxdone, isp, ready, luma,
                   analysis, skip, fate, history>>

-----------------------------------------------------------------------------
(* skip_frames: setSensorFlip asks for n frames from the current SOF on.   *)
SkipFrames(n) ==
    /\ n \in 1..MaxFlip
    /\ skip.to = 0        \* bound: one mirror/flip call between two starts
    /\ \E s \in LET last == Max({captured[d] : d \in Devs})
                IN {last, last + 1} \cap 0..MaxSeq :
          skip' = [num |-> n, from |-> s, to |-> s + n, old |-> 0]
    /\ UNCHANGED <<capture, tx, cache, rx, ready, luma, analysis, fate, history>>

\* Isp20PollThread::stop, the stop of the devices and the next start.  The
\* poll threads are joined and the luma thread was stopped before.
StopStart ==
    /\ \A d \in Devs : txpc[d] = "poll" /\ closing[d] = {}
    /\ lumaPc = "wait"
    /\ captured' = [d \in Devs |-> 0]
    /\ filled' = Empty
    /\ hold' = [d \in Devs |-> {}]
    /\ txlist' = Empty
    /\ cache' = Empty
    /\ rxlist' = Empty
    /\ rxq' = Empty
    /\ rxdone' = Empty
    /\ queued' = [d \in Devs |-> {}]
    /\ isp' = <<>>
    /\ ready' = {}
    /\ luma' = {}
    /\ lumaSeq' = 0
    /\ skip' = NoSkip
    /\ fate' = [f \in Frames |-> "none"]
    /\ missed' = FALSE
    /\ unqueued' = FALSE
    /\ UNCHANGED <<txpc, lumaPc, closing>>

-----------------------------------------------------------------------------
TxThread(d) ==
    TxPush(d) \/ SyncNothing(d) \/ SyncSkip(d) \/ SyncMatch(d) \/ MarkReady(d)
        \/ TxTrigger(d)
RxThread(d) == RxDequeue(d) \/ RxReturn(d)
LumaThread == LumaTrigger \/ \E f \in Frames : LumaInfo(f)

Next ==
    \/ \E d \in Devs : Capture(d) \/ TxThread(d) \/ RxThread(d)
    \/ LumaThread
    \/ IspRead
    \/ \E n \in 1..MaxFlip : SkipFrames(n)
    \/ StopStart

Spec == Init /\ [][Next]_vars

\* The poll threads and the luma thread run, the sensor streams and the ISP
\* finds an end to what it was told to read.  Stop and flip are the user's.
FairSpec ==
    /\ Spec
    /\ \A d \in Devs : WF_vars(TxThread(d)) /\ WF_vars(RxThread(d))
                                            /\ WF_vars(Capture(d))
    /\ WF_vars(LumaThread)
    /\ WF_vars(IspRead)

-----------------------------------------------------------------------------
(* Properties. *)

Rising(s) == \A i, j \in DOMAIN s : i < j => s[i].seq < s[j].seq
Marked == ready \cup {Marking(t) : t \in {k \in Devs : txpc[k] = "mark"}}

\* What is cached for the ISP is, on every device, exactly the frames marked
\* ready (or about to be) in their order: the front() that trigger_readback
\* takes belongs to the frame it reads.  A failing rx get_buffer breaks it.
CacheMatchesReady ==
    ~missed => \A d \in Devs :
        /\ Rising(cache[d])
        /\ {cache[d][i].seq : i \in DOMAIN cache[d]} = Marked

\* The exposures that the ISP merges are those of the frame it was triggered
\* for, on every device, as long as no rx device refused a buffer.
SameExposure ==
    ~missed /\ ~unqueued => \A d \in Devs : SeqsOf(rxq[d]) = isp

\* A tx buffer is not given back to capture before the ISP has read it: the
\* rx thread pops buf_list by position, not by the index it dequeued.
NoOverwrite ==
    ~unqueued => \A d \in Devs : BufsIn(rxq[d]) \cap Free(d) = {}

\* A frame of the window that a mirror/flip call asked to skip is read only
\* when frames from before the call have used up its skip count.
FlipWindow ==
    [][\A f \in Frames :
          /\ \E d \in Devs : txpc[d] = "sync" /\ txpc'[d] = "mark" /\ Marking(d)' = f
          /\ skip.from <= f
          /\ f < skip.to
          => skip.old > 0]_vars

InTx(d, f) == \E s \in {filled[d], txlist[d]} : \E i \in DOMAIN s : s[i].seq = f
\* A frame that one device has and another one lost blocks the pairing.
TornBefore(f) ==
    \E g \in 1..(f - 1), d, e \in Devs :
        InTx(d, g) /\ captured[e] >= g /\ ~InTx(e, g)

\* A frame captured by every device is read or dropped in the end, unless an
\* earlier frame was lost on some devices only or the stream is restarted.
EveryFrameServed ==
    \A f \in Frames :
        (\A d \in Devs : InTx(d, f))
            ~> (\/ fate[f] # "none" \/ TornBefore(f)
                \/ \E d \in Devs : captured[d] < f)

\* Frames are read in the order of their sequences, each at most once.
stage == [f \in Frames |-> IF fate[f] # "none" THEN fate[f]
                           ELSE IF f \in ready THEN "ready" ELSE "new"]
Lifecycle == INSTANCE FrameLifecycle WITH Frames <- Frames, stage <- stage
LifecycleSpec == Lifecycle!Spec
=============================================================================
