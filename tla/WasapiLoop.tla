----------------------------- MODULE WasapiLoop -----------------------------
(***************************************************************************)
(* wasapi_io_loop of wasapi_backend.rs over one BufferManager: what each   *)
(* block does to the halves and to the capture and render sides, from one  *)
(* start of the stream to the next.  An audio frame is only the age of     *)
(* what it holds.  The KS requests themselves are in module KsStream, the  *)
(* host's calls are in module AsioDriver.                                  *)
(***************************************************************************)
EXTENDS Integers, Sequences, FiniteSets

CONSTANTS
    BufferFrames,   \* buffer_frames
    EndpointFrames, \* GetBufferSize() of the render client
    PacketFrames,   \* the sizes of the capture packets of the engine
    MaxPackets,     \* bound: packets the engine queues
    CaptureModes,   \* the capture paths a start can find: "wasapi", "ks", "none"
    RenderModes,    \* the render paths a start can find: "wasapi", "ks", "none"
    MaxFailures     \* consecutive_failures that count as a lost device

ASSUME LoopAssumption ==
    /\ BufferFrames \in Nat \ {0}
    /\ EndpointFrames \in Nat
    /\ PacketFrames \subseteq Nat \ {0}
    /\ MaxPackets \in Nat
    /\ CaptureModes \subseteq {"wasapi", "ks", "none"}
    /\ RenderModes \subseteq {"wasapi", "ks", "none"}
    /\ MaxFailures \in Nat

VARIABLES
    \* the BufferManager
    activeIndex, \* active_index
    in,          \* the frames of each input half: "silence", "new", "old"
    out,         \* each output half: "silent", "filled", "drained", "dropped"
    \* the loop
    pc,          \* where the thread is
    running,     \* WasapiStream.running
    hwIdx,       \* the index swap_index() returned for this block
    capture,     \* capture_service is some, else ks_cap is some, else neither
    render,      \* the same for rendering
    failures,    \* consecutive_failures
    \* the devices
    packets,     \* the capture packets that wait in the engine
    padding,     \* GetCurrentPadding(): frames the render client still holds
    deviceLost,  \* the capture device is gone: GetNextPacketSize() fails
    stuck,       \* what a device will not do any more: give the capture data
                 \* that waits, take the KS render data, end a KS request
                 \* that is dropped
    notified     \* asio_message(kAsioResetRequest) has been sent

bufferVars == <<activeIndex, in, out>>
deviceVars == <<packets, padding, deviceLost, stuck>>
sessionVars == <<running, capture, render>>
vars == <<bufferVars, deviceVars, sessionVars, pc, hwIdx, failures, notified>>

Half == {0, 1}
Frame == 1..BufferFrames
Least(a, b) == IF a <= b THEN a ELSE b

Silence == [i \in Half |-> [f \in Frame |-> "silence"]]
NoOutput == [i \in Half |-> "silent"]

\* The first n frames of half i hold this block's input, silent or not.
Filled(i, n, tag) ==
    [in EXCEPT ![i] = [f \in Frame |-> IF f <= n THEN tag ELSE in[i][f]]]

Init ==
    /\ activeIndex = 0 /\ in = Silence /\ out = NoOutput
    /\ pc = "stopped" /\ running = FALSE /\ hwIdx = 0
    /\ capture = "none" /\ render = "none"
    /\ failures = 0
    /\ packets = <<>> /\ padding = 0 /\ deviceLost = FALSE /\ stuck = {}
    /\ notified = FALSE

Goto(from, to) == pc = from /\ pc' = to

\* The thread gets nowhere: it goes round the loop over the packets for one
\* that GetBuffer() refuses, or it is in GetOverlappedResult(.., TRUE).
HeldUp ==
    \/ pc = "capture" /\ "capture" \in stuck /\ (capture = "wasapi" => packets # <<>>)
    \/ pc = "render" /\ "render" \in stuck
    \/ pc = "teardown" /\ "drop" \in stuck

-----------------------------------------------------------------------------
(* Start, stop and the devices                                             *)

\* start() spawns the thread, which finds its endpoints, fills one buffer of
\* silence into the render client if it has the room, and enters the loop.
Start ==
    /\ Goto("stopped", "check")
    /\ ~running
    /\ running' = TRUE
    /\ capture' \in CaptureModes
    /\ render' \in RenderModes
    /\ padding' = IF render' = "wasapi" /\ BufferFrames <= EndpointFrames
                  THEN BufferFrames ELSE 0
    /\ failures' = 0
    /\ packets' = <<>> /\ deviceLost' = FALSE /\ stuck' = {} /\ notified' = FALSE
    /\ UNCHANGED <<bufferVars, hwIdx>>

\* createBuffers() between two sessions allocates a new BufferManager; when
\* it finds one of the same size the halves and the index stay as they are.
NewBuffers ==
    /\ pc = "stopped"
    /\ activeIndex' = 0 /\ in' = Silence /\ out' = NoOutput
    /\ UNCHANGED <<deviceVars, sessionVars, pc, hwIdx, failures, notified>>

\* WasapiStream::stop stores the flag.
Stop ==
    /\ running
    /\ running' = FALSE
    /\ UNCHANGED <<bufferVars, deviceVars, pc, hwIdx, capture, render, failures,
                   notified>>

\* The audio engine queues a packet, up to the bound.
PacketArrives ==
    /\ capture = "wasapi" /\ pc # "stopped" /\ ~deviceLost
    /\ Len(packets) < MaxPackets
    /\ \E n \in PacketFrames, silent \in BOOLEAN :
        packets' = Append(packets, [frames |-> n, silent |-> silent])
    /\ UNCHANGED <<bufferVars, padding, deviceLost, stuck, sessionVars, pc, hwIdx,
                   failures, notified>>

\* The render client plays what it holds.
DevicePlays ==
    /\ padding > 0
    /\ padding' \in 0..padding - 1
    /\ UNCHANGED <<bufferVars, packets, deviceLost, stuck, sessionVars, pc, hwIdx,
                   failures, notified>>

DeviceRemoved ==
    /\ capture = "wasapi" /\ pc # "stopped" /\ ~deviceLost
    /\ deviceLost' = TRUE
    /\ packets' = <<>>
    /\ UNCHANGED <<bufferVars, padding, stuck, sessionVars, pc, hwIdx, failures,
                   notified>>

\* From now on a device no longer does one of its parts for this session: the
\* capture client refuses what waits (GetBuffer() fails, or gives null or no
\* frames; a refusal that passes is a turn of the loop that changes nothing),
\* or a KS request is never completed.
Stick ==
    /\ pc # "stopped"
    /\ \E part \in {"capture", "render", "drop"} \ stuck :
        /\ part = "capture" => capture # "none"
        /\ part = "render" => render = "ks"
        /\ part = "drop" => capture = "ks" \/ render = "ks"
        /\ stuck' = stuck \cup {part}
    /\ UNCHANGED <<bufferVars, packets, padding, deviceLost, sessionVars, pc, hwIdx,
                   failures, notified>>

-----------------------------------------------------------------------------
(* One block                                                               *)

ThreadOnly == UNCHANGED <<deviceVars, sessionVars, notified>>

\* while running.load(..)
LoopCheck ==
    /\ Goto("check", IF running THEN "wait" ELSE "teardown")
    /\ UNCHANGED <<bufferVars, hwIdx, failures>> /\ ThreadOnly

\* The wait is over: the flag is read once more, then the index swaps.  What
\* the halves hold now belongs to earlier blocks.
Swap ==
    /\ UNCHANGED <<out, failures>> /\ ThreadOnly
    /\ \/ ~running /\ Goto("wait", "teardown") /\ UNCHANGED <<activeIndex, hwIdx, in>>
       \/ /\ running /\ Goto("wait", "capture")
          /\ activeIndex' = 1 - activeIndex
          /\ hwIdx' = 1 - activeIndex
          /\ in' = [i \in Half |->
                     [f \in Frame |-> IF in[i][f] = "new" THEN "old" ELSE in[i][f]]]

\* Mutant: no ReleaseBuffer, so that the same packet comes again.
CapturePacket_NoRelease ==
    /\ pc = "capture" /\ capture = "wasapi"
    /\ packets # <<>> /\ ~deviceLost
    /\ in' = Filled(hwIdx, Least(Head(packets).frames, BufferFrames), "new")
    /\ failures' = 0
    /\ UNCHANGED <<activeIndex, out, deviceVars, sessionVars, pc, hwIdx, notified>>

\* One turn of `while let Ok(pkt) = cap.GetNextPacketSize()` in which the client
\* gives the packet: it is copied to the front of the half, and what exceeds
\* the half is left out.  Nobody looks whether ReleaseBuffer() fails; if it
\* does, the client gives no packet any more.
CapturePacket ==
    /\ pc = "capture" /\ capture = "wasapi"
    /\ packets # <<>> /\ ~deviceLost /\ ~HeldUp
    /\ LET p == Head(packets) IN
        in' = Filled(hwIdx, Least(p.frames, BufferFrames),
                     IF p.silent THEN "silence" ELSE "new")
    /\ \/ packets' = Tail(packets) /\ UNCHANGED stuck
       \/ UNCHANGED packets /\ stuck' = stuck \cup {"capture"}
    /\ failures' = 0
    /\ UNCHANGED <<activeIndex, out, padding, deviceLost, sessionVars, pc, hwIdx,
                   notified>>

\* After capture the loop asks whether the device is lost, and if so tells
\* the host and ends.
AfterCapture ==
    IF failures > MaxFailures
    THEN pc' = "teardown" /\ notified' = TRUE
    ELSE pc' = "render" /\ UNCHANGED notified

\* Mutant: ask again for a packet when GetNextPacketSize fails.
CaptureDone_RetryErrors ==
    /\ pc = "capture" /\ capture # "ks" /\ ~deviceLost
    /\ capture = "wasapi" => packets = <<>>
    /\ AfterCapture
    /\ UNCHANGED <<bufferVars, deviceVars, sessionVars, hwIdx, failures>>

CaptureDone ==
    /\ pc = "capture" /\ capture # "ks"
    /\ capture = "wasapi" => packets = <<>>
    /\ AfterCapture
    /\ UNCHANGED <<bufferVars, deviceVars, sessionVars, hwIdx, failures>>

\* Mutant: no zeros behind a short transfer.
KsConsume_NoTail ==
    /\ pc = "capture" /\ capture = "ks"
    /\ \E n \in 0..BufferFrames : in' = Filled(hwIdx, n, "new")
    /\ AfterCapture
    /\ UNCHANGED <<activeIndex, out, deviceVars, sessionVars, hwIdx, failures>>

\* try_consume, once the request is complete: the frames that came and zeros
\* behind them, or, when there is no data or an error, nothing at all.
KsConsume ==
    /\ pc = "capture" /\ capture = "ks" /\ ~HeldUp
    /\ \/ \E n \in 0..BufferFrames :
            in' = [in EXCEPT ![hwIdx] =
                    [f \in Frame |-> IF f <= n THEN "new" ELSE "silence"]]
       \/ UNCHANGED in
    /\ AfterCapture
    /\ UNCHANGED <<activeIndex, out, deviceVars, sessionVars, hwIdx, failures>>

\* Mutant: render the half that is about to be handed to the host.
RenderIdx_Active == hwIdx

RenderIdx == 1 - hwIdx

\* Mutant: write a whole block whenever there is any room.
RenderWasapi_NoMin ==
    /\ render = "wasapi" /\ Goto("render", "callback")
    /\ padding < EndpointFrames /\ padding' = padding + BufferFrames
    /\ out' = [out EXCEPT ![1 - hwIdx] = "drained"]
    /\ UNCHANGED <<activeIndex, in, packets, deviceLost, stuck, sessionVars, hwIdx,
                   failures, notified>>

\* The WASAPI client takes as many frames of the finished half as fit; with no
\* room, or when GetBuffer fails, the half has had its turn for nothing.
RenderWasapi ==
    /\ render = "wasapi" /\ Goto("render", "callback")
    /\ LET toWrite == Least(IF padding >= EndpointFrames THEN 0
                            ELSE EndpointFrames - padding, BufferFrames) IN
       \/ /\ toWrite > 0
          /\ padding' = padding + toWrite
          /\ out' = [out EXCEPT ![RenderIdx] = "drained"]
       \/ /\ UNCHANGED padding
          /\ out' = [out EXCEPT ![RenderIdx] = "dropped"]
    /\ UNCHANGED <<activeIndex, in, packets, deviceLost, stuck, sessionVars, hwIdx,
                   failures, notified>>

\* write_samples, once the write before is complete, converts the whole half;
\* without a render path it is dropped.
RenderOther ==
    /\ render # "wasapi" /\ ~HeldUp /\ Goto("render", "callback")
    /\ out' = [out EXCEPT ![RenderIdx] = IF render = "ks" THEN "drained" ELSE "dropped"]
    /\ UNCHANGED <<activeIndex, in, hwIdx, failures>> /\ ThreadOnly

\* The host reads the input half and fills the output half of hw_idx.
BufferSwitch ==
    /\ Goto("callback", "check")
    /\ out' = [out EXCEPT ![hwIdx] = "filled"]
    /\ UNCHANGED <<activeIndex, in, hwIdx, failures>> /\ ThreadOnly

\* The clients stop, the KS requests are dropped and the thread ends; stop()
\* joins it.
Teardown ==
    /\ Goto("teardown", "stopped") /\ ~HeldUp
    /\ packets' = <<>> /\ padding' = 0
    /\ UNCHANGED <<bufferVars, deviceLost, stuck, sessionVars, hwIdx, failures,
                   notified>>

-----------------------------------------------------------------------------

Block ==
    \/ LoopCheck
    \/ Swap
    \/ CapturePacket
    \/ CaptureDone
    \/ KsConsume
    \/ RenderWasapi
    \/ RenderOther
    \/ BufferSwitch
    \/ Teardown

Next ==
    \/ Start
    \/ NewBuffers
    \/ Stop
    \/ PacketArrives
    \/ DevicePlays
    \/ DeviceRemoved
    \/ Stick
    \/ Block

Spec == Init /\ [][Next]_vars

\* The thread runs: its wait has a time-out and the callback returns.  The loop
\* over the packets is faster than the engine, so that it finds the queue empty
\* in the end.  Nothing makes the host start or stop, packets come, or a device
\* that is stuck go on.
FairSpec == Spec /\ WF_vars(Block) /\ SF_vars(CaptureDone)

-----------------------------------------------------------------------------
(* Properties                                                              *)

\* Every variable has its type; in particular the render client is never
\* asked for more frames than the room it has left (lines 728 to 731).
TypeOK ==
    /\ activeIndex \in Half /\ hwIdx \in Half
    /\ in \in [Half -> [Frame -> {"silence", "new", "old"}]]
    /\ out \in [Half -> {"silent", "filled", "drained", "dropped"}]
    /\ pc \in {"stopped", "check", "wait", "capture", "render", "callback",
               "teardown"}
    /\ running \in BOOLEAN /\ deviceLost \in BOOLEAN /\ notified \in BOOLEAN
    /\ capture \in CaptureModes \cup {"none"} /\ render \in RenderModes \cup {"none"}
    /\ failures \in 0..MaxFailures + 1
    /\ packets \in Seq([frames : PacketFrames, silent : BOOLEAN])
    /\ Len(packets) <= MaxPackets
    /\ padding \in 0..EndpointFrames /\ stuck \subseteq {"capture", "render", "drop"}

\* On the KS path a block that brings any new frame brings nothing of an
\* earlier block behind them, nor of an earlier session (lines 204 to 207).
KsWholeBlock ==
    pc = "callback" /\ capture = "ks" =>
        LET held == {in[hwIdx][f] : f \in Frame} IN "new" \in held => "old" \notin held

\* The halves take turns as the header of buffer_manager.rs has it: each half
\* the host fills is offered to the device once, before the host gets the
\* other one, and across a restart too (lines 663, 664, 726 to 770, 775).
Taken == pc \in {"capture", "render", "callback"}
PP == INSTANCE PingPong WITH
        turn <- IF Taken THEN 1 - activeIndex ELSE activeIndex,
        owed <- \E i \in Half : out[i] = "filled"
PingPongSpec == PP!PPSpec

\* While the loop runs the host is called again and again, whichever capture
\* and render paths were found and also when the device has gone, unless the
\* thread is held up for good: by a packet that GetBuffer() refuses (670 to
\* 675) or a KS request that is never completed (155, 263).
CallbacksKeepComing == running ~> (pc = "callback" \/ ~running \/ []HeldUp)

\* After stop() stores the flag the thread ends, so that join returns, with the
\* same exceptions and one more, a KS request that is not completed even when
\* it is cancelled (80 to 85, 227 to 232).
StopEnds == ~running ~> (pc = "stopped" \/ []HeldUp)

\* What the log line at 718 says of a lost device ("Device lost -- notifying
\* host kAsioResetRequest"): the host hears of it, or stops first.
DeviceLostReported == deviceLost ~> (notified \/ ~running)

=============================================================================
