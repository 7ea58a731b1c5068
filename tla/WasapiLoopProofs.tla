-------------------------- MODULE WasapiLoopProofs --------------------------
(***************************************************************************)
(* For any block size, render client and packets: the loop implements the  *)
(* double buffer of module PingPong, and the block a KS transfer brings is *)
(* whole.  The argument for both follows one block through the program     *)
(* counter of the thread.                                                  *)
(***************************************************************************)
EXTENDS WasapiLoop, TLAPS

USE LoopAssumption DEF Half, Frame

\* The steps of a block that only the thread sees keep the type.
LEMMA FilledType ==
    ASSUME NEW i \in Half, NEW n, NEW tag \in {"silence", "new", "old"},
           in \in [Half -> [Frame -> {"silence", "new", "old"}]]
    PROVE  Filled(i, n, tag) \in [Half -> [Frame -> {"silence", "new", "old"}]]
BY DEF Filled

\* Initially every variable has its type.
LEMMA InitTypeOK == Init => TypeOK
BY DEF Init, TypeOK, Silence, NoOutput

\* Start, stop and the devices keep the types.
LEMMA OutsideTypeOK ==
    ASSUME TypeOK,
           \/ Start
           \/ NewBuffers
           \/ Stop
           \/ PacketArrives
           \/ DevicePlays
           \/ DeviceRemoved
           \/ Stick
    PROVE  TypeOK'
<1> USE DEF TypeOK, Goto, bufferVars, deviceVars, sessionVars
<1>1. CASE Start
  <2> USE <1>1 DEF Start
  <2>1. packets' \in Seq([frames : PacketFrames, silent : BOOLEAN]) /\ Len(packets') <= MaxPackets
    OBVIOUS
  <2>2. padding' \in 0..EndpointFrames
    OBVIOUS
  <2>3. UNCHANGED <<activeIndex, in, out, hwIdx>>
    OBVIOUS
  <2>4. pc' = "check" /\ running' = TRUE /\ capture' \in CaptureModes /\ render' \in RenderModes
    OBVIOUS
  <2>5. stuck' = {}
    OBVIOUS
  <2>6. failures' = 0 /\ deviceLost' = FALSE /\ notified' = FALSE /\ 0 \in 0..MaxFailures + 1
    OBVIOUS
  <2> HIDE <1>1 DEF Start, Goto
  <2> QED
    BY <2>1, <2>2, <2>3, <2>4, <2>5, <2>6
<1>2. CASE NewBuffers
  BY <1>2 DEF NewBuffers, Silence, NoOutput
<1>3. CASE Stop
  BY <1>3 DEF Stop
<1>4. CASE PacketArrives
  BY <1>4 DEF PacketArrives
<1>5. CASE DevicePlays
  BY <1>5 DEF DevicePlays
<1>6. CASE DeviceRemoved
  BY <1>6 DEF DeviceRemoved
<1>7. CASE Stick
  BY <1>7 DEF Stick
<1> QED
  BY <1>1, <1>2, <1>3, <1>4, <1>5, <1>6, <1>7

\* The capture side of a block keeps the types.
LEMMA CaptureTypeOK ==
    ASSUME TypeOK, CapturePacket \/ CaptureDone \/ KsConsume
    PROVE  TypeOK'
<1> USE DEF TypeOK, AfterCapture, bufferVars, deviceVars, sessionVars
<1>1. CASE CapturePacket
  <2>1. in' \in [Half -> [Frame -> {"silence", "new", "old"}]]
    BY <1>1, FilledType DEF CapturePacket
  <2>2. /\ packets' \in Seq([frames : PacketFrames, silent : BOOLEAN])
        /\ Len(packets') <= MaxPackets
    BY <1>1 DEF CapturePacket
  <2>3. stuck' \subseteq {"capture", "render", "drop"}
    BY <1>1 DEF CapturePacket
  <2>4. /\ UNCHANGED <<activeIndex, out, padding, deviceLost, running, capture, render,
                       pc, hwIdx, notified>>
        /\ failures' = 0
    BY <1>1 DEF CapturePacket
  <2> QED
    BY <2>1, <2>2, <2>3, <2>4
<1>2. CASE CaptureDone
  BY <1>2 DEF CaptureDone
<1>3. CASE KsConsume
  <2>1. in' \in [Half -> [Frame -> {"silence", "new", "old"}]]
    <3>1. CASE UNCHANGED in
      BY <3>1
    <3>2. ASSUME NEW n \in 0..BufferFrames,
                 in' = [in EXCEPT ![hwIdx] =
                         [f \in Frame |-> IF f <= n THEN "new" ELSE "silence"]]
          PROVE  in' \in [Half -> [Frame -> {"silence", "new", "old"}]]
      BY <3>2
    <3> QED
      BY <1>3, <3>1, <3>2 DEF KsConsume
  <2>2. pc' \in {"render", "teardown"} /\ notified' \in BOOLEAN
    BY <1>3 DEF KsConsume
  <2>3. UNCHANGED <<activeIndex, out, packets, padding, deviceLost, running, capture,
                    render, hwIdx, failures, stuck>>
    BY <1>3 DEF KsConsume
  <2> QED
    BY <2>1, <2>2, <2>3
<1> QED
  BY <1>1, <1>2, <1>3

\* The rest of a block keeps the types.
LEMMA BlockTypeOK ==
    ASSUME TypeOK,
           \/ LoopCheck
           \/ Swap
           \/ RenderWasapi
           \/ RenderOther
           \/ BufferSwitch
           \/ Teardown
    PROVE  TypeOK'
<1> USE DEF TypeOK, Goto, ThreadOnly, bufferVars, deviceVars, sessionVars
<1>1. CASE LoopCheck
  BY <1>1 DEF LoopCheck
<1>2. CASE Swap
  BY <1>2 DEF Swap
<1>3. CASE RenderWasapi
  BY <1>3 DEF RenderWasapi, RenderIdx, Least
<1>4. CASE RenderOther
  BY <1>4 DEF RenderOther, RenderIdx
<1>5. CASE BufferSwitch
  BY <1>5 DEF BufferSwitch
<1>6. CASE Teardown
  BY <1>6 DEF Teardown
<1> QED
  BY <1>1, <1>2, <1>3, <1>4, <1>5, <1>6

\* Every step keeps the types.
LEMMA StepTypeOK == TypeOK /\ [Next]_vars => TypeOK'
<1> SUFFICES ASSUME TypeOK, [Next]_vars PROVE TypeOK'
  OBVIOUS
<1>1. CASE UNCHANGED vars
  BY <1>1 DEF vars, bufferVars, deviceVars, sessionVars, TypeOK
<1> QED
  BY <1>1, OutsideTypeOK, CaptureTypeOK, BlockTypeOK DEF Next, Block

\* Every variable has its type; the render client is never overfilled.
THEOREM TypeCorrect == Spec => []TypeOK
BY InitTypeOK, StepTypeOK, PTL DEF Spec

-----------------------------------------------------------------------------
(* The double buffer                                                       *)

\* During a block hw_idx is the active index; no half waits for the device but
\* the one whose turn it is, and from the render step on none does; the loop
\* never counts a failure.
TurnInv ==
    /\ Taken => hwIdx = activeIndex
    /\ \A i \in Half : out[i] = "filled" =>
            /\ i = IF Taken THEN 1 - activeIndex ELSE activeIndex
            /\ pc # "callback"
    /\ failures = 0

\* On the KS path a block starts without new frames, and what it brings is
\* whole.
WholeInv ==
    capture = "ks" =>
        /\ pc = "capture" => \A f \in Frame : in[hwIdx][f] # "new"
        /\ pc \in {"render", "callback"} =>
               \A f, g \in Frame : ~(in[hwIdx][f] = "new" /\ in[hwIdx][g] = "old")

IInv == TypeOK /\ TurnInv /\ WholeInv

LEMMA InitIInv == Init => IInv
<1> SUFFICES ASSUME Init PROVE IInv
  OBVIOUS
<1>1. TypeOK
  BY InitTypeOK
<1>2. TurnInv /\ WholeInv
  BY DEF Init, TurnInv, WholeInv, Taken, NoOutput
<1> QED
  BY <1>1, <1>2 DEF IInv

\* What a step outside the thread may do to the half whose turn it is: nothing,
\* unless new buffers are allocated while the thread is stopped.
LEMMA OutsideIInv ==
    ASSUME IInv,
           \/ Start
           \/ NewBuffers
           \/ Stop
           \/ PacketArrives
           \/ DevicePlays
           \/ DeviceRemoved
           \/ Stick
    PROVE  IInv' /\ [PP!PPNext]_(PP!ppVars)
<1> USE DEF IInv, PP!PPNext, PP!ppVars, TurnInv, WholeInv, Taken, Goto, bufferVars,
        deviceVars, sessionVars
<1>1. TypeOK'
  BY OutsideTypeOK
<1>2. CASE Start
  BY <1>1, <1>2 DEF Start, TypeOK
<1>3. CASE NewBuffers
  BY <1>1, <1>3 DEF NewBuffers, Silence, NoOutput, PP!Allocate, TypeOK
<1>4. CASE Stop
  BY <1>1, <1>4 DEF Stop
<1>5. CASE PacketArrives \/ DevicePlays \/ DeviceRemoved \/ Stick
  BY <1>1, <1>5 DEF PacketArrives, DevicePlays, DeviceRemoved, Stick
<1> QED
  BY <1>2, <1>3, <1>4, <1>5

\* The flag and the swap give nothing away: the swap moves the index and the
\* place in the block at once.
LEMMA SwapIInv ==
    ASSUME IInv, LoopCheck \/ Swap \/ Teardown
    PROVE  IInv' /\ [PP!PPNext]_(PP!ppVars)
<1> USE DEF IInv, PP!PPNext, PP!ppVars, TurnInv, WholeInv, Taken, Goto, ThreadOnly,
        bufferVars, deviceVars, sessionVars
<1>1. TypeOK'
  BY BlockTypeOK
<1>2. CASE LoopCheck
  BY <1>1, <1>2 DEF LoopCheck
<1>3. CASE Swap
  <2>1. CASE ~running
    BY <1>1, <1>3, <2>1 DEF Swap
  <2>2. CASE running
    <3> USE <1>3, <2>2 DEF Swap
    <3>1. /\ pc = "wait" /\ pc' = "capture" /\ UNCHANGED <<out, failures>>
          /\ activeIndex' = 1 - activeIndex /\ hwIdx' = 1 - activeIndex
      OBVIOUS
    <3>2. \A i \in Half, f \in Frame : in'[i][f] # "new"
      BY DEF TypeOK
    <3>3. TurnInv' /\ UNCHANGED PP!ppVars
      BY <3>1 DEF TypeOK
    <3>4. WholeInv'
      BY <1>1, <3>1, <3>2 DEF TypeOK
    <3> QED
      BY <1>1, <3>3, <3>4
  <2> QED
    BY <2>1, <2>2 DEF TypeOK
<1>4. CASE Teardown
  BY <1>1, <1>4 DEF Teardown
<1> QED
  BY <1>2, <1>3, <1>4

\* Capture touches the input halves only, and never gives up the device.
LEMMA CaptureIInv ==
    ASSUME IInv, CapturePacket \/ CaptureDone \/ KsConsume
    PROVE  IInv' /\ [PP!PPNext]_(PP!ppVars)
<1> USE DEF IInv, PP!PPNext, PP!ppVars, TurnInv, WholeInv, Taken, bufferVars,
        deviceVars, sessionVars
<1>1. TypeOK'
  BY CaptureTypeOK
<1>2. ~(failures > MaxFailures)
  OBVIOUS
<1>3. CASE CapturePacket
  BY <1>1, <1>3 DEF CapturePacket
<1>4. CASE CaptureDone
  BY <1>1, <1>2, <1>4 DEF CaptureDone, AfterCapture
<1>5. CASE KsConsume
  BY <1>1, <1>2, <1>5 DEF KsConsume, AfterCapture, TypeOK
<1> QED
  BY <1>3, <1>4, <1>5

\* Rendering offers the half the host filled, and the callback hands it the
\* other one.
LEMMA RenderIInv ==
    ASSUME IInv, RenderWasapi \/ RenderOther \/ BufferSwitch
    PROVE  IInv' /\ [PP!PPNext]_(PP!ppVars)
<1> USE DEF IInv, PP!PPNext, PP!ppVars, TurnInv, WholeInv, Taken, Goto, ThreadOnly,
        bufferVars, deviceVars, sessionVars
<1>1. TypeOK'
  BY BlockTypeOK
<1>2. CASE RenderWasapi \/ RenderOther
  BY <1>1, <1>2 DEF RenderWasapi, RenderOther, RenderIdx, PP!Offer, TypeOK
<1>3. CASE BufferSwitch
  BY <1>1, <1>3 DEF BufferSwitch, PP!Hand, TypeOK
<1> QED
  BY <1>2, <1>3

\* Every step keeps the invariant and is a step of the abstract double buffer,
\* or none.
LEMMA StepIInv == IInv /\ [Next]_vars => IInv' /\ [PP!PPNext]_(PP!ppVars)
<1> SUFFICES ASSUME IInv, [Next]_vars PROVE IInv' /\ [PP!PPNext]_(PP!ppVars)
  OBVIOUS
<1>1. CASE UNCHANGED vars
  <2>1. TypeOK'
    BY <1>1, StepTypeOK DEF IInv
  <2> QED
    BY <1>1, <2>1 DEF vars, bufferVars, deviceVars, sessionVars, IInv, TurnInv, WholeInv,
                      Taken, PP!ppVars
<1> QED
  BY <1>1, OutsideIInv, SwapIInv, CaptureIInv, RenderIInv DEF Next, Block

\* The invariant that follows a block through the thread.
THEOREM BlockInvariance == Spec => []IInv
BY InitIInv, StepIInv, PTL DEF Spec

\* The loop implements the double buffer of PingPong: every half the host fills
\* is offered to the device once before the host gets the other one.
THEOREM Refinement == Spec => PingPongSpec
<1>1. Init => PP!PPInit
  BY DEF Init, PP!PPInit, NoOutput, Taken
<1> QED
  BY <1>1, InitIInv, StepIInv, PTL DEF Spec, PingPongSpec, PP!PPSpec

\* No frame of an earlier block stands behind the new frames of a KS transfer.
THEOREM WholeBlocks == Spec => []KsWholeBlock
<1>1. IInv => KsWholeBlock
  BY DEF IInv, WholeInv, KsWholeBlock
<1> QED
  BY <1>1, BlockInvariance, PTL

-----------------------------------------------------------------------------
(***************************************************************************)
(* What stop() can count on without fairness.  Once the flag is stored the *)
(* thread finishes the block it is in, calls the host at most once more,   *)
(* and ends, as long as a device lets it: a packet that waits is taken or  *)
(* refused, and with a packet refused or a KS request not completed the    *)
(* thread stays where it is (HeldUp), which nothing but the loss of the    *)
(* capture device changes.                                                 *)
(***************************************************************************)

\* The places that a thread whose flag is FALSE can still go through.
StepsLeft == [stopped |-> 0, teardown |-> 1, check |-> 2, wait |-> 2, callback |-> 3,
              render |-> 4, capture |-> 5]

\* The flag stays FALSE while the thread exists.  A step of the thread brings
\* it nearer to its end, or takes one of the packets that wait, or is the last
\* before the capture client holds it up; nobody else moves it; and one that is
\* held up makes no step until the capture device is gone.
EndsItsBlock ==
    ~running /\ pc # "stopped" =>
        /\ ~running'
        /\ pc' = pc \/ StepsLeft[pc'] < StepsLeft[pc]
        /\ Block => \/ pc' # pc
                    \/ Len(packets') < Len(packets)
                    \/ HeldUp'
        /\ HeldUp => ~Block /\ (HeldUp' \/ deviceLost')

\* The steps of the thread.
LEMMA ThreadEnds ==
    ASSUME TypeOK, Block, ~running
    PROVE  /\ ~running'
           /\ \/ StepsLeft[pc'] < StepsLeft[pc]
              \/ pc' = pc /\ Len(packets') < Len(packets)
              \/ pc' = pc /\ HeldUp'
<1> USE DEF Goto, StepsLeft, sessionVars, ThreadOnly
<1>1. CASE LoopCheck \/ Swap
  BY <1>1 DEF LoopCheck, Swap
<1>2. CASE CapturePacket
  <2>1. packets \in Seq([frames : PacketFrames, silent : BOOLEAN]) /\ packets # <<>>
    BY <1>2 DEF CapturePacket, TypeOK
  <2>2. Len(Tail(packets)) < Len(packets)
    BY <2>1
  <2>3. CASE packets' = Tail(packets)
    BY <1>2, <2>2, <2>3 DEF CapturePacket
  <2>4. CASE packets' = packets /\ stuck' = stuck \cup {"capture"}
    BY <1>2, <2>1, <2>4 DEF CapturePacket, HeldUp
  <2> QED
    BY <1>2, <2>3, <2>4 DEF CapturePacket
<1>3. CASE CaptureDone \/ KsConsume
  BY <1>3 DEF CaptureDone, KsConsume, AfterCapture
<1>4. CASE RenderWasapi \/ RenderOther
  BY <1>4 DEF RenderWasapi, RenderOther
<1>5. CASE BufferSwitch \/ Teardown
  BY <1>5 DEF BufferSwitch, Teardown
<1> QED
  BY <1>1, <1>2, <1>3, <1>4, <1>5 DEF Block

\* Only a side that is used can be stuck.
StuckInv ==
    /\ "capture" \in stuck => capture # "none"
    /\ "render" \in stuck => render = "ks"

\* A start frees both sides, and whatever sticks is in use.
LEMMA StepStuckInv == StuckInv /\ [Next]_vars => StuckInv'
<1> SUFFICES ASSUME StuckInv, [Next]_vars PROVE StuckInv'
  OBVIOUS
<1> USE DEF StuckInv, deviceVars, sessionVars, ThreadOnly
<1>1. CASE Start
  BY <1>1 DEF Start
<1>2. CASE Stick
  BY <1>2 DEF Stick
<1>3. CASE CapturePacket
  BY <1>3 DEF CapturePacket
<1>4. ASSUME UNCHANGED <<stuck, capture, render>>
      PROVE  StuckInv'
  BY <1>4
<1>5. Next => \/ Start \/ Stick \/ CapturePacket
              \/ UNCHANGED <<stuck, capture, render>>
  BY DEF Next, Block, NewBuffers, Stop, PacketArrives, DevicePlays, DeviceRemoved,
         LoopCheck, Swap, CaptureDone, KsConsume, RenderWasapi, RenderOther,
         BufferSwitch, Teardown
<1> QED
  BY <1>1, <1>2, <1>3, <1>4, <1>5 DEF vars

\* A thread that is held up takes no step.
LEMMA HeldUpStays ==
    ASSUME TypeOK, StuckInv, HeldUp
    PROVE  ~Block
<1> USE DEF HeldUp, Goto, StuckInv
<1>1. ~LoopCheck /\ ~Swap /\ ~BufferSwitch
  BY DEF LoopCheck, Swap, BufferSwitch
<1>2. ~CapturePacket /\ ~KsConsume /\ ~RenderOther /\ ~Teardown
  BY DEF CapturePacket, KsConsume, RenderOther, Teardown
<1>3. ~CaptureDone /\ ~RenderWasapi
  BY DEF CaptureDone, RenderWasapi, TypeOK
<1> QED
  BY <1>1, <1>2, <1>3 DEF Block

\* What goes on around the thread: its flag and its place stay, and it stays
\* held up unless the capture device goes.
LEMMA OthersLeaveIt ==
    ASSUME TypeOK, ~running, pc # "stopped", Next, ~Block
    PROVE  /\ ~running' /\ pc' = pc
           /\ HeldUp => HeldUp' \/ deviceLost'
<1>1. CASE Start \/ NewBuffers
  BY <1>1 DEF Start, NewBuffers, Goto
<1>2. CASE Stop \/ DevicePlays \/ DeviceRemoved
  BY <1>2 DEF Stop, DevicePlays, DeviceRemoved, deviceVars, sessionVars, HeldUp
<1>3. CASE PacketArrives
  <2>1. packets' # <<>>
    <3>1. PICK n \in PacketFrames, silent \in BOOLEAN :
              packets' = Append(packets, [frames |-> n, silent |-> silent])
      BY <1>3 DEF PacketArrives
    <3>2. packets \in Seq([frames : PacketFrames, silent : BOOLEAN])
      BY DEF TypeOK
    <3>3. Len(packets') = Len(packets) + 1
      BY <3>1, <3>2
    <3> QED
      BY <3>2, <3>3
  <2> QED
    BY <1>3, <2>1 DEF PacketArrives, sessionVars, HeldUp
<1>4. CASE Stick
  BY <1>4 DEF Stick, sessionVars, HeldUp
<1> QED
  BY <1>1, <1>2, <1>3, <1>4 DEF Next

\* For every block size and every packet, in whatever place the thread is when
\* stop() stores the flag.
THEOREM StopEndsTheBlock == Spec => [][EndsItsBlock]_vars
<1>1. Init => StuckInv
  BY DEF Init, StuckInv
<1>2. TypeOK /\ StuckInv /\ [Next]_vars => [EndsItsBlock]_vars
  <2> SUFFICES ASSUME TypeOK, StuckInv, Next, ~running, pc # "stopped"
               PROVE  /\ ~running'
                      /\ pc' = pc \/ StepsLeft[pc'] < StepsLeft[pc]
                      /\ Block => \/ pc' # pc
                                  \/ Len(packets') < Len(packets)
                                  \/ HeldUp'
                      /\ HeldUp => ~Block /\ (HeldUp' \/ deviceLost')
    BY DEF EndsItsBlock
  <2>1. CASE Block
    <3>1. StepsLeft[pc] \in Nat
      BY DEF TypeOK, StepsLeft
    <3>2. ~HeldUp
      BY <2>1, HeldUpStays
    <3>3. /\ ~running'
          /\ \/ StepsLeft[pc'] < StepsLeft[pc]
             \/ pc' = pc /\ Len(packets') < Len(packets)
             \/ pc' = pc /\ HeldUp'
      BY <2>1, ThreadEnds
    <3>4. CASE pc' = pc
      BY <3>1, <3>2, <3>3, <3>4
    <3>5. CASE pc' # pc
      BY <3>1, <3>2, <3>3, <3>5
    <3> QED
      BY <3>4, <3>5
  <2>2. CASE ~Block
    BY <2>2, OthersLeaveIt
  <2> QED
    BY <2>1, <2>2
<1> QED
  BY <1>1, <1>2, StepStuckInv, TypeCorrect, PTL DEF Spec

=============================================================================
