--------------------------- MODULE KsEngineProofs ---------------------------
(***************************************************************************)
(* The direct engine keeps its requests to the kernel apart from what the  *)
(* thread touches, and implements the double buffer.  Both follow the      *)
(* program counter of the thread through one block.                        *)
(***************************************************************************)
EXTENDS KsEngine, TLAPS

\* Where the thread has both pins and both events.
Streaming == {"check", "read", "awaitRead", "swap", "callback", "pack", "write",
              "awaitWrite", "close"}

\* The pins and events a thread at each place has opened so far, which request
\* it may have made, and which half the host has filled.
EngineInv ==
    /\ TypeOK
    /\ pc \in {"openCapture", "capEvent", "renEvent"} => "render" \in pins
    /\ pc \in {"capEvent", "renEvent"} => "capture" \in pins
    /\ pc \in {"openRender", "openCapture", "capEvent"} => events = {}
    /\ pc = "renEvent" => events = {"capture"}
    /\ pc \in Streaming => pins = Dir /\ events = Dir
    /\ req["capture"] # "none" => pc = "awaitRead"
    /\ req["render"] # "none" => pc = "awaitWrite"
    /\ \A i \in Half : out[i] = "filled" <=> pc = "pack" /\ i = activeIndex

LEMMA InitEngine == Init => EngineInv
<1> SUFFICES ASSUME Init PROVE EngineInv
  OBVIOUS
<1>1. TypeOK
  BY DEF Init, TypeOK, Half
<1>2. req["capture"] = "none" /\ req["render"] = "none" /\ \A i \in Half : out[i] # "filled"
  BY DEF Init, Dir
<1> QED
  BY <1>1, <1>2 DEF Init, EngineInv, Streaming

\* The owner, opening, closing and the kernel.
LEMMA OutsideEngine ==
    ASSUME EngineInv,
           \/ Start \/ Stop \/ Release \/ NewBuffers \/ Open \/ Close
           \/ (\E d \in Dir : Complete(d)) \/ FallSilent
    PROVE  EngineInv'
<1> USE DEF EngineInv, TypeOK, Streaming, Dir, Half, Goto, objectVars, pinVars, bufferVars
<1>1. CASE Start \/ Stop \/ Release
  BY <1>1 DEF Start, Stop, Release
<1>2. CASE NewBuffers
  BY <1>2 DEF NewBuffers
<1>3. CASE OpenRender
  BY <1>3 DEF OpenRender, OpenPin, GiveUp
<1>4. CASE OpenCapture
  BY <1>4 DEF OpenCapture, OpenPin, GiveUp
<1>5. CASE MakeCapEvent
  BY <1>5 DEF MakeCapEvent, MakeEvent, GiveUp
<1>6. CASE MakeRenEvent
  BY <1>6 DEF MakeRenEvent, MakeEvent, GiveUp
<1>7. CASE Close
  BY <1>7 DEF Close
<1>8. CASE \E d \in Dir : Complete(d)
  BY <1>8 DEF Complete
<1>9. CASE FallSilent
  BY <1>9 DEF FallSilent
<1> QED
  BY <1>1, <1>2, <1>3, <1>4, <1>5, <1>6, <1>7, <1>8, <1>9 DEF Open

\* The steps of a block.
LEMMA BlockEngine ==
    ASSUME EngineInv, Block
    PROVE  EngineInv'
<1> USE DEF EngineInv, TypeOK, Streaming, Dir, Half, Goto, objectVars, pinVars, bufferVars
<1>1. CASE LoopCheck
  BY <1>1 DEF LoopCheck
<1>2. CASE ReadFile
  BY <1>2 DEF ReadFile, Request
<1>3. CASE AwaitRead
  BY <1>3 DEF AwaitRead, Await
<1>4. CASE Swap
  BY <1>4 DEF Swap
<1>5. CASE BufferSwitch
  BY <1>5 DEF BufferSwitch
<1>6. CASE Pack
  BY <1>6 DEF Pack
<1>7. CASE WriteFile
  BY <1>7 DEF WriteFile, Request
<1>8. CASE AwaitWrite
  BY <1>8 DEF AwaitWrite, Await
<1> QED
  BY <1>1, <1>2, <1>3, <1>4, <1>5, <1>6, <1>7, <1>8 DEF Block

LEMMA EngineIsInv == Spec => []EngineInv
<1>1. EngineInv /\ [Next]_vars => EngineInv'
  <2> SUFFICES ASSUME EngineInv, [Next]_vars PROVE EngineInv'
    OBVIOUS
  <2>1. CASE UNCHANGED vars
    BY <2>1 DEF EngineInv, TypeOK, vars, objectVars, pinVars, bufferVars
  <2> QED
    BY <2>1, OutsideEngine, BlockEngine DEF Next, Thread
<1> QED
  BY <1>1, InitEngine, PTL DEF Spec

\* The types, and that a thread that has ended holds no pin and has left open
\* at most the capture event, wherever it failed.
THEOREM TypeCorrect == Spec => []TypeOK
<1>1. EngineInv => TypeOK
  BY DEF EngineInv
<1> QED
  BY <1>1, EngineIsInv, PTL

\* No request is in flight while the thread touches its buffer or gives the
\* pin back, whatever the device answers and whenever stop() is called.
THEOREM RequestsAreWaitedOut == Spec => []KernelOwnsRequest
<1>1. EngineInv => KernelOwnsRequest
  BY DEF EngineInv, KernelOwnsRequest, Streaming, Dir
<1> QED
  BY <1>1, EngineIsInv, PTL

\* The engine implements the double buffer: each of its steps is a turn of
\* PingPong, or leaves the halves alone.
THEOREM Refinement == Spec => PingPongSpec
<1>1. Init => PP!PPInit
  BY DEF Init, PP!PPInit, Half
<1>2. EngineInv /\ [Next]_vars => [PP!PPNext]_(PP!ppVars)
  <2> SUFFICES ASSUME EngineInv, [Next]_vars PROVE [PP!PPNext]_(PP!ppVars)
    OBVIOUS
  <2> DEFINE turn == IF pc = "callback" THEN 1 - activeIndex ELSE activeIndex
             owed == \E i \in Half : out[i] = "filled"
  <2> USE DEF EngineInv, TypeOK, Half, Goto, objectVars, pinVars, bufferVars
  <2>1. CASE BufferSwitch
    <3>1. ~owed /\ owed' /\ turn' = 1 - turn
      BY <2>1 DEF BufferSwitch
    <3> QED
      BY <3>1 DEF PP!PPNext, PP!Hand
  <2>2. CASE Pack
    <3>1. owed /\ ~owed' /\ turn' = turn
      BY <2>2 DEF Pack
    <3> QED
      BY <3>1 DEF PP!PPNext, PP!Offer
  <2>3. CASE NewBuffers
    <3>1. ~owed' /\ turn' = 0
      BY <2>3 DEF NewBuffers
    <3> QED
      BY <3>1 DEF PP!PPNext, PP!Allocate
  <2>4. CASE Swap
    <3>1. turn' = turn /\ (owed' <=> owed)
      BY <2>4 DEF Swap
    <3> QED
      BY <3>1 DEF PP!ppVars
  <2>5. CASE UNCHANGED <<activeIndex, out>> /\ pc # "callback" /\ pc' # "callback"
    <3>1. turn' = turn /\ (owed' <=> owed)
      BY <2>5
    <3> QED
      BY <3>1 DEF PP!ppVars
  <2>6. CASE UNCHANGED <<activeIndex, out, pc>>
    <3>1. turn' = turn /\ (owed' <=> owed)
      BY <2>6
    <3> QED
      BY <3>1 DEF PP!ppVars
  <2>7. CASE Start \/ Stop \/ Release \/ Open \/ Close
    BY <2>5, <2>6, <2>7 DEF Start, Stop, Release, Open, OpenRender, OpenCapture, OpenPin,
                           MakeCapEvent, MakeRenEvent, MakeEvent, GiveUp, Close
  <2>8. CASE LoopCheck \/ ReadFile \/ AwaitRead \/ WriteFile \/ AwaitWrite
    BY <2>5, <2>8 DEF LoopCheck, ReadFile, AwaitRead, WriteFile, AwaitWrite, Request, Await
  <2>9. CASE (\E d \in Dir : Complete(d)) \/ FallSilent \/ UNCHANGED vars
    BY <2>6, <2>9 DEF Complete, FallSilent, vars
  <2> QED
    BY <2>1, <2>2, <2>3, <2>4, <2>7, <2>8, <2>9 DEF Next, Thread, Block
<1> QED
  BY <1>1, <1>2, EngineIsInv, PTL DEF Spec, PingPongSpec, PP!PPSpec

-----------------------------------------------------------------------------
(***************************************************************************)
(* What stop() can count on without fairness.                              *)
(***************************************************************************)

\* The places that a thread whose flag is FALSE can still go through.
StepsLeft == [stopped |-> 0, close |-> 1, check |-> 2, swap |-> 2, awaitWrite |-> 3,
              awaitRead |-> 3, write |-> 4, read |-> 4, pack |-> 5, renEvent |-> 5,
              callback |-> 6, capEvent |-> 6, openCapture |-> 7, openRender |-> 8]

\* The flag stays FALSE while the thread exists, each step of the thread brings
\* it nearer to its end, and nobody else sends it back.
NearsItsEnd ==
    ~running /\ pc # "stopped" =>
        /\ ~running'
        /\ pc' = pc \/ StepsLeft[pc'] < StepsLeft[pc]
        /\ Thread => pc' # pc

\* After stop() the engine waits at most once more for the device: it makes no
\* new request after that answer, and ends.
THEOREM StopIsNear == Spec => [][NearsItsEnd]_vars
<1>1. TypeOK /\ [Next]_vars => [NearsItsEnd]_vars
  <2> SUFFICES ASSUME TypeOK, Next, ~running, pc # "stopped"
               PROVE  /\ ~running'
                      /\ pc' = pc \/ StepsLeft[pc'] < StepsLeft[pc]
                      /\ Thread => pc' # pc
    BY DEF NearsItsEnd
  <2> USE DEF Goto, StepsLeft, objectVars
  <2>1. Open => ~running' /\ StepsLeft[pc'] < StepsLeft[pc]
    BY DEF Open, OpenRender, OpenCapture, MakeCapEvent, MakeRenEvent, OpenPin, MakeEvent, GiveUp
  <2>2. LoopCheck \/ Swap \/ BufferSwitch \/ Pack \/ Close
          => ~running' /\ StepsLeft[pc'] < StepsLeft[pc]
    BY DEF LoopCheck, Swap, BufferSwitch, Pack, Close
  <2>3. ReadFile \/ AwaitRead \/ WriteFile \/ AwaitWrite
          => ~running' /\ StepsLeft[pc'] < StepsLeft[pc]
    BY DEF ReadFile, AwaitRead, WriteFile, AwaitWrite, Request, Await
  <2>4. Thread => ~running' /\ pc' # pc /\ StepsLeft[pc'] < StepsLeft[pc]
    <3>1. Thread => ~running' /\ StepsLeft[pc'] < StepsLeft[pc]
      BY <2>1, <2>2, <2>3 DEF Thread, Block
    <3> QED
      BY <3>1 DEF TypeOK
  <2>5. Next => Thread \/ (~running' /\ pc' = pc)
    BY DEF Next, Start, Stop, Release, NewBuffers, Complete, FallSilent
  <2> QED
    BY <2>4, <2>5
<1> QED
  BY <1>1, TypeCorrect, PTL DEF Spec

=============================================================================
