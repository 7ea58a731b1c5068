-------------------------- MODULE AsioDriverProofs --------------------------
(***************************************************************************)
(* Proofs about AsioDriver for every set of threads, streams and buffers,  *)
(* and for every host, strict or not.  None of the three properties is     *)
(* inductive alone; the parts below say what ties the mutex, the calls in  *)
(* progress and the stream handles together.                               *)
(***************************************************************************)
EXTENDS AsioDriver, TLAPS

\* A call is between its take of a stream and the end of its join exactly
\* while it has a stream to join.
JoineeInv ==
    \A h \in Control : joinee[h] # Nil <=> hpc[h] \in {"signal", "join"}

\* Who holds the lock: a call inside it, an open panel, a start() that joins
\* the stream it replaces, or a callback inside a call.
LockInv ==
    /\ \A h \in Control : mutex = h <=>
        \/ hpc[h] \in {"locked", "panel"}
        \/ hpc[h] \in {"signal", "join"} /\ call[h] = "start"
    /\ \A s \in Stream : mutex = s <=> spc[s] = "locked"

\* The last Release runs alone, and leaves nothing behind it.
ReleaseInv ==
    /\ \A h \in Control : hpc[h] = "idle" <=> call[h] = "none"
    /\ \A g, h \in Control : call[h] = "release" /\ g # h => hpc[g] = "idle"
    /\ \A h \in Control : call[h] = "release" => hpc[h] \in {"want", "signal", "join"}
    /\ \A h \in Control : hpc[h] = "want" => alive = "up"
    /\ \A h \in Control : call[h] = "release" /\ hpc[h] # "want" => wasapiStream = Nil
    /\ alive = "freed" => wasapiStream = Nil /\ \A h \in Control : hpc[h] = "idle"

IInv == TypeOK /\ StreamOwned /\ InstalledRuns /\ JoineeInv /\ LockInv /\ ReleaseInv

-----------------------------------------------------------------------------
(* Initial states, and steps that leave every variable alone               *)

\* The driver as it is created satisfies the inductive invariant.
LEMMA InitIInv == Init => IInv
<1> SUFFICES ASSUME Init PROVE IInv
    OBVIOUS
<1> USE ThreadsAssumption, SizesAssumption DEF Init
<1>1. TypeOK  BY DEF TypeOK, Idle, HostPCs, StreamPCs
<1>2. StreamOwned  BY DEF StreamOwned, Exists
<1>3. InstalledRuns  BY DEF InstalledRuns
<1>4. JoineeInv  BY DEF JoineeInv
<1>5. LockInv  BY DEF LockInv
<1>6. ReleaseInv  BY DEF ReleaseInv
<1> QED BY <1>1, <1>2, <1>3, <1>4, <1>5, <1>6 DEF IInv

\* start() either returns with nothing changed or has spawned a stream.
LEMMA StartEffect ==
    ASSUME NEW h \in Control, AsioStart(h)
    PROVE  \/ Leave(h) /\ UNCHANGED <<wasapiStream, streamVars, playing>>
           \/ \E s \in Stream :
                /\ ~Exists(s) /\ Spawn(s) /\ spc' = [spc EXCEPT ![s] = "setup"]
                /\ wasapiStream' = s /\ playing' = TRUE /\ buffers # Nil
                /\ \/ wasapiStream = Nil /\ Leave(h)
                   \/ wasapiStream # Nil /\ StopStream(h) /\ mutex' = mutex
BY DEF AsioStart

USE ThreadsAssumption, SizesAssumption, CallsAssumption
    DEF driverVars, controlVars, streamVars, bufVars, hostVars, Calls, HostPCs, StreamPCs

\* Nothing happens, and the invariant stays.
LEMMA StutterIInv == IInv /\ UNCHANGED vars => IInv'
BY DEF vars, IInv, TypeOK, StreamOwned, InstalledRuns, JoineeInv, LockInv, ReleaseInv,
    Exists

\* Every step keeps the variables in their types.
LEMMA TypeStep == TypeOK /\ [Next]_vars => TypeOK'
<1> SUFFICES ASSUME TypeOK, [Next]_vars PROVE TypeOK'
    OBVIOUS
<1>1. ASSUME NEW h \in Control, NEW c \in ControlCalls, Call(h, c) PROVE TypeOK'
    BY <1>1 DEF Call, TypeOK
<1>2. ASSUME NEW h \in Control, ControlStep(h) PROVE TypeOK'
  <2> USE DEF TypeOK, Inside, Leave, Return
  <2>1. CASE Lock(h)  BY <2>1 DEF Lock
  <2>2. CASE AsioInit(h)  BY <2>2 DEF AsioInit
  <2>3. CASE AsioSetSampleRate(h)  BY <2>3 DEF AsioSetSampleRate
  <2>4. CASE AsioQuery(h)  BY <2>4 DEF AsioQuery
  <2>5. CASE AsioControlPanel(h)  BY <2>5 DEF AsioControlPanel
  <2>6. CASE DismissPanel(h)  BY <2>6 DEF DismissPanel
  <2>7. CASE AsioOutputReady(h)  BY <2>7 DEF AsioOutputReady, SignalAsioReady
  <2>8. CASE AsioCreateBuffers(h)
    <3>1. PICK size \in Sizes :
            \/ UNCHANGED <<bufferFrames, buffers, callbacks, bufVars, hostBuf>>
            \/ /\ size \in Nat
               /\ bufferFrames' = size
               /\ \/ buffers # Nil /\ Install(buffers) /\ UNCHANGED bufVars
                  \/ \E b \in Buf :
                        /\ bufFrames' = [bufFrames EXCEPT ![b] = size]
                        /\ bufRunning' = [bufRunning EXCEPT ![b] = FALSE]
                        /\ asioReady' = [asioReady EXCEPT ![b] = FALSE]
                        /\ Install(b)
                  \/ UNCHANGED <<buffers, callbacks, bufVars, hostBuf>>
      BY <2>8 DEF AsioCreateBuffers, Reusable
    <3>2. CASE UNCHANGED <<buffers, callbacks, bufVars, hostBuf>>
      BY <2>8, <3>1, <3>2 DEF AsioCreateBuffers, Install
    <3>3. CASE buffers # Nil /\ Install(buffers) /\ UNCHANGED bufVars
      BY <2>8, <3>1, <3>3 DEF AsioCreateBuffers, Install
    <3>4. ASSUME NEW b \in Buf, size \in Nat, bufferFrames' = size, Install(b),
                 bufFrames' = [bufFrames EXCEPT ![b] = size],
                 bufRunning' = [bufRunning EXCEPT ![b] = FALSE],
                 asioReady' = [asioReady EXCEPT ![b] = FALSE]
          PROVE TypeOK'
      BY <2>8, <3>4 DEF AsioCreateBuffers, Install
    <3> HIDE DEF TypeOK, Leave, Return, Install
    <3> QED BY <3>1, <3>2, <3>3, <3>4
  <2>9. CASE AsioDisposeBuffers(h)  BY <2>9 DEF AsioDisposeBuffers
  <2>10. CASE AsioStart(h)
    <3>1. CASE Leave(h) /\ UNCHANGED <<wasapiStream, streamVars, playing>>
      BY <2>10, <3>1 DEF AsioStart
    <3>2. ASSUME NEW s \in Stream, Spawn(s), spc' = [spc EXCEPT ![s] = "setup"],
                 wasapiStream' = s, playing' = TRUE, buffers # Nil,
                 Leave(h) \/ (StopStream(h) /\ mutex' = mutex)
          PROVE TypeOK'
      <4>1. str' \in [Stream -> [buf : Buf \cup {Nil}, frames : Nat, rate : Rates]]
        BY <3>2 DEF Spawn
      <4>2. /\ mutex' \in Control \cup Stream \cup {Nil}
            /\ hpc' \in [Control -> HostPCs]
            /\ call' \in [Control -> Calls \cup {"none"}]
            /\ joinee' \in [Control -> Stream \cup {Nil}]
        <5>1. CASE Leave(h)  BY <5>1
        <5>2. CASE StopStream(h) /\ mutex' = mutex  BY <5>2 DEF StopStream
        <5> QED BY <3>2, <5>1, <5>2
      <4> HIDE DEF Leave, Return
      <4> QED BY <2>10, <3>2, <4>1, <4>2 DEF AsioStart, Spawn
    <3> HIDE DEF TypeOK, Leave, Return, streamVars
    <3> QED BY <2>10, <3>1, <3>2, StartEffect
  <2>11. CASE AsioStop(h)  BY <2>11 DEF AsioStop, Stopping, StopStream
  <2>12. CASE Release(h)
    <3>1. CASE alive' = "freed" /\ Return(h) /\ UNCHANGED joinee
      BY <2>12, <3>1 DEF Release
    <3>2. CASE alive' = "dropped" /\ StopStream(h)
      <4>1. /\ hpc' \in [Control -> HostPCs] /\ call' \in [Control -> Calls \cup {"none"}]
            /\ joinee' \in [Control -> Stream \cup {Nil}]
        BY <3>2 DEF StopStream
      <4> QED BY <2>12, <3>2, <4>1 DEF Release
    <3> QED BY <2>12, <3>1, <3>2 DEF Release
  <2>13. CASE StopSignal(h)  BY <2>13 DEF StopSignal
  <2>14. CASE StopJoin(h)  BY <2>14 DEF StopJoin
  <2> QED BY <1>2, <2>1, <2>2, <2>3, <2>4, <2>5, <2>6, <2>7, <2>8, <2>9, <2>10,
            <2>11, <2>12, <2>13, <2>14 DEF ControlStep
<1>3. ASSUME NEW s \in Stream, StreamStep(s) PROVE TypeOK'
  <2> USE DEF TypeOK, Goto, StreamOnly
  <2>1. CASE SetupFails(s)  BY <2>1 DEF SetupFails, Exit, Idle
  <2>2. CASE SetupDone(s)  BY <2>2 DEF SetupDone
  <2>3. CASE LoopCheck(s)  BY <2>3 DEF LoopCheck
  <2>4. CASE BlockDue(s)  BY <2>4 DEF BlockDue
  <2>5. CASE BlockIO(s)  BY <2>5 DEF BlockIO
  <2>6. CASE CallbackCall(s)  BY <2>6 DEF CallbackCall
  <2>7. CASE CallbackLock(s)  BY <2>7 DEF CallbackLock
  <2>8. CASE CallbackBody(s)  BY <2>8 DEF CallbackBody, SignalAsioReady
  <2>9. CASE CallbackReturn(s)  BY <2>9 DEF CallbackReturn
  <2>10. CASE Teardown(s)  BY <2>10 DEF Teardown, Exit, Idle
  <2> QED BY <1>3, <2>1, <2>2, <2>3, <2>4, <2>5, <2>6, <2>7, <2>8, <2>9, <2>10
        DEF StreamStep
<1>4. CASE CreateInstance  BY <1>4 DEF CreateInstance, TypeOK
<1>5. CASE UNCHANGED vars  BY <1>5 DEF vars, TypeOK
<1> QED BY <1>1, <1>2, <1>3, <1>4, <1>5 DEF Next

\* TypeOK holds in every reachable state, whatever the host calls.
THEOREM TypeCorrect == Spec => []TypeOK
<1>1. Init => TypeOK  BY InitIInv DEF IInv
<1>2. QED BY <1>1, TypeStep, PTL DEF Spec

-----------------------------------------------------------------------------
(* The inductive invariant, first for the steps that many actions share    *)

\* A call that has done its work lets go of the lock and returns.
LEMMA LeaveStep ==
    ASSUME IInv, TypeOK', NEW h \in Control, hpc[h] \in {"locked", "panel"}, Leave(h),
           UNCHANGED <<alive, wasapiStream, spc, running>>
    PROVE  IInv'
<1> USE DEF IInv, Leave, Return
<1>1. hpc[h] # "idle" /\ hpc[h] # "want" /\ joinee[h] = Nil /\ mutex = h
  BY DEF TypeOK, JoineeInv, LockInv
<1>2. StreamOwned'  BY DEF StreamOwned, Exists
<1>3. InstalledRuns'  BY <1>1 DEF InstalledRuns, TypeOK
<1>4. JoineeInv'  BY <1>1 DEF JoineeInv, TypeOK
<1>5. LockInv'  BY <1>1 DEF LockInv, TypeOK
<1>6. ReleaseInv'  BY <1>1 DEF ReleaseInv, TypeOK
<1> QED BY <1>2, <1>3, <1>4, <1>5, <1>6

\* A stream thread moves on without touching the lock.
LEMMA ThreadStep ==
    ASSUME IInv, TypeOK', NEW s \in Stream, NEW from, NEW to, Goto(s, from, to),
           from \notin {"none", "locked"}, to \notin {"none", "locked"},
           UNCHANGED <<alive, wasapiStream, mutex, hpc, call, joinee, running>>
    PROVE  IInv'
<1> USE DEF IInv, Goto
<1>1. StreamOwned'  BY DEF StreamOwned, Exists, TypeOK
<1>2. InstalledRuns'  BY DEF InstalledRuns
<1>3. JoineeInv'  BY DEF JoineeInv
<1>4. LockInv'  BY DEF LockInv, TypeOK
<1>5. ReleaseInv'  BY DEF ReleaseInv
<1> QED BY <1>1, <1>2, <1>3, <1>4, <1>5

\* Neither the call a control thread makes nor the lock it takes ends one.
LEMMA CallStep ==
    ASSUME IInv, TypeOK', NEW h \in Control, NEW c \in ControlCalls, Call(h, c)
    PROVE  IInv'
<1> USE DEF IInv, Call
<1>1. StreamOwned'  BY DEF StreamOwned, Exists
<1>2. InstalledRuns'  BY DEF InstalledRuns, TypeOK
<1>3. JoineeInv'  BY DEF JoineeInv, TypeOK
<1>4. LockInv'  BY DEF LockInv, TypeOK
<1>5. ReleaseInv'  BY DEF ReleaseInv, TypeOK
<1> QED BY <1>1, <1>2, <1>3, <1>4, <1>5

\* Taking the free lock (the lock() at the head of every call) sets up its
\* holder and ends no claim on a stream.
LEMMA LockStep == ASSUME IInv, TypeOK', NEW h \in Control, Lock(h) PROVE IInv'
<1> USE DEF IInv, Lock
<1>1. StreamOwned'  BY DEF StreamOwned, Exists
<1>2. InstalledRuns'  BY DEF InstalledRuns, TypeOK
<1>3. JoineeInv'  BY DEF JoineeInv, TypeOK
<1>4. LockInv'  BY DEF LockInv, TypeOK
<1>5. ReleaseInv'  BY DEF ReleaseInv, TypeOK
<1> QED BY <1>1, <1>2, <1>3, <1>4, <1>5

\* controlPanel() opens its box with the lock in hand (asio_driver.rs 446).
LEMMA PanelStep == ASSUME IInv, TypeOK', NEW h \in Control, AsioControlPanel(h) PROVE IInv'
<1> USE DEF IInv, AsioControlPanel, Inside
<1>1. StreamOwned'  BY DEF StreamOwned, Exists
<1>2. InstalledRuns'  BY DEF InstalledRuns, TypeOK
<1>3. JoineeInv'  BY DEF JoineeInv, TypeOK
<1>4. LockInv'  BY DEF LockInv, TypeOK
<1>5. ReleaseInv'  BY DEF ReleaseInv, TypeOK
<1> QED BY <1>1, <1>2, <1>3, <1>4, <1>5

\* start() gives the new thread to DriverState and, if it replaces a stream,
\* takes that one to join it.
LEMMA StartStep == ASSUME IInv, TypeOK', NEW h \in Control, AsioStart(h) PROVE IInv'
<1>1. /\ hpc[h] = "locked" /\ call[h] = "start" /\ joinee[h] = Nil /\ mutex = h
      /\ alive' = alive /\ alive # "freed"
  BY DEF AsioStart, Inside, IInv, JoineeInv, LockInv, ReleaseInv
<1>2. CASE Leave(h) /\ UNCHANGED <<wasapiStream, streamVars, playing>>
  BY <1>1, <1>2, LeaveStep
<1>3. ASSUME NEW s \in Stream, ~Exists(s), Spawn(s),
             spc' = [spc EXCEPT ![s] = "setup"], wasapiStream' = s,
             \/ wasapiStream = Nil /\ Leave(h)
             \/ wasapiStream # Nil /\ StopStream(h) /\ mutex' = mutex
      PROVE  IInv'
  <2> USE <1>1, <1>3 DEF IInv
  <2>1. /\ wasapiStream # s
        /\ \A g \in Control : joinee[g] # s
        /\ \A g \in Control : joinee'[g] = IF g = h THEN wasapiStream ELSE joinee[g]
        /\ \A t \in Stream : Exists(t)' <=> t = s \/ Exists(t)
    BY DEF StreamOwned, Exists, Leave, Return, StopStream, TypeOK
  <2>2. StreamOwned'  BY <2>1 DEF StreamOwned, TypeOK
  <2>3. InstalledRuns'
    <3>1. \A g \in Control : hpc'[g] = "join" => hpc[g] = "join" /\ joinee'[g] = joinee[g]
      BY DEF Leave, Return, StopStream, TypeOK
    <3> QED BY <2>1, <3>1 DEF InstalledRuns, Spawn, TypeOK
  <2>4. JoineeInv'
    <3>1. \A g \in Control : g # h => hpc'[g] = hpc[g]
      BY DEF Leave, Return, StopStream, TypeOK
    <3>2. joinee'[h] # Nil <=> hpc'[h] \in {"signal", "join"}
      BY DEF Leave, Return, StopStream, TypeOK
    <3> QED BY <2>1, <3>1, <3>2 DEF JoineeInv
  <2>5. LockInv'  BY DEF LockInv, Leave, Return, StopStream, TypeOK, Exists
  <2>6. ReleaseInv'
    <3>1. \A g \in Control : call[g] # "release" /\ call'[g] # "release"
      BY DEF ReleaseInv, Leave, Return, StopStream, TypeOK
    <3>2. hpc'[h] # "want" /\ (hpc'[h] = "idle" <=> call'[h] = "none")
      BY DEF Leave, Return, StopStream, TypeOK
    <3>3. \A g \in Control \ {h} : hpc'[g] = hpc[g] /\ call'[g] = call[g]
      BY DEF Leave, Return, StopStream, TypeOK
    <3> QED BY <3>1, <3>2, <3>3 DEF ReleaseInv
  <2> QED BY <2>2, <2>3, <2>4, <2>5, <2>6
<1> QED BY <1>2, <1>3, StartEffect

\* stop() moves the stream from DriverState to the call that joins it.
LEMMA StopStep == ASSUME IInv, TypeOK', NEW h \in Control, AsioStop(h) PROVE IInv'
<1>1. /\ hpc[h] = "locked" /\ call[h] = "stop" /\ joinee[h] = Nil /\ mutex = h
      /\ UNCHANGED <<alive, spc, running>> /\ alive # "freed"
  BY DEF AsioStop, Stopping, Inside, IInv, JoineeInv, LockInv, ReleaseInv
<1>2. CASE wasapiStream = Nil /\ Leave(h)
  BY <1>1, <1>2, LeaveStep DEF AsioStop
<1>3. CASE wasapiStream # Nil /\ StopStream(h) /\ mutex' = Nil
  <2> USE <1>1, <1>3 DEF IInv, AsioStop, StopStream
  <2>1. \A g \in Control : joinee'[g] = IF g = h THEN wasapiStream ELSE joinee[g]
    BY DEF TypeOK
  <2>2. StreamOwned'  BY <2>1 DEF StreamOwned, Exists, TypeOK
  <2>3. InstalledRuns'  BY <2>1 DEF InstalledRuns, TypeOK
  <2>4. JoineeInv'  BY DEF JoineeInv, TypeOK
  <2>5. LockInv'  BY DEF LockInv, TypeOK
  <2>6. ReleaseInv'  BY DEF ReleaseInv, TypeOK
  <2> QED BY <2>2, <2>3, <2>4, <2>5, <2>6
<1> QED BY <1>2, <1>3 DEF AsioStop

\* The last Release does the same without the lock.
LEMMA ReleaseStep == ASSUME IInv, TypeOK', NEW h \in Control, Release(h) PROVE IInv'
<1>1. /\ hpc[h] = "want" /\ call[h] = "release" /\ joinee[h] = Nil
      /\ UNCHANGED <<mutex, spc, running>> /\ wasapiStream' = Nil
      /\ \A g \in Control \ {h} : hpc[g] = "idle"
  BY DEF Release, IInv, JoineeInv, ReleaseInv
<1>2. /\ \A g \in Control : joinee'[g] = IF g = h THEN wasapiStream ELSE joinee[g]
      /\ \A g \in Control \ {h} : hpc'[g] = hpc[g] /\ call'[g] = call[g]
      /\ \/ wasapiStream = Nil /\ alive' = "freed" /\ hpc'[h] = "idle" /\ call'[h] = "none"
         \/ /\ wasapiStream # Nil /\ alive' = "dropped"
            /\ hpc'[h] = "signal" /\ call'[h] = "release"
  BY <1>1 DEF Release, Return, StopStream, TypeOK, IInv
<1> USE <1>1, <1>2 DEF IInv
<1>3. StreamOwned'  BY DEF StreamOwned, Exists, TypeOK
<1>4. InstalledRuns'  BY DEF InstalledRuns, TypeOK
<1>5. JoineeInv'  BY DEF JoineeInv, TypeOK
<1>6. LockInv'  BY DEF LockInv, TypeOK
<1>7. ReleaseInv'
  <2>1. \A g \in Control : hpc'[g] # "want"  BY DEF TypeOK
  <2>2. \A g \in Control \ {h} : hpc'[g] = "idle" /\ call'[g] = "none"
    BY DEF ReleaseInv
  <2> QED BY <2>1, <2>2 DEF ReleaseInv
<1> QED BY <1>3, <1>4, <1>5, <1>6, <1>7

\* The stream that is told to stop is one that a call has taken.
LEMMA SignalStep == ASSUME IInv, TypeOK', NEW h \in Control, StopSignal(h) PROVE IInv'
<1> USE DEF IInv, StopSignal
<1>1. joinee[h] \in Stream /\ joinee[h] # wasapiStream
  BY DEF JoineeInv, StreamOwned, TypeOK
<1>2. \A s \in Stream : running'[s] = IF s = joinee[h] THEN FALSE ELSE running[s]
  BY DEF TypeOK
<1>3. StreamOwned'  BY DEF StreamOwned, Exists
<1>4. InstalledRuns'
  <2>1. wasapiStream' # Nil => running'[wasapiStream']
    BY <1>1, <1>2 DEF InstalledRuns, TypeOK
  <2>2. ASSUME NEW g \in Control, hpc'[g] = "join" PROVE ~running'[joinee'[g]]
    <3>1. joinee[g] \in Stream  BY <2>2 DEF JoineeInv, TypeOK
    <3>2. g # h => ~running[joinee[g]]  BY <2>2 DEF InstalledRuns, TypeOK
    <3> QED BY <1>2, <3>1, <3>2
  <2> QED BY <2>1, <2>2 DEF InstalledRuns
<1>5. JoineeInv'  BY DEF JoineeInv, TypeOK
<1>6. LockInv'  BY DEF LockInv, TypeOK
<1>7. ReleaseInv'  BY DEF ReleaseInv, TypeOK
<1> QED BY <1>3, <1>4, <1>5, <1>6, <1>7

\* The join ends the one claim there is on the thread.
LEMMA JoinStep == ASSUME IInv, TypeOK', NEW h \in Control, StopJoin(h) PROVE IInv'
<1> USE DEF IInv, StopJoin, Return
<1>1. joinee[h] \in Stream /\ Exists(joinee[h]) /\ hpc[h] = "join"
  BY DEF JoineeInv, Exists, TypeOK
<1>2. /\ \A s \in Stream : Exists(s)' <=> Exists(s) /\ s # joinee[h]
      /\ \A g \in Control : joinee'[g] = IF g = h THEN Nil ELSE joinee[g]
  BY <1>1 DEF Exists, TypeOK
<1>3. StreamOwned'  BY <1>1, <1>2 DEF StreamOwned, TypeOK
<1>4. InstalledRuns'  BY <1>2 DEF InstalledRuns, TypeOK
<1>5. JoineeInv'  BY <1>1 DEF JoineeInv, TypeOK
<1>6. LockInv'  BY <1>1 DEF LockInv, TypeOK
<1>7. ReleaseInv'
  <2>1. \A g \in Control : hpc'[g] = (IF g = h THEN "idle" ELSE hpc[g])
                        /\ call'[g] = (IF g = h THEN "none" ELSE call[g])
    BY DEF TypeOK
  <2>2. \A g \in Control : hpc[g] = "want" => alive' = "up"
    BY <1>1 DEF ReleaseInv
  <2>3. alive' = "freed" => wasapiStream = Nil /\ \A g \in Control \ {h} : hpc[g] = "idle"
    BY <1>1 DEF ReleaseInv
  <2> QED BY <1>1, <2>1, <2>2, <2>3 DEF ReleaseInv
<1> QED BY <1>3, <1>4, <1>5, <1>6, <1>7

\* A new driver object starts with no stream (cf_create_instance).
LEMMA CreateStep == ASSUME IInv, TypeOK', CreateInstance PROVE IInv'
BY DEF CreateInstance, IInv, StreamOwned, Exists, InstalledRuns, JoineeInv, LockInv,
       ReleaseInv, TypeOK

\* The callback takes the lock when it is free, and gives it back.
LEMMA CallbackLockStep ==
    ASSUME IInv, TypeOK', NEW s \in Stream, CallbackLock(s) \/ CallbackBody(s)
    PROVE  IInv'
<1> USE DEF IInv, CallbackLock, CallbackBody, Goto
<1>1. StreamOwned'  BY DEF StreamOwned, Exists, TypeOK
<1>2. InstalledRuns'  BY DEF InstalledRuns
<1>3. JoineeInv'  BY DEF JoineeInv
<1>4. LockInv'
  <2>1. CASE CallbackLock(s)  BY <2>1 DEF LockInv, TypeOK
  <2>2. CASE CallbackBody(s)  BY <2>2 DEF LockInv, TypeOK
  <2> QED BY <2>1, <2>2
<1>5. ReleaseInv'  BY DEF ReleaseInv
<1> QED BY <1>1, <1>2, <1>3, <1>4, <1>5

-----------------------------------------------------------------------------
(* Every step, and the theorems                                            *)

\* Every step keeps the inductive invariant: one case for each action.
LEMMA InvStep == IInv /\ [Next]_vars => IInv'
<1> SUFFICES ASSUME IInv, [Next]_vars PROVE IInv'
    OBVIOUS
<1>1. TypeOK'  BY TypeStep DEF IInv
<1>2. ASSUME NEW h \in Control, NEW c \in ControlCalls, Call(h, c) PROVE IInv'
  BY <1>1, <1>2, CallStep
<1>3. ASSUME NEW h \in Control, ControlStep(h) PROVE IInv'
  <2>1. CASE \/ AsioInit(h) \/ AsioSetSampleRate(h) \/ AsioQuery(h) \/ DismissPanel(h)
             \/ AsioOutputReady(h) \/ AsioCreateBuffers(h) \/ AsioDisposeBuffers(h)
    <3>1. /\ hpc[h] \in {"locked", "panel"} /\ Leave(h)
          /\ UNCHANGED <<alive, wasapiStream, spc, running>>
      BY <2>1 DEF AsioInit, AsioSetSampleRate, AsioQuery, DismissPanel, AsioOutputReady,
                  AsioCreateBuffers, AsioDisposeBuffers, Inside
    <3> QED BY <1>1, <3>1, LeaveStep
  <2>2. CASE Lock(h)  BY <1>1, <2>2, LockStep
  <2>3. CASE AsioControlPanel(h)  BY <1>1, <2>3, PanelStep
  <2>4. CASE AsioStart(h)  BY <1>1, <2>4, StartStep
  <2>5. CASE AsioStop(h)  BY <1>1, <2>5, StopStep
  <2>6. CASE Release(h)  BY <1>1, <2>6, ReleaseStep
  <2>7. CASE StopSignal(h)  BY <1>1, <2>7, SignalStep
  <2>8. CASE StopJoin(h)  BY <1>1, <2>8, JoinStep
  <2> QED BY <1>3, <2>1, <2>2, <2>3, <2>4, <2>5, <2>6, <2>7, <2>8 DEF ControlStep
<1>4. ASSUME NEW s \in Stream, StreamStep(s) PROVE IInv'
  <2> DEFINE Moves(from, to) ==
        /\ Goto(s, from, to)
        /\ from \notin {"none", "locked"} /\ to \notin {"none", "locked"}
        /\ UNCHANGED <<alive, wasapiStream, mutex, hpc, call, joinee, running>>
  <2>1. CASE SetupFails(s)
    <3>1. Moves("setup", "exited")  BY <2>1 DEF SetupFails, Exit
    <3> QED BY <1>1, <3>1, ThreadStep
  <2>2. CASE SetupDone(s)
    <3>1. Moves("setup", "check")  BY <2>2 DEF SetupDone
    <3> QED BY <1>1, <3>1, ThreadStep
  <2>3. CASE LoopCheck(s)
    <3>1. Moves("check", "wait") \/ Moves("check", "teardown")
      BY <2>3 DEF LoopCheck, StreamOnly, Goto
    <3> QED BY <1>1, <3>1, ThreadStep
  <2>4. CASE BlockDue(s)
    <3>1. Moves("wait", "io") \/ Moves("wait", "teardown")
      BY <2>4 DEF BlockDue, StreamOnly, Goto
    <3> QED BY <1>1, <3>1, ThreadStep
  <2>5. CASE BlockIO(s)
    <3>1. Moves("io", "callback")  BY <2>5 DEF BlockIO, StreamOnly
    <3> QED BY <1>1, <3>1, ThreadStep
  <2>6. CASE CallbackCall(s)
    <3>1. Moves("callback", "want")  BY <2>6 DEF CallbackCall, StreamOnly
    <3> QED BY <1>1, <3>1, ThreadStep
  <2>7. CASE CallbackLock(s) \/ CallbackBody(s)
    BY <1>1, <2>7, CallbackLockStep
  <2>8. CASE CallbackReturn(s)
    <3>1. Moves("callback", "check") \/ Moves("return", "check")
      BY <2>8 DEF CallbackReturn, StreamOnly
    <3> QED BY <1>1, <3>1, ThreadStep
  <2>9. CASE Teardown(s)
    <3>1. Moves("teardown", "exited")  BY <2>9 DEF Teardown, Exit
    <3> QED BY <1>1, <3>1, ThreadStep
  <2> QED BY <1>4, <2>1, <2>2, <2>3, <2>4, <2>5, <2>6, <2>7, <2>8, <2>9 DEF StreamStep
<1>5. CASE CreateInstance  BY <1>1, <1>5, CreateStep
<1>6. CASE UNCHANGED vars  BY <1>6, StutterIInv
<1> QED BY <1>2, <1>3, <1>4, <1>5, <1>6 DEF Next

\* The inductive invariant holds in every reachable state.
THEOREM Invariance == Spec => []IInv
BY InitIInv, InvStep, PTL DEF Spec

\* No stream thread is lost or joined twice, however the host orders its calls
\* and however many of its threads make them.
THEOREM StreamsAreOwned == Spec => []StreamOwned
<1>1. IInv => StreamOwned  BY DEF IInv
<1> QED BY <1>1, Invariance, PTL

\* The stream of DriverState has not been told to stop; one being joined has.
THEOREM InstalledStreamRuns == Spec => []InstalledRuns
<1>1. IInv => InstalledRuns  BY DEF IInv
<1> QED BY <1>1, Invariance, PTL

\* After the last Release nothing of the driver runs and its lock is free.
THEOREM FreedDriverIsQuiet == Spec => []FreedIsQuiet
<1>1. ASSUME IInv PROVE FreedIsQuiet
  <2> SUFFICES ASSUME alive = "freed" PROVE mutex = Nil /\ \A s \in Stream : ~Exists(s)
    BY DEF FreedIsQuiet
  <2> USE <1>1 DEF IInv
  <2>1. \A h \in Control : joinee[h] = Nil /\ hpc[h] = "idle"
    BY DEF ReleaseInv, JoineeInv
  <2>2. \A s \in Stream : ~Exists(s)  BY <2>1 DEF ReleaseInv, StreamOwned
  <2>3. mutex \notin Control  BY <2>1 DEF LockInv
  <2>4. mutex \notin Stream  BY <2>2 DEF LockInv, Exists
  <2> QED BY <2>2, <2>3, <2>4 DEF TypeOK
<1> QED BY <1>1, Invariance, PTL

-----------------------------------------------------------------------------
(***************************************************************************)
(* A host that keeps to the ASIO life cycle and makes its control calls    *)
(* from one thread, for every set of streams, buffers, sizes and rates,    *)
(* and every call from a callback.  Two such threads would need an         *)
(* agreement between them that Allowed is not: both may find the driver    *)
(* stopped and start it.                                                   *)
(***************************************************************************)

\* The host of the theorems.
StrictHost == Strict /\ \A g, h \in Control : g = h

\* What DriverState and the host know of the buffers is the same, and their
\* size is the one in force.
BuffersInv ==
    /\ hostBuf = buffers
    /\ callbacks <=> buffers # Nil
    /\ buffers # Nil => bufFrames[buffers] = bufferFrames
    /\ alive = "freed" => buffers = Nil /\ ~playing

\* There is no thread while the host takes the driver for stopped, and a
\* thread that is being joined, by stop() alone, is the only one.
PlayInv ==
    /\ ~playing => \A s \in Stream : ~Exists(s)
    /\ \A h \in Control : joinee[h] # Nil => wasapiStream = Nil /\ call[h] = "stop"

\* What allowed a call holds until the call does its work.
AllowedInv == \A h \in Control : hpc[h] \in {"want", "locked"} => Allowed(call[h])

\* A thread was started with what is in force, and has it until it ends.
StartedInv ==
    \A s \in Stream : spc[s] \notin {"none", "exited"} =>
        /\ str[s] = [buf |-> buffers, frames |-> bufferFrames, rate |-> sampleRate]
        /\ buffers # Nil

HostInv == BuffersInv /\ PlayInv /\ AllowedInv /\ StartedInv

-----------------------------------------------------------------------------
(* Every step keeps it                                                     *)

\* The driver as it is created.
LEMMA InitHost == Init => HostInv
BY DEF Init, HostInv, BuffersInv, PlayInv, AllowedInv, StartedInv, Exists

\* A call that is allowed.
LEMMA AllowedCall ==
    /\ Allowed("createBuffers") <=> hostBuf = Nil /\ ~playing
    /\ Allowed("start") <=> hostBuf # Nil /\ ~playing
    /\ Allowed("disposeBuffers") <=> hostBuf # Nil /\ ~playing
    /\ Allowed("setSampleRate") <=> ~playing
    /\ Allowed("release") <=> ~playing
BY DEF Allowed

\* When the host's only call returns, none is under way.
LEMMA ReturnAllowed ==
    ASSUME StrictHost, TypeOK, NEW h \in Control, hpc' = [hpc EXCEPT ![h] = "idle"]
    PROVE  AllowedInv'
BY DEF StrictHost, TypeOK, AllowedInv

\* Calls that change nothing the host relies on.
LEMMA QuietHost ==
    ASSUME StrictHost, IInv, HostInv, NEW h \in Control, Leave(h),
           UNCHANGED <<alive, sampleRate, bufferFrames, buffers, callbacks, wasapiStream, spc,
                       str, bufFrames, hostBuf, playing>>,
           hpc[h] \in {"locked", "panel"}
    PROVE  HostInv'
<1>1. joinee' = joinee /\ \A g \in Control : joinee[g] = Nil
  BY DEF Leave, StrictHost, IInv, JoineeInv
<1>2. AllowedInv'
  BY ReturnAllowed DEF Leave, Return, IInv
<1> QED
  BY <1>1, <1>2 DEF HostInv, BuffersInv, PlayInv, StartedInv, Exists

\* The host begins a call that is allowed, or takes the lock for it.
LEMMA EnterHost ==
    ASSUME StrictHost, IInv, HostInv, NEW h \in Control,
           Lock(h) \/ AsioControlPanel(h) \/ \E c \in ControlCalls : Call(h, c)
    PROVE  HostInv'
<1>1. /\ UNCHANGED <<driverVars, joinee, streamVars, bufVars, hostVars>>
      /\ hpc[h] \notin {"signal", "join"}
  BY DEF Lock, AsioControlPanel, Inside, Call
<1>2. /\ BuffersInv' /\ StartedInv'
  BY <1>1 DEF HostInv, BuffersInv, StartedInv, driverVars, streamVars, bufVars, hostVars
<1>3. PlayInv'
  <2>1. \A g \in Control : joinee[g] = Nil
    BY <1>1 DEF StrictHost, IInv, JoineeInv
  <2> QED
    BY <1>1, <2>1 DEF HostInv, PlayInv, Exists, driverVars, streamVars, hostVars
<1>4. AllowedInv'
  <2>1. hpc' \in [Control -> HostPCs] /\ \A g \in Control : g = h
    BY DEF Lock, AsioControlPanel, Call, StrictHost, IInv, TypeOK, HostPCs
  <2>2. hostBuf' = hostBuf /\ playing' = playing
    BY <1>1 DEF hostVars
  <2>3. CASE Lock(h)
    BY <2>1, <2>2, <2>3 DEF Lock, HostInv, AllowedInv, Allowed
  <2>4. CASE AsioControlPanel(h)
    BY <2>1, <2>4 DEF AsioControlPanel, AllowedInv, IInv, TypeOK
  <2>5. ASSUME NEW c \in ControlCalls, Call(h, c) PROVE AllowedInv'
    <3>1. call'[h] = c /\ Allowed(c)
      BY <2>5 DEF Call, StrictHost, IInv, TypeOK
    <3> QED
      BY <2>1, <2>2, <3>1 DEF AllowedInv, Allowed
  <2> QED
    BY <2>3, <2>4, <2>5
<1> QED
  BY <1>2, <1>3, <1>4 DEF HostInv

\* createBuffers, disposeBuffers and setSampleRate find no thread.
LEMMA ChangeHost ==
    ASSUME StrictHost, IInv, HostInv, NEW h \in Control,
           AsioCreateBuffers(h) \/ AsioDisposeBuffers(h) \/ AsioSetSampleRate(h)
    PROVE  HostInv'
<1>1. /\ hpc[h] = "locked" /\ Leave(h) /\ alive # "freed"
      /\ UNCHANGED <<alive, wasapiStream, streamVars, playing>>
  BY DEF AsioCreateBuffers, AsioDisposeBuffers, AsioSetSampleRate, Inside, IInv, ReleaseInv,
         hostVars
<1>2. ~playing
  BY AllowedCall DEF AsioCreateBuffers, AsioDisposeBuffers, AsioSetSampleRate, Inside, HostInv,
                     AllowedInv
<1>3. \A s \in Stream : spc[s] = "none"
  BY <1>2 DEF HostInv, PlayInv, Exists
<1>4. AllowedInv'
  BY <1>1, ReturnAllowed DEF Leave, Return, IInv
<1>5. StartedInv' /\ PlayInv'
  <2>1. \A g \in Control : joinee[g] = Nil
    BY <1>1 DEF StrictHost, IInv, JoineeInv
  <2> QED
    BY <1>1, <1>3, <2>1 DEF StartedInv, PlayInv, Exists, streamVars, Leave
<1>6. BuffersInv'
  <2>1. CASE AsioCreateBuffers(h)
    <3>1. buffers = Nil
      BY <2>1, AllowedCall DEF AsioCreateBuffers, Inside, HostInv, AllowedInv, BuffersInv
    <3>2. PICK size \in Sizes :
            \/ UNCHANGED <<bufferFrames, buffers, callbacks, bufVars, hostBuf>>
            \/ /\ bufferFrames' = size
               /\ \E b \in Buf :
                    /\ bufFrames' = [bufFrames EXCEPT ![b] = size]
                    /\ Install(b)
            \/ UNCHANGED <<buffers, callbacks, bufVars, hostBuf>>
      BY <2>1, <3>1 DEF AsioCreateBuffers, Reusable
    <3>3. CASE UNCHANGED <<buffers, callbacks, bufVars, hostBuf>>
      BY <1>1, <3>1, <3>3 DEF HostInv, BuffersInv
    <3>4. ASSUME NEW b \in Buf, bufferFrames' = size,
                 bufFrames' = [bufFrames EXCEPT ![b] = size], Install(b)
          PROVE  BuffersInv'
      <4>1. b # Nil /\ bufFrames'[b] = size
        BY <3>4, ThreadsAssumption DEF IInv, TypeOK
      <4> QED
        BY <1>1, <3>4, <4>1 DEF BuffersInv, Install
    <3> QED
      BY <3>2, <3>3, <3>4
  <2>2. CASE AsioDisposeBuffers(h)
    BY <1>1, <2>2 DEF AsioDisposeBuffers, BuffersInv
  <2>3. CASE AsioSetSampleRate(h)
    BY <2>3 DEF AsioSetSampleRate, HostInv, BuffersInv, bufVars, hostVars
  <2> QED
    BY <2>1, <2>2, <2>3
<1> QED
  BY <1>4, <1>5, <1>6 DEF HostInv

\* start() finds no thread either, so that the new one is alone.
LEMMA StartHost ==
    ASSUME StrictHost, IInv, HostInv, NEW h \in Control, AsioStart(h)
    PROVE  HostInv'
<1>1. /\ hpc[h] = "locked" /\ alive' = alive /\ alive # "freed"
      /\ UNCHANGED <<sampleRate, bufferFrames, buffers, callbacks, bufVars, hostBuf>>
  BY DEF AsioStart, Inside, IInv, ReleaseInv
<1>2. ~playing
  BY AllowedCall DEF AsioStart, Inside, HostInv, AllowedInv
<1>3. (\A s \in Stream : spc[s] = "none") /\ wasapiStream = Nil
  BY <1>2 DEF HostInv, PlayInv, Exists, IInv, StreamOwned, TypeOK
<1>4. CASE Leave(h) /\ UNCHANGED <<wasapiStream, streamVars, playing>>
  BY <1>1, <1>4, QuietHost DEF streamVars, bufVars
<1>5. ASSUME NEW s \in Stream, Spawn(s), spc' = [spc EXCEPT ![s] = "setup"],
             wasapiStream' = s, playing' = TRUE, buffers # Nil, Leave(h)
      PROVE  HostInv'
  <2>1. AllowedInv'
    BY <1>5, ReturnAllowed DEF Leave, Return, IInv
  <2>2. BuffersInv'
    BY <1>1, <1>5 DEF HostInv, BuffersInv, bufVars
  <2>3. PlayInv'
    <3>1. \A g \in Control : joinee[g] = Nil
      BY <1>1 DEF StrictHost, IInv, JoineeInv
    <3> QED
      BY <1>5, <3>1 DEF PlayInv, Leave
  <2>4. StartedInv'
    <3>1. \A t \in Stream : t # s => spc'[t] = "none"
      BY <1>3, <1>5 DEF IInv, TypeOK
    <3>2. str'[s] = [buf |-> buffers, frames |-> bufferFrames, rate |-> sampleRate]
      BY <1>5 DEF Spawn, IInv, TypeOK
    <3> QED
      BY <1>1, <1>5, <3>1, <3>2 DEF StartedInv
  <2> QED
    BY <2>1, <2>2, <2>3, <2>4 DEF HostInv
<1> QED
  BY <1>3, <1>4, <1>5, StartEffect

\* stop() keeps playing until the one thread there is has been joined.
LEMMA StopHost ==
    ASSUME StrictHost, IInv, HostInv, NEW h \in Control, AsioStop(h)
    PROVE  HostInv'
<1>1. /\ hpc[h] = "locked" /\ call[h] = "stop" /\ wasapiStream' = Nil /\ alive # "freed"
      /\ playing' = (playing /\ wasapiStream # Nil)
      /\ UNCHANGED <<alive, sampleRate, bufferFrames, buffers, callbacks, streamVars, bufVars,
                     hostBuf>>
  BY DEF AsioStop, Stopping, Inside, IInv, ReleaseInv
<1>2. \A g \in Control : g = h /\ joinee[g] = Nil
  BY <1>1 DEF StrictHost, IInv, JoineeInv
<1>3. BuffersInv' /\ StartedInv'
  BY <1>1 DEF HostInv, BuffersInv, StartedInv, streamVars, bufVars
<1>4. CASE wasapiStream = Nil /\ Leave(h)
  <2>1. \A s \in Stream : ~Exists(s)
    BY <1>2, <1>4, ThreadsAssumption DEF IInv, StreamOwned
  <2>2. PlayInv'
    BY <1>1, <1>2, <1>4, <2>1 DEF PlayInv, Exists, streamVars, Leave
  <2>3. AllowedInv'
    BY <1>4, ReturnAllowed DEF Leave, Return, IInv
  <2> QED
    BY <1>3, <2>2, <2>3 DEF HostInv
<1>5. CASE wasapiStream # Nil /\ StopStream(h)
  <2>1. PlayInv'
    <3>1. playing
      BY <1>5 DEF HostInv, PlayInv, IInv, StreamOwned, TypeOK
    <3> QED
      BY <1>1, <1>2, <1>5, <3>1 DEF PlayInv, StopStream
  <2>2. AllowedInv'
    BY <1>2, <1>5 DEF AllowedInv, StopStream, IInv, TypeOK
  <2> QED
    BY <1>3, <2>1, <2>2 DEF HostInv
<1> QED
  BY <1>4, <1>5 DEF AsioStop

\* The last Release finds no thread, and leaves no buffers.
LEMMA ReleaseHost ==
    ASSUME StrictHost, IInv, HostInv, NEW h \in Control, Release(h)
    PROVE  HostInv'
<1>1. /\ hpc[h] = "want" /\ call[h] = "release"
      /\ buffers' = Nil /\ hostBuf' = Nil /\ callbacks' = FALSE /\ playing' = FALSE
      /\ UNCHANGED <<sampleRate, bufferFrames, streamVars, bufVars>>
  BY DEF Release
<1>2. ~playing
  BY <1>1, AllowedCall DEF HostInv, AllowedInv
<1>3. (\A s \in Stream : spc[s] = "none") /\ wasapiStream = Nil
  BY <1>2 DEF HostInv, PlayInv, Exists, IInv, StreamOwned, TypeOK
<1>4. Return(h) /\ UNCHANGED joinee
  BY <1>3 DEF Release
<1>5. \A g \in Control : joinee[g] = Nil
  BY <1>1 DEF StrictHost, IInv, JoineeInv
<1>6. AllowedInv'
  BY <1>4, ReturnAllowed DEF Return, IInv
<1> QED
  BY <1>1, <1>3, <1>4, <1>5, <1>6 DEF HostInv, BuffersInv, PlayInv, StartedInv, Exists,
                                      streamVars

\* The flag, and the join after which there is no thread any more.
LEMMA JoinHost ==
    ASSUME StrictHost, IInv, HostInv, NEW h \in Control, StopSignal(h) \/ StopJoin(h)
    PROVE  HostInv'
<1>1. /\ hpc[h] \in {"signal", "join"} /\ joinee[h] \in Stream /\ \A g \in Control : g = h
      /\ wasapiStream = Nil /\ call[h] = "stop"
  BY DEF StopSignal, StopJoin, StrictHost, IInv, JoineeInv, TypeOK, HostInv, PlayInv
<1>2. /\ UNCHANGED <<sampleRate, bufferFrames, buffers, callbacks, wasapiStream, str, bufVars,
                     hostBuf>>
      /\ alive' = alive /\ alive # "freed"
  BY <1>1 DEF StopSignal, StopJoin, driverVars, hostVars, IInv, ReleaseInv
<1>3. BuffersInv'
  BY <1>2 DEF HostInv, BuffersInv, bufVars
<1>4. AllowedInv'
  BY <1>1 DEF StopSignal, StopJoin, Return, AllowedInv, IInv, TypeOK
<1>5. CASE StopSignal(h)
  BY <1>2, <1>3, <1>4, <1>5 DEF StopSignal, HostInv, PlayInv, StartedInv, Exists, hostVars
<1>6. CASE StopJoin(h)
  <2>1. \A s \in Stream : spc'[s] = "none"
    BY <1>1, <1>6, ThreadsAssumption DEF StopJoin, IInv, StreamOwned, Exists, TypeOK
  <2>2. \A g \in Control : joinee'[g] = Nil
    BY <1>1, <1>6 DEF StopJoin, IInv, TypeOK
  <2> QED
    BY <1>3, <1>4, <2>1, <2>2 DEF HostInv, PlayInv, StartedInv, Exists
<1> QED
  BY <1>5, <1>6

\* A stream thread neither comes nor goes by itself, and gives up what it was
\* started with only when it ends.
LEMMA ThreadHost ==
    ASSUME IInv, HostInv, NEW s \in Stream, StreamStep(s)
    PROVE  HostInv'
<1>1. /\ UNCHANGED <<driverVars, controlVars, bufFrames, hostVars>>
      /\ spc[s] \notin {"none", "exited"}
      /\ \/ /\ str' = str
            /\ \E to \in StreamPCs \ {"none", "exited"} : spc' = [spc EXCEPT ![s] = to]
         \/ str' = [str EXCEPT ![s] = Idle] /\ spc' = [spc EXCEPT ![s] = "exited"]
  <2> USE DEF Goto, StreamOnly, StreamPCs
  <2>1. CASE SetupFails(s) \/ Teardown(s)
    BY <2>1 DEF SetupFails, Teardown, Exit, bufVars
  <2>2. CASE SetupDone(s)
    BY <2>2 DEF SetupDone, bufVars
  <2>3. CASE LoopCheck(s) \/ BlockDue(s)
    BY <2>3 DEF LoopCheck, BlockDue, bufVars
  <2>4. CASE BlockIO(s) \/ CallbackCall(s) \/ CallbackReturn(s)
    BY <2>4 DEF BlockIO, CallbackCall, CallbackReturn, bufVars
  <2>5. CASE CallbackLock(s) \/ CallbackBody(s)
    BY <2>5 DEF CallbackLock, CallbackBody, bufVars
  <2> QED
    BY <2>1, <2>2, <2>3, <2>4, <2>5 DEF StreamStep
<1>2. \A t \in Stream : /\ Exists(t)' <=> Exists(t)
                        /\ spc'[t] \notin {"none", "exited"} =>
                               spc[t] \notin {"none", "exited"} /\ str'[t] = str[t]
  BY <1>1 DEF Exists, IInv, TypeOK
<1>3. UNCHANGED <<alive, sampleRate, bufferFrames, buffers, callbacks, wasapiStream, hpc, call,
                  joinee, bufFrames, hostBuf, playing>>
  BY <1>1 DEF driverVars, controlVars, hostVars
<1>4. BuffersInv' /\ PlayInv'
  BY <1>2, <1>3 DEF HostInv, BuffersInv, PlayInv
<1>5. AllowedInv'
  BY <1>3 DEF HostInv, AllowedInv, Allowed
<1>6. StartedInv'
  BY <1>2, <1>3 DEF HostInv, StartedInv
<1> QED
  BY <1>4, <1>5, <1>6 DEF HostInv

\* A new driver object finds everything given back.
LEMMA CreateHost ==
    ASSUME IInv, HostInv, CreateInstance
    PROVE  HostInv'
<1>1. buffers = Nil /\ ~playing /\ \A h \in Control : hpc[h] = "idle"
  BY DEF CreateInstance, HostInv, BuffersInv, IInv, ReleaseInv
<1>2. \A s \in Stream : spc[s] = "none"
  BY <1>1 DEF HostInv, PlayInv, Exists
<1> QED
  BY <1>1, <1>2 DEF CreateInstance, HostInv, BuffersInv, PlayInv, AllowedInv, StartedInv, Exists,
                    controlVars, streamVars, bufVars, hostVars

-----------------------------------------------------------------------------
(* The theorems                                                            *)

\* A strict host with one thread never leaves the invariant.
LEMMA HostHolds == Spec => [](IInv /\ (StrictHost => HostInv))
<1>1. IInv /\ (StrictHost => HostInv) /\ [Next]_vars => (StrictHost => HostInv')
  <2> SUFFICES ASSUME IInv, StrictHost, HostInv, [Next]_vars PROVE HostInv'
    OBVIOUS
  <2>1. ASSUME NEW h \in Control, ControlStep(h) PROVE HostInv'
    <3>1. CASE AsioInit(h) \/ AsioQuery(h) \/ DismissPanel(h) \/ AsioOutputReady(h)
      BY <3>1, QuietHost DEF AsioInit, AsioQuery, DismissPanel, AsioOutputReady, Inside,
                             driverVars, streamVars, bufVars, hostVars
    <3> QED
      BY <2>1, <3>1, EnterHost, ChangeHost, StartHost, StopHost, ReleaseHost, JoinHost
         DEF ControlStep
  <2>2. ASSUME UNCHANGED vars PROVE HostInv'
    BY <2>2 DEF vars, driverVars, controlVars, streamVars, bufVars, hostVars, HostInv, BuffersInv,
                PlayInv, AllowedInv, Allowed, StartedInv, Exists
  <2> QED
    BY <2>1, <2>2, EnterHost, ThreadHost, CreateHost DEF Next
<1>2. StrictHost <=> StrictHost'
  BY DEF StrictHost
<1>3. IInv /\ (StrictHost => HostInv) /\ [Next]_vars => (StrictHost => HostInv)'
  BY <1>1, <1>2
<1> QED
  BY <1>3, InitHost, Invariance, PTL DEF Spec

\* Once stop() has returned, no stream thread is there to call the host back.
THEOREM StoppedIsQuiet == Spec => [](StrictHost => QuietWhenStopped)
<1>1. HostInv => QuietWhenStopped
  BY DEF HostInv, PlayInv, QuietWhenStopped
<1> QED
  BY <1>1, HostHolds, PTL

\* No two threads share a BufferManager.
THEOREM HalvesAreExclusive == Spec => [](StrictHost => HalfExclusive)
<1>1. IInv /\ StrictHost /\ HostInv => HalfExclusive
  <2> SUFFICES ASSUME IInv, StrictHost, HostInv, NEW s \in Stream, NEW t \in Stream,
                      Exists(s), Exists(t)
               PROVE  s = t
    BY DEF HalfExclusive, Streaming, Exists
  <2>1. CASE wasapiStream = Nil
    BY <2>1, ThreadsAssumption DEF IInv, StreamOwned, StrictHost
  <2>2. CASE wasapiStream # Nil
    BY <2>2, ThreadsAssumption DEF IInv, StreamOwned, HostInv, PlayInv
  <2> QED
    BY <2>1, <2>2
<1> QED
  BY <1>1, HostHolds, PTL

\* The buffers a thread moves are those the host sees, and are not disposed of.
THEOREM BuffersAreTheHosts == Spec => [](StrictHost => SameBuffers)
<1>1. HostInv => SameBuffers
  BY DEF HostInv, StartedInv, BuffersInv, SameBuffers, Streaming
<1> QED
  BY <1>1, HostHolds, PTL

\* A thread works with the size and the rate that the driver reports.
THEOREM SettingsHold == Spec => [](StrictHost => SettingsInForce)
<1>1. HostInv => SettingsInForce
  BY DEF HostInv, StartedInv, BuffersInv, SettingsInForce, Streaming
<1> QED
  BY <1>1, HostHolds, PTL

-----------------------------------------------------------------------------
(***************************************************************************)
(* Why a join returns.  That it does needs fairness and is left to the     *)
(* runs; proved is what it rests on: a thread that is being joined has few *)
(* steps left, and takes none that adds to them, and no thread of a strict *)
(* host keeps the lock from it.                                            *)
(***************************************************************************)

\* How many steps a thread that was told to stop has left at most, the one
\* that joins it included.
StepsLeft ==
    [none |-> 0, exited |-> 1, teardown |-> 2, check |-> 3, wait |-> 3, return |-> 4,
     setup |-> 4, locked |-> 5, want |-> 6, callback |-> 7, io |-> 8]

\* A step that a joined thread takes, or that is taken for it, uses one up.
JoineeNearsItsEnd ==
    \A h \in Control : hpc[h] = "join" /\ spc'[joinee[h]] # spc[joinee[h]] =>
        StepsLeft[spc'[joinee[h]]] < StepsLeft[spc[joinee[h]]]

\* The lock is free, or held by the thread that is being joined.
JoinerIsFree == \A h \in Control : hpc[h] = "join" => mutex \in {Nil, joinee[h]}

\* A step of a stream thread that was told to stop.
LEMMA StopsSoon ==
    ASSUME TypeOK, NEW s \in Stream, ~running[s], StreamStep(s)
    PROVE  StepsLeft[spc'[s]] < StepsLeft[spc[s]]
<1> USE DEF TypeOK, Goto, StepsLeft
<1>1. CASE SetupFails(s) \/ SetupDone(s) \/ Teardown(s)
  BY <1>1 DEF SetupFails, SetupDone, Teardown, Exit
<1>2. CASE LoopCheck(s) \/ BlockDue(s)
  BY <1>2 DEF LoopCheck, BlockDue
<1>3. CASE BlockIO(s) \/ CallbackCall(s) \/ CallbackReturn(s)
  BY <1>3 DEF BlockIO, CallbackCall, CallbackReturn
<1>4. CASE CallbackLock(s) \/ CallbackBody(s)
  BY <1>4 DEF CallbackLock, CallbackBody
<1> QED
  BY <1>1, <1>2, <1>3, <1>4 DEF StreamStep

\* A step of a stream thread leaves the others where they are.
LEMMA OnlyItsOwn ==
    ASSUME TypeOK, NEW s \in Stream, NEW t \in Stream, s # t, StreamStep(s)
    PROVE  spc'[t] = spc[t]
<1> USE DEF TypeOK, Goto
<1>1. CASE SetupFails(s) \/ SetupDone(s) \/ Teardown(s)
  BY <1>1 DEF SetupFails, SetupDone, Teardown, Exit
<1>2. CASE LoopCheck(s) \/ BlockDue(s)
  BY <1>2 DEF LoopCheck, BlockDue
<1>3. CASE BlockIO(s) \/ CallbackCall(s) \/ CallbackReturn(s)
  BY <1>3 DEF BlockIO, CallbackCall, CallbackReturn
<1>4. CASE CallbackLock(s) \/ CallbackBody(s)
  BY <1>4 DEF CallbackLock, CallbackBody
<1> QED
  BY <1>1, <1>2, <1>3, <1>4 DEF StreamStep

\* A call of the host moves a stream thread only by starting one that was not
\* there or by joining one that has ended.
LEMMA HostMoves ==
    ASSUME IInv, NEW h \in Control, ControlStep(h), NEW s \in Stream, spc'[s] # spc[s]
    PROVE  \/ ~Exists(s)
           \/ spc[s] = "exited" /\ spc'[s] = "none"
<1> USE DEF IInv, TypeOK
<1>1. CASE AsioStart(h)
  <2>1. PICK r \in Stream : ~Exists(r) /\ spc' = [spc EXCEPT ![r] = "setup"]
    <3>1. spc' # spc
      OBVIOUS
    <3> QED
      BY <1>1, <3>1, StartEffect DEF streamVars
  <2> QED
    BY <2>1
<1>2. CASE StopJoin(h)
  <2>1. /\ spc[joinee[h]] = "exited" /\ joinee[h] \in Stream
        /\ spc' = [spc EXCEPT ![joinee[h]] = "none"]
    BY <1>2, ThreadsAssumption DEF StopJoin, JoineeInv
  <2> QED
    BY <2>1
<1>3. CASE Lock(h) \/ AsioInit(h) \/ AsioQuery(h) \/ AsioControlPanel(h) \/ DismissPanel(h)
  BY <1>3 DEF Lock, AsioInit, AsioQuery, AsioControlPanel, DismissPanel, streamVars
<1>4. CASE AsioSetSampleRate(h) \/ AsioOutputReady(h) \/ AsioCreateBuffers(h)
  BY <1>4 DEF AsioSetSampleRate, AsioOutputReady, AsioCreateBuffers, streamVars
<1>5. CASE AsioDisposeBuffers(h) \/ AsioStop(h) \/ Release(h) \/ StopSignal(h)
  BY <1>5 DEF AsioDisposeBuffers, AsioStop, Stopping, Release, StopSignal, streamVars
<1> QED
  BY <1>1, <1>2, <1>3, <1>4, <1>5 DEF ControlStep

\* For every host, and from whatever place the thread is in when it is joined:
\* it finishes the block it is in, begins no other, and ends.
THEOREM JoineeEnds == Spec => [][JoineeNearsItsEnd]_vars
<1>1. IInv /\ [Next]_vars => [JoineeNearsItsEnd]_vars
  <2> SUFFICES ASSUME IInv, Next, NEW h \in Control, hpc[h] = "join",
                      spc'[joinee[h]] # spc[joinee[h]]
               PROVE  StepsLeft[spc'[joinee[h]]] < StepsLeft[spc[joinee[h]]]
    BY DEF JoineeNearsItsEnd
  <2> DEFINE s == joinee[h]
  <2>1. s \in Stream /\ ~running[s] /\ Exists(s)
    BY ThreadsAssumption DEF IInv, TypeOK, JoineeInv, StreamOwned, InstalledRuns
  <2> HIDE DEF s
  <2>2. ASSUME NEW t \in Stream, StreamStep(t) PROVE StepsLeft[spc'[s]] < StepsLeft[spc[s]]
    BY <2>1, <2>2, StopsSoon, OnlyItsOwn DEF IInv, s
  <2>3. ASSUME NEW g \in Control, ControlStep(g)
        PROVE  StepsLeft[spc'[s]] < StepsLeft[spc[s]]
    <3>1. spc[s] = "exited" /\ spc'[s] = "none"
      BY <2>1, <2>3, HostMoves DEF s
    <3> QED
      BY <3>1 DEF StepsLeft
  <2>4. ASSUME NEW g \in Control, NEW c \in ControlCalls, Call(g, c) PROVE FALSE
    BY <2>4 DEF Call, streamVars
  <2>5. CASE CreateInstance
    BY <2>5 DEF CreateInstance, streamVars
  <2> QED
    BY <2>2, <2>3, <2>4, <2>5 DEF Next, s
<1> QED
  BY <1>1, Invariance, PTL DEF Spec

\* The callback that a stop() waits for gets the lock when it asks for it.
THEOREM JoinsWithoutTheLock == Spec => [](StrictHost => JoinerIsFree)
<1>1. IInv /\ StrictHost /\ HostInv => JoinerIsFree
  <2> SUFFICES ASSUME IInv, StrictHost, HostInv, NEW h \in Control, hpc[h] = "join"
               PROVE  mutex \in {Nil, joinee[h]}
    BY DEF JoinerIsFree
  <2>1. joinee[h] # Nil /\ wasapiStream = Nil /\ call[h] = "stop"
    BY DEF IInv, JoineeInv, HostInv, PlayInv
  <2>2. \A g \in Control : g = h
    BY DEF StrictHost
  <2>3. mutex \notin Control
    BY <2>1, <2>2 DEF IInv, LockInv
  <2>4. ASSUME NEW s \in Stream, mutex = s PROVE s = joinee[h]
    <3>1. Exists(s)
      BY <2>4 DEF IInv, LockInv, Exists
    <3> QED
      BY <2>1, <2>2, <3>1, ThreadsAssumption DEF IInv, StreamOwned
  <2> QED
    BY <2>3, <2>4 DEF IInv, TypeOK
<1> QED
  BY <1>1, HostHolds, PTL

=============================================================================
