----------------------------- MODULE AsioDriver -----------------------------
(***************************************************************************)
(* The driver object of asio_driver.rs: DriverState behind its mutex, the  *)
(* API calls of the host, the stream threads that wasapi_backend.rs        *)
(* spawns, and the host callbacks those threads run.  A call takes the     *)
(* mutex in one step and does its work in the next, so that a thread that  *)
(* waits for the mutex is a state; join() is a wait of its own.  What one  *)
(* block of audio does to the buffer halves is in module WasapiLoop.       *)
(***************************************************************************)
EXTENDS Integers, FiniteSets

CONSTANTS
    Control,       \* the host's threads that call the API
    Stream,        \* bound: stream threads that exist at the same time
    Buf,           \* bound: BufferManagers that are alive at the same time
    Sizes,         \* the buffer sizes, in frames, that a host may ask for
    MinSize,       \* BUFFER_SIZE_MIN
    MaxSize,       \* BUFFER_SIZE_MAX
    PreferredSize, \* BUFFER_SIZE_PREFERRED
    Rates,         \* the rates canSampleRate() accepts
    DefaultRate,   \* DEFAULT_SAMPLE_RATE
    ControlCalls,  \* the API calls the control threads make
    CallbackCalls, \* the API calls the buffer_switch callback makes
    Strict,        \* TRUE: the host keeps to the ASIO life cycle
    Nil            \* None, the null pointer, the free mutex

Calls == {"init", "start", "stop", "createBuffers", "disposeBuffers",
          "setSampleRate", "query", "controlPanel", "outputReady", "release"}

ASSUME ThreadsAssumption ==
    /\ Control \cap Stream = {}
    /\ Nil \notin Control \cup Stream \cup Buf
ASSUME SizesAssumption ==
    /\ Sizes \subseteq Int
    /\ MinSize \in Nat /\ MaxSize \in Nat /\ PreferredSize \in Nat
    /\ DefaultRate \in Rates
ASSUME CallsAssumption ==
    /\ ControlCalls \subseteq Calls
    /\ CallbackCalls \subseteq {"outputReady", "query"}
    /\ Strict \in BOOLEAN

VARIABLES
    \* DriverState
    alive,        \* the driver object: "up", being "dropped", or "freed"
    initialized,  \* init() has succeeded once
    sampleRate,   \* st.sample_rate
    bufferFrames, \* st.buffer_frames
    buffers,      \* st.buffers: a BufferManager or Nil
    callbacks,    \* st.callbacks is Some
    wasapiStream, \* st.wasapi_stream: a stream or Nil
    mutex,        \* the thread that holds the lock on DriverState, or Nil
    \* the control threads
    hpc,          \* where each control thread is in its call
    call,         \* the call it is in, or "none"
    joinee,       \* the stream whose WasapiStream it stops, or Nil
    \* the stream threads
    spc,          \* where each stream thread is in wasapi_io_loop
    running,      \* WasapiStream.running
    str,          \* what the thread was started with: buffers, frames, rate
    cbCall,       \* the call its callback is in, or "none"
    \* the BufferManagers
    bufFrames,    \* BufferManager.frames
    bufRunning,   \* BufferManager.running
    asioReady,    \* asio_ready_event is set
    \* the host's own view
    hostBuf,      \* the BufferManager its buffer pointers lead to, or Nil
    playing       \* start() has returned ASE_OK and stop() has not returned

driverVars == <<alive, initialized, sampleRate, bufferFrames, buffers,
                callbacks, wasapiStream>>
controlVars == <<hpc, call, joinee>>
streamVars == <<spc, running, str, cbCall>>
bufVars == <<bufFrames, bufRunning, asioReady>>
hostVars == <<hostBuf, playing>>
vars == <<driverVars, mutex, controlVars, streamVars, bufVars, hostVars>>

Idle == [buf |-> Nil, frames |-> 0, rate |-> DefaultRate]

\* An Arc to b is held by DriverState or by the closure of a stream thread.
BufLive(b) == b = buffers \/ \E s \in Stream : str[s].buf = b

\* The thread has been spawned and has not been joined.
Exists(s) == spc[s] # "none"

\* The thread works on its BufferManager.
Streaming(s) == spc[s] \in {"check", "wait", "io", "callback", "want", "locked",
                            "return"}

\* The driver object starts as DriverState::new() makes it.
Init ==
    /\ alive = "up"
    /\ initialized = FALSE
    /\ sampleRate = DefaultRate
    /\ bufferFrames = PreferredSize
    /\ buffers = Nil
    /\ callbacks = FALSE
    /\ wasapiStream = Nil
    /\ mutex = Nil
    /\ hpc = [h \in Control |-> "idle"]
    /\ call = [h \in Control |-> "none"]
    /\ joinee = [h \in Control |-> Nil]
    /\ spc = [s \in Stream |-> "none"]
    /\ running = [s \in Stream |-> FALSE]
    /\ str = [s \in Stream |-> Idle]
    /\ cbCall = [s \in Stream |-> "none"]
    /\ bufFrames = [b \in Buf |-> 0]
    /\ bufRunning = [b \in Buf |-> FALSE]
    /\ asioReady = [b \in Buf |-> FALSE]
    /\ hostBuf = Nil
    /\ playing = FALSE

-----------------------------------------------------------------------------
(* The host's control threads                                              *)

\* The ASIO life cycle, from what the host knows: createBuffers once before
\* start, start and stop in turn, dispose, a new rate and the last Release
\* only while stopped.  A host that is not Strict calls in any order.
Allowed(c) ==
    CASE c = "createBuffers" -> hostBuf = Nil /\ ~playing
      [] c = "start" -> hostBuf # Nil /\ ~playing
      [] c = "stop" -> playing
      [] c = "disposeBuffers" -> hostBuf # Nil /\ ~playing
      [] c \in {"setSampleRate", "release"} -> ~playing
      [] OTHER -> TRUE

\* The host calls the API.  The last Release cannot run beside another call,
\* whose caller holds a reference of its own.
Call(h, c) ==
    /\ alive = "up"
    /\ hpc[h] = "idle"
    /\ Strict => Allowed(c)
    /\ c = "release" => \A g \in Control : hpc[g] = "idle"
    /\ \A g \in Control : hpc[g] # "idle" => call[g] # "release"
    /\ hpc' = [hpc EXCEPT ![h] = "want"]
    /\ call' = [call EXCEPT ![h] = c]
    /\ UNCHANGED <<driverVars, mutex, joinee, streamVars, bufVars, hostVars>>

\* self.state.lock().  A start() that finds no free Stream slot is not run:
\* that is the bound on stream threads, not the code.
Lock(h) ==
    /\ hpc[h] = "want" /\ call[h] # "release"
    /\ mutex = Nil
    /\ call[h] = "start" => \E s \in Stream : ~Exists(s)
    /\ mutex' = h
    /\ hpc' = [hpc EXCEPT ![h] = "locked"]
    /\ UNCHANGED <<driverVars, call, joinee, streamVars, bufVars, hostVars>>

Inside(h, c) == hpc[h] = "locked" /\ call[h] = c

Return(h) ==
    /\ hpc' = [hpc EXCEPT ![h] = "idle"]
    /\ call' = [call EXCEPT ![h] = "none"]

\* The guard goes out of scope and the call returns.
Leave(h) == mutex' = Nil /\ Return(h) /\ UNCHANGED joinee

\* A failed init() leaves an earlier success in place.
AsioInit(h) ==
    /\ Inside(h, "init")
    /\ initialized' \in {initialized, TRUE}
    /\ Leave(h)
    /\ UNCHANGED <<alive, sampleRate, bufferFrames, buffers, callbacks,
                   wasapiStream, streamVars, bufVars, hostVars>>

AsioSetSampleRate(h) ==
    /\ Inside(h, "setSampleRate")
    /\ sampleRate' \in Rates
    /\ Leave(h)
    /\ UNCHANGED <<alive, initialized, bufferFrames, buffers, callbacks,
                   wasapiStream, streamVars, bufVars, hostVars>>

\* getErrorMessage, getLatencies, getSampleRate and getSamplePosition read
\* DriverState under the lock and change nothing.
AsioQuery(h) ==
    /\ Inside(h, "query")
    /\ Leave(h)
    /\ UNCHANGED <<driverVars, streamVars, bufVars, hostVars>>

\* controlPanel() keeps the guard while its modal MessageBoxW is open.
AsioControlPanel(h) ==
    /\ Inside(h, "controlPanel")
    /\ hpc' = [hpc EXCEPT ![h] = "panel"]
    /\ UNCHANGED <<driverVars, mutex, call, joinee, streamVars, bufVars, hostVars>>

DismissPanel(h) ==
    /\ hpc[h] = "panel"
    /\ Leave(h)
    /\ UNCHANGED <<driverVars, streamVars, bufVars, hostVars>>

\* signal_asio_ready() on the BufferManager of DriverState, if there is one
SignalAsioReady ==
    asioReady' = IF buffers = Nil THEN asioReady
                 ELSE [asioReady EXCEPT ![buffers] = TRUE]

AsioOutputReady(h) ==
    /\ Inside(h, "outputReady")
    /\ SignalAsioReady
    /\ Leave(h)
    /\ UNCHANGED <<driverVars, streamVars, bufFrames, bufRunning, hostVars>>

\* The host has its pointers into b, and DriverState b and the callbacks.
Install(b) ==
    /\ buffers' = b
    /\ callbacks' = TRUE
    /\ hostBuf' = b

\* st.buffers.as_ref().filter(|b| b.frames == frames)
Reusable(size) == buffers # Nil /\ bufFrames[buffers] = size

\* Mutant: only the upper bound of the size is checked.
AsioCreateBuffers_NoMinimum(h) ==
    /\ Inside(h, "createBuffers")
    /\ Leave(h)
    /\ \E size \in Sizes : size <= MaxSize /\ bufferFrames' = size
    /\ UNCHANGED <<alive, initialized, sampleRate, buffers, callbacks, wasapiStream,
                   streamVars, bufVars, hostVars>>

\* createBuffers(): the size is checked and stored before BufferManager::new,
\* which can fail; a BufferManager of the same size is used again.
AsioCreateBuffers(h) ==
    /\ Inside(h, "createBuffers")
    /\ Leave(h)
    /\ UNCHANGED <<alive, initialized, sampleRate, wasapiStream, streamVars, playing>>
    /\ \E size \in Sizes :
        \/ /\ size < MinSize \/ size > MaxSize
           /\ UNCHANGED <<bufferFrames, buffers, callbacks, bufVars, hostBuf>>
        \/ /\ size \in MinSize..MaxSize
           /\ bufferFrames' = size
           /\ \/ /\ Reusable(size)
                 /\ Install(buffers)
                 /\ UNCHANGED bufVars
              \/ /\ ~Reusable(size)
                 /\ \/ \E b \in Buf :
                        /\ ~BufLive(b)
                        /\ bufFrames' = [bufFrames EXCEPT ![b] = size]
                        /\ bufRunning' = [bufRunning EXCEPT ![b] = FALSE]
                        /\ asioReady' = [asioReady EXCEPT ![b] = FALSE]
                        /\ Install(b)
                    \/ UNCHANGED <<buffers, callbacks, bufVars, hostBuf>>

\* disposeBuffers() forgets the buffers; a stream that runs is left alone.
AsioDisposeBuffers(h) ==
    /\ Inside(h, "disposeBuffers")
    /\ buffers' = Nil
    /\ callbacks' = FALSE
    /\ hostBuf' = Nil
    /\ Leave(h)
    /\ UNCHANGED <<alive, initialized, sampleRate, bufferFrames, wasapiStream,
                   streamVars, bufVars, playing>>

\* The call goes on to stop the stream that DriverState holds.
StopStream(h) ==
    /\ joinee' = [joinee EXCEPT ![h] = wasapiStream]
    /\ hpc' = [hpc EXCEPT ![h] = "signal"]
    /\ UNCHANGED call

\* Mutant: the thread works with the size the driver prefers.
Spawn_PreferredSize(s) ==
    /\ running' = [running EXCEPT ![s] = TRUE]
    /\ str' = [str EXCEPT ![s] =
                [buf |-> buffers, frames |-> PreferredSize, rate |-> sampleRate]]
    /\ UNCHANGED cbCall

\* WasapiStream::start: the thread runs on its own from here on.
Spawn(s) ==
    /\ running' = [running EXCEPT ![s] = TRUE]
    /\ str' = [str EXCEPT ![s] =
                [buf |-> buffers, frames |-> bufferFrames, rate |-> sampleRate]]
    /\ UNCHANGED cbCall

\* start() has the new thread run, then stores its WasapiStream: the stream
\* that was there before is dropped, which stops it, still under the lock.
AsioStart(h) ==
    /\ Inside(h, "start")
    /\ UNCHANGED <<alive, initialized, sampleRate, bufferFrames, buffers, callbacks,
                   bufVars, hostBuf>>
    /\ \/ /\ ~initialized \/ buffers = Nil \/ ~callbacks
          /\ Leave(h)
          /\ UNCHANGED <<wasapiStream, streamVars, playing>>
       \/ /\ initialized /\ buffers # Nil /\ callbacks
          /\ playing' = TRUE
          /\ \E s \in Stream :
              /\ ~Exists(s)
              /\ Spawn(s)
              /\ spc' = [spc EXCEPT ![s] = "setup"]
              /\ wasapiStream' = s
          /\ \/ wasapiStream = Nil /\ Leave(h)
             \/ wasapiStream # Nil /\ StopStream(h) /\ mutex' = mutex

\* What stop() checks and leaves alone; when there is no stream it just returns.
Stopping(h) ==
    /\ Inside(h, "stop")
    /\ playing' = (playing /\ wasapiStream # Nil)
    /\ UNCHANGED <<alive, initialized, sampleRate, bufferFrames, buffers, callbacks,
                   streamVars, bufVars, hostBuf>>

\* Mutant: stop() drops the JoinHandle, which lets the thread run on.
AsioStop_Detach(h) ==
    /\ Inside(h, "stop")
    /\ wasapiStream' = Nil /\ playing' = FALSE
    /\ Leave(h)
    /\ UNCHANGED <<alive, initialized, sampleRate, bufferFrames, buffers, callbacks,
                   streamVars, bufVars, hostBuf>>

\* Mutant: stop() borrows the stream and leaves it in DriverState.
AsioStop_NoTake(h) ==
    /\ Stopping(h)
    /\ UNCHANGED wasapiStream
    /\ \/ wasapiStream = Nil /\ Leave(h)
       \/ wasapiStream # Nil /\ StopStream(h) /\ mutex' = Nil

\* Mutant: stop() keeps the guard while it joins.
AsioStop_UnderLock(h) ==
    /\ Stopping(h)
    /\ wasapiStream' = Nil
    /\ \/ wasapiStream = Nil /\ Leave(h)
       \/ wasapiStream # Nil /\ StopStream(h) /\ mutex' = mutex

\* stop() takes the stream out of DriverState and drops the guard first.
AsioStop(h) ==
    /\ Stopping(h)
    /\ wasapiStream' = Nil
    /\ \/ wasapiStream = Nil /\ Leave(h)
       \/ wasapiStream # Nil /\ StopStream(h) /\ mutex' = Nil

\* Mutant: the last Release does not wait for the stream.
Release_Detach(h) ==
    /\ hpc[h] = "want" /\ call[h] = "release"
    /\ buffers' = Nil /\ callbacks' = FALSE /\ wasapiStream' = Nil
    /\ hostBuf' = Nil /\ playing' = FALSE
    /\ alive' = "freed" /\ Return(h)
    /\ UNCHANGED <<initialized, sampleRate, bufferFrames, mutex, joinee, streamVars,
                   bufVars>>

\* The last Release drops the fields of DriverState in their order, without
\* the lock: the Arc, the callbacks, then the WasapiStream, which stops it.
Release(h) ==
    /\ hpc[h] = "want" /\ call[h] = "release"
    /\ buffers' = Nil
    /\ callbacks' = FALSE
    /\ wasapiStream' = Nil
    /\ hostBuf' = Nil
    /\ playing' = FALSE
    /\ \/ wasapiStream = Nil /\ alive' = "freed" /\ Return(h) /\ UNCHANGED joinee
       \/ wasapiStream # Nil /\ alive' = "dropped" /\ StopStream(h)
    /\ UNCHANGED <<initialized, sampleRate, bufferFrames, mutex, streamVars, bufVars>>

\* Mutant: the flag is not stored.
StopSignal_NoStore(h) ==
    /\ hpc[h] = "signal"
    /\ hpc' = [hpc EXCEPT ![h] = "join"]
    /\ UNCHANGED <<driverVars, mutex, call, joinee, streamVars, bufVars, hostVars>>

\* WasapiStream::stop, first half: the thread is told to leave its loop.
StopSignal(h) ==
    /\ hpc[h] = "signal"
    /\ running' = [running EXCEPT ![joinee[h]] = FALSE]
    /\ hpc' = [hpc EXCEPT ![h] = "join"]
    /\ UNCHANGED <<driverVars, mutex, call, joinee, spc, str, cbCall, bufVars, hostVars>>

\* Mutant: stop() gives up the join and leaves the thread to itself.
StopJoin_GiveUp(h) ==
    /\ hpc[h] = "join"
    /\ joinee' = [joinee EXCEPT ![h] = Nil]
    /\ Return(h)
    /\ mutex' = IF mutex = h THEN Nil ELSE mutex
    /\ alive' = IF call[h] = "release" THEN "freed" ELSE alive
    /\ playing' = (playing /\ call[h] # "stop")
    /\ UNCHANGED <<initialized, sampleRate, bufferFrames, buffers, callbacks,
                   wasapiStream, streamVars, bufVars, hostBuf>>

\* WasapiStream::stop, second half: join() returns once the thread has ended.
\* The caller returns then; start() lets go of the lock as it does.
StopJoin(h) ==
    /\ hpc[h] = "join"
    /\ spc[joinee[h]] = "exited"
    /\ spc' = [spc EXCEPT ![joinee[h]] = "none"]
    /\ joinee' = [joinee EXCEPT ![h] = Nil]
    /\ Return(h)
    /\ mutex' = IF mutex = h THEN Nil ELSE mutex
    /\ alive' = IF call[h] = "release" THEN "freed" ELSE alive
    /\ playing' = (playing /\ call[h] # "stop")
    /\ UNCHANGED <<initialized, sampleRate, bufferFrames, buffers, callbacks,
                   wasapiStream, running, str, cbCall, bufVars, hostBuf>>

\* The host creates the driver object again after it released the last one.
CreateInstance ==
    /\ alive = "freed"
    /\ alive' = "up"
    /\ initialized' = FALSE
    /\ sampleRate' = DefaultRate
    /\ bufferFrames' = PreferredSize
    /\ UNCHANGED <<buffers, callbacks, wasapiStream>>
    /\ UNCHANGED <<mutex, controlVars, streamVars, bufVars, hostVars>>

-----------------------------------------------------------------------------
(* The stream threads                                                      *)

Goto(s, from, to) ==
    /\ spc[s] = from
    /\ spc' = [spc EXCEPT ![s] = to]

\* The thread leaves wasapi_io_loop and drops its Arc.
Exit(s, from) ==
    /\ Goto(s, from, "exited")
    /\ str' = [str EXCEPT ![s] = Idle]
    /\ UNCHANGED <<driverVars, mutex, controlVars, running, cbCall, bufVars, hostVars>>

\* CoCreateInstance or CreateEventW fails: `?` ends the thread, which start()
\* has already reported as started.
SetupFails(s) == Exit(s, "setup")

\* Clients, pins and the silence in front of the first block are in place.
SetupDone(s) ==
    /\ Goto(s, "setup", "check")
    /\ bufRunning' = [bufRunning EXCEPT ![str[s].buf] = TRUE]
    /\ UNCHANGED <<driverVars, mutex, controlVars, running, str, cbCall, bufFrames,
                   asioReady, hostVars>>

StreamOnly == UNCHANGED <<driverVars, mutex, controlVars, running, str, bufVars, hostVars>>

\* while running.load(..)
LoopCheck(s) ==
    /\ Goto(s, "check", IF running[s] THEN "wait" ELSE "teardown")
    /\ StreamOnly /\ UNCHANGED cbCall

\* The wait of at most 20 ms and the sleep are over; the flag is read again.
BlockDue(s) ==
    /\ Goto(s, "wait", IF running[s] THEN "io" ELSE "teardown")
    /\ StreamOnly /\ UNCHANGED cbCall

\* Capture into one half, render from the other; then buffer_switch.
BlockIO(s) ==
    /\ Goto(s, "io", "callback")
    /\ StreamOnly /\ UNCHANGED cbCall

\* The callback makes an API call, at most one for each block (bound).
CallbackCall(s) ==
    /\ Goto(s, "callback", "want")
    /\ \E c \in CallbackCalls : cbCall' = [cbCall EXCEPT ![s] = c]
    /\ StreamOnly

CallbackLock(s) ==
    /\ mutex = Nil
    /\ Goto(s, "want", "locked")
    /\ mutex' = s
    /\ UNCHANGED <<driverVars, controlVars, running, str, cbCall, bufVars, hostVars>>

CallbackBody(s) ==
    /\ Goto(s, "locked", "return")
    /\ mutex' = Nil
    /\ IF cbCall[s] = "outputReady" THEN SignalAsioReady ELSE UNCHANGED asioReady
    /\ cbCall' = [cbCall EXCEPT ![s] = "none"]
    /\ UNCHANGED <<driverVars, controlVars, running, str, bufFrames, bufRunning, hostVars>>

\* buffer_switch returns to the loop.
CallbackReturn(s) ==
    /\ Goto(s, "callback", "check") \/ Goto(s, "return", "check")
    /\ StreamOnly /\ UNCHANGED cbCall

Teardown(s) == Exit(s, "teardown")

-----------------------------------------------------------------------------

ControlStep(h) ==
    \/ Lock(h)
    \/ AsioInit(h)
    \/ AsioSetSampleRate(h)
    \/ AsioQuery(h)
    \/ AsioControlPanel(h)
    \/ DismissPanel(h)
    \/ AsioOutputReady(h)
    \/ AsioCreateBuffers(h)
    \/ AsioDisposeBuffers(h)
    \/ AsioStart(h)
    \/ AsioStop(h)
    \/ Release(h)
    \/ StopSignal(h)
    \/ StopJoin(h)

StreamStep(s) ==
    \/ SetupFails(s)
    \/ SetupDone(s)
    \/ LoopCheck(s)
    \/ BlockDue(s)
    \/ BlockIO(s)
    \/ CallbackCall(s)
    \/ CallbackLock(s)
    \/ CallbackBody(s)
    \/ CallbackReturn(s)
    \/ Teardown(s)

Next ==
    \/ \E h \in Control, c \in ControlCalls : Call(h, c)
    \/ \E h \in Control : ControlStep(h)
    \/ \E s \in Stream : StreamStep(s)
    \/ CreateInstance

Spec == Init /\ [][Next]_vars

\* A thread that can run does: the operating system schedules it, a wait has
\* a time-out, the device completes its transfers, the callback returns, the
\* user closes the message box.  Nothing makes the host call, and the mutex
\* hands itself to no one in particular.
Fairness ==
    /\ \A h \in Control : WF_vars(ControlStep(h))
    /\ \A s \in Stream : WF_vars(StreamStep(s))

FairSpec == Spec /\ Fairness

-----------------------------------------------------------------------------
(* What the driver promises                                                *)

HostPCs == {"idle", "want", "locked", "panel", "signal", "join"}
StreamPCs == {"none", "setup", "check", "wait", "io", "callback", "want", "locked",
              "return", "teardown", "exited"}

\* Every variable has a value of the kind the code can store in it.
TypeOK ==
    /\ alive \in {"up", "dropped", "freed"}
    /\ initialized \in BOOLEAN
    /\ sampleRate \in Rates
    /\ bufferFrames \in Nat
    /\ buffers \in Buf \cup {Nil}
    /\ callbacks \in BOOLEAN
    /\ wasapiStream \in Stream \cup {Nil}
    /\ mutex \in Control \cup Stream \cup {Nil}
    /\ hpc \in [Control -> HostPCs]
    /\ call \in [Control -> Calls \cup {"none"}]
    /\ joinee \in [Control -> Stream \cup {Nil}]
    /\ spc \in [Stream -> StreamPCs]
    /\ running \in [Stream -> BOOLEAN]
    /\ str \in [Stream -> [buf : Buf \cup {Nil}, frames : Nat, rate : Rates]]
    /\ cbCall \in [Stream -> Calls \cup {"none"}]
    /\ bufFrames \in [Buf -> Nat]
    /\ bufRunning \in [Buf -> BOOLEAN]
    /\ asioReady \in [Buf -> BOOLEAN]
    /\ hostBuf \in Buf \cup {Nil}
    /\ playing \in BOOLEAN

\* A stream thread that has not been joined is either the stream DriverState
\* holds or the one that exactly one call of stop, start or Release is about
\* to join: no thread is ever lost or joined twice, whatever the host calls.
StreamOwned ==
    /\ \A s \in Stream :
        Exists(s) <=> wasapiStream = s \/ \E h \in Control : joinee[h] = s
    /\ \A h \in Control : joinee[h] # Nil =>
        /\ joinee[h] # wasapiStream
        /\ \A g \in Control \ {h} : joinee[g] # joinee[h]

\* The stream that DriverState holds has not been told to stop, and a stream
\* that is being joined has: start over stop never silences the new stream,
\* and no join waits for a thread that was never told to end.
InstalledRuns ==
    /\ wasapiStream # Nil => running[wasapiStream]
    /\ \A h \in Control : hpc[h] = "join" => ~running[joinee[h]]

\* Once the last Release has returned no thread of the driver runs any more:
\* the object's memory, and then the DLL's code, can go.
FreedIsQuiet == alive = "freed" => mutex = Nil /\ \A s \in Stream : ~Exists(s)

\* For a host that keeps to the life cycle: once stop() has returned, no
\* stream thread exists, so no buffer_switch comes after stop().
QuietWhenStopped ==
    ~playing /\ (\A h \in Control : hpc[h] = "idle") => \A s \in Stream : ~Exists(s)

\* For such a host: two stream threads never work on the same BufferManager,
\* so the half the host fills is not the half another thread drains.
HalfExclusive ==
    \A s, t \in Stream : Streaming(s) /\ Streaming(t) /\ s # t => str[s].buf # str[t].buf

\* For such a host: while a thread moves audio or runs the callback, the
\* buffers it moves are those the host has pointers to, and the callbacks
\* have not been disposed of.
SameBuffers ==
    \A s \in Stream : Streaming(s) => str[s].buf = hostBuf /\ hostBuf # Nil /\ callbacks

\* For such a host: the size and the rate a thread works with are those that
\* getLatencies() and getSampleRate() report, and the size is the one its
\* BufferManager was allocated with.
SettingsInForce ==
    \A s \in Stream : Streaming(s) =>
        /\ str[s].frames = bufferFrames /\ str[s].rate = sampleRate
        /\ bufFrames[str[s].buf] = bufferFrames

\* For such a host: a call that joins the stream thread returns, although the
\* callback of that thread may be about to take the lock.
JoinReturns == \A h \in Control : hpc[h] = "join" ~> hpc[h] = "idle"

-----------------------------------------------------------------------------
(* What the source's comments say of it, and the code does not keep        *)

\* asio_driver.rs:14: start() begins the streaming thread; so it returns.
StartReturns ==
    \A h \in Control : hpc[h] = "locked" /\ call[h] = "start" ~> hpc[h] = "idle"

=============================================================================
