# Verification of the iRig USB ASIO driver

This directory holds TLA+ models of the driver, TLC configurations that check
them on small instances, and proofs that TLAPS checks for every value of the
constants. `PROJECT.json` lists components, runs, mutants, the source lines
behind each definition, findings, hazards and theorems.

## The system

`irig_asio.dll` is an ASIO driver: a host (a DAW) loads it through COM, calls
its IASIO methods and is called back, once per block of audio, by a thread of
the driver.

| component | state | operations | shares with |
|---|---|---|---|
| COM objects, class factory, exports (`asio_com.rs`, `com_server.rs`, `lib.rs`) | reference counts, server lock count | QueryInterface, AddRef, Release, CreateInstance, LockServer, DllGetClassObject, DllCanUnloadNow | the client threads that hold references, the COM runtime |
| driver object (`asio_driver.rs`) | `DriverState` behind a mutex: initialized, rate, size, buffers, callbacks, stream | the IASIO calls | the host's threads; the stream thread, from inside a callback |
| stream object (`WasapiStream`) | a flag, a counter, a join handle | start, stop, Drop | the driver object, the stream thread |
| audio loop (`wasapi_io_loop`) | the block in progress, a sample counter | one block: wait, swap, capture, render, count, call back | the buffers, the audio engine, the kernel device |
| double buffers (`buffer_manager.rs`) | two halves per channel, the active index, two events | swap, signal | host and stream thread |
| kernel streaming (`ks_device.rs`, `KsCaptureState`, `KsRenderState`) | handles, one overlapped request per direction | open a pin, submit, wait, cancel, drop | the kernel; the handle table of the process |
| set-up of the loop, endpoint search, sample formats (`wasapi_backend.rs`) | devices, clients, formats, KS states | find_endpoint, activation, format discovery, fallback, conversion | Windows, the audio loop |
| registration, installer, scripts | registry, files, the Uninstall key | register, unregister, install, uninstall | each other (one set of registry entries, two places for the DLL), hosts that hold the DLL |
| probe | the configuration file | measure five seconds of input | the endpoint search |
| direct KS engine (`ks_engine.rs`) | a flag, a join handle; two pins, one request each | start, stop, one block | the buffers, the kernel; nothing in the driver constructs it |

What is hard here is the concurrency of three parties over one mutex and one
pair of buffers (host threads, the stream thread, the callback that calls back
into the driver), the hand-over of threads at start, stop and Release, ownership
of memory and handles while the kernel works on them, and failures half way
through a call. Nothing is persistent except the registry and the files of the
installer, so crashes and restarts matter for the installer only.

What makes each part correct:

- driver and stream object: no thread is lost or joined twice; nothing runs and
  no callback comes after stop() or the last Release; a stream works with the
  buffers, size and rate in force; stop() returns;
- audio loop, engine and buffers: the halves take turns; no block of the host is
  skipped or handed back before the device was offered it; the host keeps being
  called; a lost device is reported;
- set-up: capture never comes from a foreign device, rendering goes where the
  search says it should or to the default device, and nothing is converted with
  a format that was not read, or past the end of a packet;
- kernel streaming: no memory is freed or touched while the kernel owns it; no
  handle leaks or is closed twice; the thread ends;
- COM: no use after free, no leak, no unloading under a live object;
- installer: success is told only of an installation that works, installing
  again heals what failed, uninstalling leaves nothing, the registry never names
  a DLL that is missing, or one that is not whole other than while it is written.

## Modules

| module | models | run by |
|---|---|---|
| `AsioDriver` | the driver object, its mutex, the host's calls, stream threads and callbacks | `MCAsioDriver`: `driver_*` |
| `StreamSetup` | how the stream thread finds devices, formats and paths | `MCStreamSetup`: `setup` |
| `EndpointSelect` | find_endpoint, as operators | through `StreamSetup` |
| `SampleFormat` | formats, widths and scaling, as operators | through `StreamSetup` |
| `PingPong` | what the double buffer promises | as a property of `WasapiLoop` and `KsEngine` |
| `WasapiLoop` | the audio loop over one BufferManager, session after session | `MCWasapiLoop`: `loop*` |
| `KsStream` | pins and requests of direct kernel streaming, and a handle table | `MCKsStream`: `ks_*` |
| `KsEngine` | the alternative engine, session after session | itself: `engine` |
| `ComServer` | reference counts, server lock, unloading | `MCComServer`: `com_*` |
| `Installer` | setup program, scripts, registration, hosts that hold the DLL | `MCInstaller`: `install` |
| `AsioDriverProofs`, `StreamSetupProofs`, `WasapiLoopProofs`, `KsStreamProofs`, `KsEngineProofs`, `ComServerProofs`, `InstallerProofs` | theorems about the module they are named for | TLAPS |
| `KsHandleProofs` | theorems about the handles of `KsStream` | TLAPS |

How they fit together: `AsioDriver` has the life of a stream thread from outside
(spawned, told to stop, joined); `StreamSetup` is what that thread does first and
ends with a path for each direction; `WasapiLoop` starts from any such pair of
paths; `KsStream` opens up the two KS paths. What one module leaves to another
is nondeterministic in it, so each may be read and checked alone.

### AsioDriver

A call of the host is two or more steps: `Call` (the host decides to call),
`Lock` (`self.state.lock()`), the body of the method, and, where the method
joins a thread, `StopSignal` and `StopJoin`. A thread that waits for the mutex
or for a join is therefore a state. `controlPanel()` keeps the mutex while its
message box is open (`"panel"`). `stop()` takes the stream and drops the guard
before it joins; `start()` over a running stream drops the old `WasapiStream`
with the guard still held; the last `Release` drops the fields without the lock.
`joinee[h]` is the `WasapiStream` a call owns. The stream thread walks through
setup, the loop, and the callback, in which the host may call `outputReady()`
or one of the readers and so wait for the mutex itself.

The host is a part of the model. A `Strict` host keeps to the ASIO life cycle
(`Allowed`): createBuffers before start, start and stop in turn, and dispose,
setSampleRate and Release only when stopped. A host that is not strict calls
anything at any time from all of its threads; only the last Release excludes
other calls, because each caller holds a reference.

### WasapiLoop and PingPong

`WasapiLoop` takes one block apart: flag, swap, capture packet by packet,
lost-device check, render, callback. What a device will not do any more is in
`stuck` (`Stick`, at any time): a capture client that goes on refusing the packet
that waits, also after a `ReleaseBuffer()` that failed, a render pin that does
not complete its write, a request that is not completed even when it is
cancelled. `HeldUp` is the state of a thread that such a device keeps at its
place; the actions that pass these places need `~HeldUp`. An audio frame is only `"silence"`,
`"new"` (this block) or `"old"`, and an output half `"filled"` by the host, then
`"drained"` or `"dropped"` when it was offered to the device. `Start` chooses
which capture and render path the endpoints allow; `NewBuffers` is a
createBuffers that allocates. `PingPong` says what the header of
`buffer_manager.rs` promises: the host fills a half, the device is offered it
once, and only then does the host get the other. The refinement maps `turn` to
the half the host filled last (the inactive half while a block is under way, the
active one otherwise) and `owed` to "some half is filled and not offered".

### StreamSetup, EndpointSelect and SampleFormat

`FindCapture` and `FindRender` turn a list of endpoints into a set of at most one
endpoint: the passes of `find_endpoint` in order, each the first match of its
kind. What the code reads off a name or id is a field of the endpoint's record,
and `seen` says which endpoints each pass could read: a pass that gets no
collection sees none, and what one pass cannot read another may. The lines of
the configuration file (`Lines` of them) are passes of their own. The render
client keeps the device it belongs to (`renUsed`) until the thread forgets it:
the one that was chosen or, if that does not activate, the default one, which
Windows may refuse; that the default does not change between the search and the
second attempt is an abstraction.
`StreamSetup` walks through the head of `wasapi_io_loop`, one action per step,
with every call that may fail failing: the enumerator and the event end the
thread by `?` (`EndEarly`, with the timer period and MMCSS class left raised in
`kept`), the rest select a lesser path. In the loop, one KS transfer or one sample
is converted, with the operators of `SampleFormat`. These are translated
from the branches of the copying code: the bytes it touches a frame, the width
it guesses from the length of a transfer, the two scalings and the cut of
`as i16`. Formats the code is not written for (`Supported`) are kept in the runs
and out of the property: see "Observations".

### KsStream

The stream thread opens a capture pin and a render pin (`open_ks_pin`,
`try_open`), serves both in turn, and drops both. Handles are values in a table
that other threads use too: a value that was closed may be handed out again, so
that closing twice can hit a stranger (`robbed`). Each new pin is taken through
ACQUIRE, PAUSE and RUN (`ks_transition_to_run`), whose answers may stay out: the
thread then gives up after a time-out and goes on (`Answer`). A request is `"inflight"`
while the kernel owns the buffer. A device may fall silent for good, in which
case it completes only what is cancelled; a write that was refused leaves a
request on which `GetOverlappedResult` either returns or never does (`"stuck"`),
since the result is undefined.

### KsEngine

One thread, one capture and one render request, each submitted and waited out
within the same block. `Await` is the 50 ms wait and the `GetOverlappedResult`
after it in one step, because only the second decides when the thread goes on.
A refused request costs no time. A failing `?` drops the pins and leaves an
event that was made open (`GiveUp`); `events` holds it until the next start.
There is no Drop: `Release` lets the owner go
while the thread streams on. Unlike `wasapi_io_loop` the engine writes the half
the host has just filled, and so implements `PingPong` with another mapping: `turn`
has changed as soon as the callback has returned.

### ComServer

Objects are counted; a client owns references and calls only through them, and
may pass one on by an `AddRef` for another thread. `Release` is a `fetch_sub` and,
if it saw 1, a later `Free`, with other threads between them. An object is made in
three steps: `NewObject` (in `DllGetClassObject` or `CreateInstance`), `QueryNew`,
which hands the client its reference or drops the object, and `ReleaseNew`, which
releases the reference of `new`; `making` holds it until then.

### Installer

One setup runs at a time, by the program (`"exe"`) or the scripts (`"ps1"`), each
with its own place for the DLL and both with the same registry entries. `dll`,
`reg`, `path`, `entry` and `uninstaller` survive everything. A step is one call:
creating and filling the DLL are two (`"bytes"` lies between), `register_driver`
writes one item after the other and stops at the first failure, and the deletions
of a tree may stop half way (`TreesLeft`: no key goes before what is below it). The
program ignores that, the script ends with an error. Any call may fail (`fault`), the machine may go down between two
steps, and hosts load and release DLLs, so that a file cannot be replaced or
removed (`busy`). `smooth` says that no setup so far met a fault or was cut off.

## Runs

Passing runs:

| run | bounds | shows |
|---|---|---|
| `driver_strict` | 1 host thread, 2 streams, 2 BufferManagers, sizes -1, 2, 4, 5 around limits 2 and 4 | nothing runs after stop(); threads never share buffers; buffers, size and rate in force; every join returns |
| `driver_free` | 2 host threads in any order, 2 streams | one owner for every thread; the installed stream runs; the last Release leaves nothing |
| `setup` | up to 3 capture and 2 render endpoints of four and eight kinds, 2 lines of preference, any subset read by each pass, 8 mix formats, blocks of 1 and 3 frames, 9 samples | the iRig is captured; rendering goes where it should or to the default device; exact copying; widths; scaling |
| `loop` | blocks of 2 frames, a render client of 3, packets of 1 and 3, all nine path combinations | ping-pong refinement; no mixed KS blocks; callbacks keep coming and the thread ends, unless it is held up for good |
| `ks_stream` | 4 handles, 2 formats | requests, leaks, double closes, the end of the session |
| `engine` | none needed | requests waited out; ping-pong refinement; pins given back, one event at most left; the thread ends |
| `com_refs` | 2 clients, 3 objects, 2 references, 2 locks | counts, leaks, locks |
| `install` | two ways, any number of setups | success is true, retry heals, uninstalling is complete, no dangling entries |

Two streams suffice for `driver_*` because `start()` can replace a stream only
while it holds the mutex until the old one is joined, so a third never exists
beside an installed and a joined one for a strict host; a free host may queue
more than one join, and there a `start()` that finds no free slot waits in the
model. In `setup`, three capture endpoints are an inactive iRig, an active one and
a foreign device in any order, which is what the two passes tell apart; each
pass of rendering prefers one kind to another, so pairs of kinds show every
order, and two lines of preference are two passes whose order matters. Blocks of 3 frames separate the width guess at, below and above its
threshold; the samples are the ends of the range, the turn of the sign and values
between. In `loop`, 2 frames tell a part of a half from the whole, 3 frames of
room tell full, partial and no space apart, and packets of 1 and 3 are shorter
and longer than a block. Four handles in `ks_stream` are one stream on a pin of
its own and a stranger, or two streams on their fallback handles; both streams
on pins of their own would take six. Two formats are a rejected pin and an
attempt after it. `KsEngine` and `Installer` are finite as they are. The theorems
hold for any value of the constants.

`driver_free`, `setup`, `loop`, `ks_stream`, `engine` and `com_refs` do not check for
deadlock: there the system really may stop (a thread that joins a thread which
waits for its lock; the thread that has ended; a loop that is held up; an
abandoned engine that waits for a silent device; the DLL unloaded).

Findings (each a run that TLC finds violated):

- `driver_double_start`: a second start() can deadlock (`asio_driver.rs:240`).
- `loop_device_lost`: a lost device is never reported (`wasapi_backend.rs:717`).
- `ks_fallback`: a rejected pin closes the filter handle that the fallback
  returns (`ks_device.rs:395`).
- `com_unload`: DllCanUnloadNow counts no objects (`lib.rs:97`).

## Contradictions

Three more places where a comment or a log line promises what the code does not
do. They are local enough to be seen in the code, and no run is spent on them;
the models have what the code does.

- `buffer_manager.rs:21`: "The audio callback must NEVER block on a mutex". The
  host calls outputReady() from its callback, and that locks the mutex
  (`asio_driver.rs:484`) that control calls hold, for as long as a message box is
  open. In `AsioDriver` the callback waits (`CallbackLock`).
- `wasapi_backend.rs:9`: without a device "Silence (zeros)", and the logs at 616
  and 619, "input = silence". Nothing writes zeros: the host's input halves keep
  the audio of the session before (`"old"` frames in `WasapiLoop`).
- `wasapi_backend.rs:5`: for capture, "User-configured preferred device (config
  file)" first. `find_endpoint` reads the file for rendering alone, as its comment
  at 372 says; `CaptureIsIrig` states what the code does.

## Observations

Met while modelling, with no comment or test that promises otherwise. Each is in a
model as the code has it, or named here because the models leave it out.

- While `GetBuffer()` keeps failing for a waiting packet, or a KS request is not
  completed, the loop neither calls back nor ends, and stop() does not return
  (`wasapi_backend.rs:670`, 155, 263; `HeldUp`).
- Installing again empties the DLL that the entries name (`main.rs:98`): a host that
  loads the driver just then finds a part of it.
- An early `?` in the set-up leaves the timer period and the MMCSS class raised;
  in the engine a failing second CreateEventW leaks the first event.
- After a transition timed out, its OVERLAPPED and state word leave the stack
  with the kernel still holding them (`ks_device.rs:891`).
- The engine has no Drop, and refused reads make its loop spin over the last
  block; a silent device holds its thread whatever stop() says.
- A KS render pin may be accepted in any of the formats tried, and is written
  16-bit stereo all the same; a stereo KS capture pin is decoded as a mono pin of
  twice the width.
- Packed 24-bit mix formats are copied as 32-bit samples, past the end of the
  packet (`TouchedBytes` exceeds `FrameBytes`), and a plain 32-bit integer format
  is taken for floats.
- The probe writes `preferred_input_device`; find_endpoint looks for
  `preferred_render_device`, so that file never matters.
- The probe reads until `GetBuffer` fails; it may be that an empty buffer is no
  failure there.
- uninstall.ps1 deletes under `HKCR:`, which PowerShell does not map by itself.
  Program and scripts overwrite each other's entries, and removing one way removes the
  entries of the other. The program leaves its own directory and uninstall.exe.

## Fairness

`AsioDriver`: weak fairness of each host thread inside a call and of each stream
thread. The operating system schedules both, the loop's wait has a time-out,
callbacks return, and the user closes the message box. Nothing makes the host
call. The mutex has no queue, and no property needs one.

`WasapiLoop`: weak fairness of the thread. The loop over capture packets ends
only if it finds the queue empty at some point; `SF(CaptureDone)` says that it is
faster than the engine. Nothing is assumed of a device that is stuck: `StopEnds`
and `CallbacksKeepComing` name the states in which the thread is held up for ever
as their exceptions, and `Stick` brings them about in the run.

`KsStream`: weak fairness of the thread and of the kernel's completion of what
it can complete. A device may go silent, and `StopEnds` names the places
where stop() then waits.

That also holds of a pin's answer to a transition (`Obey`): a device that is not
silent gives it some time; the thread does not depend on it.

`KsEngine`: the same: the thread runs, and a device that is not silent completes
its requests.

## Proofs

All from the named assumptions on the constants of each module.

`AsioDriverProofs` proves `TypeOK`, the inductive invariant `IInv` (`Invariance`),
`StreamOwned`, `InstalledRuns` and `FreedIsQuiet`. `StreamOwned` is not inductive
alone. To keep it, `stop()` must know that the stream it takes is nobody else's,
and Release that no other call is under way. `IInv` adds that a call owns a stream
exactly while it signals or joins (`JoineeInv`), that the mutex is held exactly by
the thread that is in a locked section (`LockInv`), and that a Release excludes
every other call and leaves nothing in `DriverState` (`ReleaseInv`). The step
lemmas follow the shapes that actions share (take the lock, leave the call, move
the stream thread), then the actions that move a stream from one owner to
another, and `InvStep` has one case for each action.

Its second part proves `QuietWhenStopped`, `HalfExclusive`, `SameBuffers` and
`SettingsInForce` for a host that is strict and makes its control calls from one
thread (`StrictHost`), as in `driver_strict`. Two strict threads could both find the driver
stopped and start it. `HostInv` adds to `IInv` that the host and `DriverState`
agree on the buffers, that no thread exists while the host takes the driver for
stopped, that what allowed a call still holds when it gets the lock, and that a
thread has what it was started with; so createBuffers, disposeBuffers and
setSampleRate never find a thread to mislead.

Its third part is what `JoinReturns` rests on. `JoineeEnds`: for every host, a
thread that is being joined has its flag cleared and takes only steps that bring
it nearer to its end (`StepsLeft`, at most one callback), and nobody moves it
back; this needs `JoineeInv` and `StreamOwned`, because a `start()` that gave its
new thread the slot of the joined one would. `JoinsWithoutTheLock`: for a strict
host the lock is free or the joined thread's own while a call joins. Without
`StrictHost` it is false: `driver_double_start` is that case.

`ComServerProofs` proves every property of `com_refs`. The argument is that the two
counters count: `CountsAreExact` equates `refCount` with the cardinality of the
references held and `lockCount` with that of the locks; with the library's facts
on finite sets each action moves both sides alike. The reference of `new` counts,
too, and `MakingInv` says that only the call that makes an object knows it until
it returns.

`WasapiLoopProofs` proves `TypeOK`, `KsWholeBlock` and the
refinement `Spec => PingPongSpec`. One block is followed through the program
counter: between the swap and the callback the half to be rendered is the only
one that may be owed, which is what each step of `PPNext` needs. `KsWholeBlock`
adds what the half holds at each place of the capture side.

`StreamSetupProofs` proves `TypeOK`, `RenderIsChosen`, `CaptureIsIrig`, `DecodedExactly`, `KsWidthRight`,
`EchoIsClose` and `OnePath`. Most of them are lemmas about operators (the choice of
an endpoint, the bytes of a frame, the guessed width, the scaling, the last two
by arithmetic over the quotient and remainder of a division), carried into the
machine by an invariant on what the variables hold. For the two searches the
lemmas are that they find one endpoint at most (`FoundIsOne`, from which `TypeOK`
follows) and what it can be, whatever each pass could read (`CaptureChoice`,
`RenderChoice`): a microphone is left to the passes by preference and by default,
and those for another device come after the one for an iRig output in any state.
`RenderHeld` carries that over to the device that is activated in the end.

`KsEngineProofs` proves `TypeOK`, `KernelOwnsRequest` and the refinement of
`PingPong`: `EngineInv` says at which places a request can be outstanding, and that
only the active half can be filled, from the callback to the packing, and which
pins and events the thread has opened at each place, so that it can leave no more
than the capture event.

`KsStreamProofs` proves `TypeOK` and `KernelOwnsRequest`. `OwnInv` lists the places of
the thread where it works on a side (opening it, using its buffer, freeing it)
and says that no request of that side is outstanding there, nor on the render
side while the capture side is still being opened.

`KsHandleProofs` proves `NothingLeaks`, `PinsAreOpen` and `OthersAreSpared` from an
invariant in three layers. `PlaceInv` says which handles each side has at each
place; it needs `TypeOK` and `OwnInv`. `Accounted` reads the handle table from the
other end: each object of the thread stands under a handle that the variable
which will close it still holds, so that a thread that is done, with every
variable `Nil`, has nothing open. It holds with rejected pins and double closes
too. `Intact` adds that, until a pin is rejected, what the variables name is the
thread's own and open; every `CloseHandle` then hits the object it was meant for.

`InstallerProofs` proves every property of `install`. The module has no
parameters, so TLC sees all of its states; the proof says why the properties hold. `WrittenInv`
follows an installation: the DLL is whole before anything is registered, and
every item up to the next one is in the registry, whatever was there before, so
that success is true and a retry heals. `RemovedInv` does the same for removal.
`HeldInv`, that a DLL a host has loaded is whole and in its place, holds through
every fault (`HostsKeepTheirDll`). `NeverDangles` needs `SmoothInv`: without a fault the
registry names no absent DLL, only the DLL being written is partial, and by the
time one is deleted its entries are gone; the case to argue is a setup of one way
over the entries of the other. What is left is the DLL that an installation writes
over, which the property excepts and the entries may name.

Liveness is out of this prover's reach. What can be proved of it is its core, that
a thread which was told to stop has a bounded way to its end: a measure
(`StepsLeft`) that every step of the thread lowers and that nobody raises.
`WasapiLoopProofs` (`StopEndsTheBlock`): at most one more callback, then the end; a
step that does not come nearer takes a packet that waits or leaves the thread held
up, and then it takes none. `KsEngineProofs`
(`StopIsNear`): the thread waits for the device at most once more. `KsStreamProofs`
(`EndIsInReach`, `StopIsNear`): stop() may come while a pin is being opened, and the
measure counts the formats not yet tried, the states not yet asked for, the
other side, the last turn of the loop and both drops; it is at most ten times the
number of formats and 40. Its lemmas are `OrderHolds` (the phases come in order) and
one for each phase. What is left to fairness, and so to TLC, is that the
thread is scheduled and that the calls it waits in return.

Only model-checked: the liveness properties `JoinReturns`, `CallbacksKeepComing` and
`StopEnds`, which need fairness and ENABLED.

## Not modelled

- Timing: the 20 ms wait, the sleep of one buffer, priorities. A block may come
  at any time.
- 24- and 32-bit scaling, the order of samples in a block, volume.
- The sample counter: one addition a block, read by nobody but the host.
- The engine without callbacks, which its loop would allow (`ks_engine.rs:245`).
- A thread that cannot be spawned: `.expect()` at `wasapi_backend.rs:341` ends the
  process, because the workspace sets `panic = "abort"` (`Cargo.toml:13`, 17).
- `wait_asio_ready`, `wait_hw_ready` and `signal_hw_ready`, which nothing calls.
- Device enumeration (SetupAPI calls without state; a failure is one of init() and
  an absent path), the property queries of `ks_device.rs` that only log, and
  `negotiate_format`, `ks_read`, `ks_write` and `ks_wait_overlapped`, which nothing
  calls.
- The probe, a console program whose file nothing reads; the build script, the
  bindings, tests, messages and logs.
