------------------------------ MODULE KsEngine ------------------------------
(***************************************************************************)
(* ks_engine.rs: the engine that streams over two kernel streaming pins    *)
(* without WASAPI.  One thread reads a block, hands the host a half of the *)
(* BufferManager, and writes what the host put there, waiting out each     *)
(* request before it goes on.  How a pin is found is in module KsStream;   *)
(* set_pin_state, whose answer nobody looks at, the samples, and a start   *)
(* without callbacks, which the loop would run without a host, are left    *)
(* out.                                                                    *)
(***************************************************************************)
EXTENDS Integers

VARIABLES
    owned,       \* the KsAudioStream exists
    running,     \* KsAudioStream.running
    pc,          \* where the thread is
    pins,        \* the directions whose pin is open
    events,      \* the directions whose event the thread, or the last one, has open
    activeIndex, \* active_index of the BufferManager, and new_idx of the loop
    out,         \* each output half: "silent", "filled", "drained"
    req,         \* the request on each pin: "none", "inflight", "ok", "failed"
    silent       \* the device has ceased to complete requests

objectVars == <<owned, running>>
pinVars == <<pins, events>>
bufferVars == <<activeIndex, out>>
vars == <<objectVars, pc, pinVars, bufferVars, req, silent>>

Dir == {"render", "capture"}
Half == {0, 1}

Init ==
    /\ owned = FALSE /\ running = FALSE /\ pc = "stopped"
    /\ pins = {} /\ events = {}
    /\ activeIndex = 0 /\ out = [i \in Half |-> "silent"]
    /\ req = [d \in Dir |-> "none"] /\ silent = FALSE

Goto(from, to) == pc = from /\ pc' = to

-----------------------------------------------------------------------------
(* The owner of the stream                                                 *)

\* KsAudioStream::start spawns the thread.  The events are its own: one that the
\* thread before left open nobody can close any more.
Start ==
    /\ ~owned /\ Goto("stopped", "openRender")
    /\ owned' = TRUE /\ running' = TRUE /\ events' = {}
    /\ UNCHANGED <<pins, bufferVars, req, silent>>

\* stop() stores the flag; its join returns when the thread is at "stopped".
Stop ==
    /\ owned /\ running /\ running' = FALSE
    /\ UNCHANGED <<owned, pc, pinVars, bufferVars, req, silent>>

\* There is no Drop: an object that goes away without stop() leaves its
\* thread streaming.
Release ==
    /\ owned /\ (running \/ pc = "stopped")
    /\ owned' = FALSE
    /\ UNCHANGED <<running, pc, pinVars, bufferVars, req, silent>>

\* Between two sessions the host may have new buffers made.
NewBuffers ==
    /\ pc = "stopped"
    /\ activeIndex' = 0 /\ out' = [i \in Half |-> "silent"]
    /\ UNCHANGED <<objectVars, pc, pinVars, req, silent>>

-----------------------------------------------------------------------------
(* Opening: a `?` ends the thread                                          *)

\* The pins opened so far are dropped and so closed.  The events are bare
\* handles: when the second CreateEventW fails, the first stays open.
GiveUp == pc' = "stopped" /\ pins' = {} /\ UNCHANGED events

\* open_ks_pin for each direction.
OpenPin(d, from, to) ==
    /\ pc = from
    /\ \/ pc' = to /\ pins' = pins \cup {d} /\ UNCHANGED events
       \/ GiveUp
    /\ UNCHANGED <<objectVars, bufferVars, req, silent>>

\* CreateEventW for each pin.
MakeEvent(d, from, to) ==
    /\ pc = from
    /\ \/ pc' = to /\ events' = events \cup {d} /\ UNCHANGED pins
       \/ GiveUp
    /\ UNCHANGED <<objectVars, bufferVars, req, silent>>

OpenRender == OpenPin("render", "openRender", "openCapture")
OpenCapture == OpenPin("capture", "openCapture", "capEvent")
MakeCapEvent == MakeEvent("capture", "capEvent", "renEvent")
MakeRenEvent == MakeEvent("render", "renEvent", "check")

-----------------------------------------------------------------------------
(* One block                                                               *)

LoopCheck ==
    /\ Goto("check", IF running THEN "read" ELSE "close")
    /\ UNCHANGED <<objectVars, pinVars, bufferVars, req, silent>>

\* ReadFile or WriteFile is done at once, takes the request, or refuses it; a
\* refusal costs no time, and the block goes on all the same.
Request(d, from, await, on) ==
    /\ pc = from
    /\ \/ pc' = await /\ req' = [req EXCEPT ![d] = "inflight"]
       \/ pc' = on /\ UNCHANGED req
    /\ UNCHANGED <<objectVars, pinVars, bufferVars, silent>>

\* Mutant: after 50 ms the thread goes on without the answer.
Await_Bounded(d, from, on) ==
    /\ Goto(from, on)
    /\ UNCHANGED <<objectVars, pinVars, bufferVars, req, silent>>

\* Mutant: what fails is submitted again at once.
Await_Retry(d, from, on) ==
    /\ pc = from /\ req[d] # "inflight"
    /\ \/ req[d] = "ok" /\ pc' = on /\ req' = [req EXCEPT ![d] = "none"]
       \/ req[d] = "failed" /\ UNCHANGED pc /\ req' = [req EXCEPT ![d] = "inflight"]
    /\ UNCHANGED <<objectVars, pinVars, bufferVars, silent>>

\* After 50 ms or the event, GetOverlappedResult waits for the answer itself,
\* and whatever it is the block goes on.
Await(d, from, on) ==
    /\ Goto(from, on) /\ req[d] # "inflight"
    /\ req' = [req EXCEPT ![d] = "none"]
    /\ UNCHANGED <<objectVars, pinVars, bufferVars, silent>>

ReadFile == Request("capture", "read", "awaitRead", "swap")
AwaitRead == Await("capture", "awaitRead", "swap")
WriteFile == Request("render", "write", "awaitWrite", "check")
AwaitWrite == Await("render", "awaitWrite", "check")

\* The flag is read once more, then the index swaps.
Swap ==
    /\ \/ ~running /\ Goto("swap", "close") /\ UNCHANGED activeIndex
       \/ running /\ Goto("swap", "callback") /\ activeIndex' = 1 - activeIndex
    /\ UNCHANGED <<objectVars, pinVars, out, req, silent>>

\* The host is given what the capture buffer holds, old or new, and fills the
\* output half of the same index.
BufferSwitch ==
    /\ Goto("callback", "pack")
    /\ out' = [out EXCEPT ![activeIndex] = "filled"]
    /\ UNCHANGED <<objectVars, pinVars, activeIndex, req, silent>>

\* Mutant: as wasapi_io_loop, the half of the block before.
Pack_Other ==
    /\ Goto("pack", "write")
    /\ out' = [out EXCEPT ![1 - activeIndex] = "drained"]
    /\ UNCHANGED <<objectVars, pinVars, activeIndex, req, silent>>

\* Unlike wasapi_io_loop, the half just filled goes out in the same block.
Pack ==
    /\ Goto("pack", "write")
    /\ out' = [out EXCEPT ![activeIndex] = "drained"]
    /\ UNCHANGED <<objectVars, pinVars, activeIndex, req, silent>>

\* Mutant: the capture event is closed twice and the render event never.
Close_CaptureTwice ==
    /\ Goto("close", "stopped") /\ pins' = {} /\ events' = {"render"}
    /\ UNCHANGED <<objectVars, bufferVars, req, silent>>

\* CloseHandle on the events; the pins drop with the thread's function.
Close ==
    /\ Goto("close", "stopped") /\ pins' = {} /\ events' = {}
    /\ UNCHANGED <<objectVars, bufferVars, req, silent>>

-----------------------------------------------------------------------------
(* The kernel                                                              *)

Complete(d) ==
    /\ req[d] = "inflight" /\ ~silent
    /\ \E r \in {"ok", "failed"} : req' = [req EXCEPT ![d] = r]
    /\ UNCHANGED <<objectVars, pc, pinVars, bufferVars, silent>>

FallSilent ==
    /\ ~silent /\ silent' = TRUE
    /\ UNCHANGED <<objectVars, pc, pinVars, bufferVars, req>>

Open == OpenRender \/ OpenCapture \/ MakeCapEvent \/ MakeRenEvent
Block == LoopCheck \/ ReadFile \/ AwaitRead \/ Swap \/ BufferSwitch \/ Pack \/ WriteFile
         \/ AwaitWrite
Thread == Open \/ Block \/ Close

Next ==
    \/ Start
    \/ Stop
    \/ Release
    \/ NewBuffers
    \/ Thread
    \/ \E d \in Dir : Complete(d)
    \/ FallSilent

Spec == Init /\ [][Next]_vars

\* The thread runs, and a device that is not silent answers.
FairSpec == Spec /\ WF_vars(Thread) /\ \A d \in Dir : WF_vars(Complete(d))

-----------------------------------------------------------------------------
(* Properties                                                              *)

\* Every variable has its type.  A thread that has ended, at any of its ends,
\* holds no pin, and the one event it can have left open is the capture event,
\* which the `?` of the second CreateEventW forgets (ks_engine.rs 180).
TypeOK ==
    /\ owned \in BOOLEAN /\ running \in BOOLEAN /\ silent \in BOOLEAN
    /\ pc \in {"stopped", "openRender", "openCapture", "capEvent", "renEvent", "check", "read",
              "awaitRead", "swap", "callback", "pack", "write", "awaitWrite", "close"}
    /\ pins \subseteq Dir /\ events \subseteq Dir
    /\ activeIndex \in Half /\ out \in [Half -> {"silent", "filled", "drained"}]
    /\ req \in [Dir -> {"none", "inflight", "ok", "failed"}]
    /\ pc = "stopped" => pins = {} /\ events \subseteq {"capture"}

\* While the kernel holds a request, its pin and event are open and the thread
\* does nothing but wait for it: cap_raw_buf, ren_raw_buf and the OVERLAPPED
\* on its stack are the kernel's (ks_engine.rs 193 to 211, 265 to 283).
KernelOwnsRequest ==
    \A d \in Dir : req[d] = "inflight" =>
        /\ d \in pins /\ d \in events
        /\ pc = (IF d = "capture" THEN "awaitRead" ELSE "awaitWrite")

\* The engine keeps the promise of the double buffer, too: every half the host
\* fills goes out before the host gets the other one, also over a stop between
\* the callback and the write (ks_engine.rs 206 to 283).
PP == INSTANCE PingPong WITH
        turn <- IF pc = "callback" THEN 1 - activeIndex ELSE activeIndex,
        owed <- \E i \in Half : out[i] = "filled"
PingPongSpec == PP!PPSpec

\* After stop() the thread ends, unless it waits for a device that has gone
\* silent: the 50 ms before GetOverlappedResult bound nothing (204, 276).
StopEnds == ~running ~> (pc = "stopped" \/ (silent /\ \E d \in Dir : req[d] = "inflight"))

=============================================================================
