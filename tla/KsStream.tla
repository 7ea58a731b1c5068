------------------------------ MODULE KsStream ------------------------------
(***************************************************************************)
(* Direct kernel streaming: the stream thread opens a pin for capture and  *)
(* one for rendering (open_ks_pin, try_open), keeps one request in flight  *)
(* on each, and gives everything back when the stream stops.  The kernel's *)
(* handle table is part of the state, because a handle that is closed      *)
(* twice may by then be somebody else's.                                   *)
(***************************************************************************)
EXTENDS Naturals

CONSTANTS
    Handles,    \* the values a handle can have
    Nil,        \* no handle
    MaxAttempts \* bound: the formats open_ks_pin tries (200 in the code)

ASSUME KsAssumption == Nil \notin Handles /\ MaxAttempts \in Nat \ {0}

VARIABLES
    \* the thread
    running,  \* WasapiStream.running
    step,     \* what the thread does next
    dir,      \* ... for the capture or for the render side
    phase,    \* "opening", "serving" or "closing"
    attempts, \* formats tried so far by this open_ks_pin
    temp,     \* a handle held for a moment: a pin to be tested, the event of
              \* ks_transition_to_run
    state,    \* the state that is asked for: 1 ACQUIRE, 2 PAUSE, 3 RUN; else 0
    asked,    \* the answer to it is outstanding
    \* KsCaptureState and KsRenderState, one of each
    live,     \* the Option is Some: its buffer and OVERLAPPED are allocated
    handle,   \* pin.handle
    filter,   \* pin.filter_handle
    event,    \* event
    pending,  \* pending
    \* the kernel
    table,    \* what each handle value stands for
    req,      \* the last request: "none", "inflight", "ok", "failed", "stuck"
    silent,   \* the device has ceased to complete requests
    \* history
    rejected, \* some pin failed ks_test_state_transition
    robbed    \* the thread has closed a handle of another thread

Dir == {"capture", "render"}
transitVars == <<temp, state, asked>>
threadVars == <<running, step, dir, phase, attempts, transitVars>>
stateVars == <<live, handle, filter, event, pending>>
kernelVars == <<table, req, silent>>
history == <<rejected, robbed>>
vars == <<threadVars, stateVars, kernelVars, history>>

\* What a handle value can stand for: nothing, an object of another thread, or
\* the filter, the pin or the event of one of the two sides.
Free == [kind |-> "free", side |-> "none"]
Other == [kind |-> "other", side |-> "none"]
Own(kind, d) == [kind |-> kind, side |-> d]
Objects ==
    {Free, Other} \cup {Own(k, d) : k \in {"filter", "pin", "control", "event"}, d \in Dir}

Init ==
    /\ running = TRUE
    /\ step = "filter" /\ dir = "capture" /\ phase = "opening"
    /\ attempts = 0 /\ temp = Nil /\ state = 0 /\ asked = FALSE
    /\ live = [d \in Dir |-> FALSE] /\ pending = [d \in Dir |-> FALSE]
    /\ handle = [d \in Dir |-> Nil] /\ filter = [d \in Dir |-> Nil]
    /\ event = [d \in Dir |-> Nil]
    /\ table = [h \in Handles |-> Free] /\ req = [d \in Dir |-> "none"]
    /\ silent = FALSE
    /\ rejected = FALSE /\ robbed = FALSE

At(s) == step = s
Go(s) == step' = s /\ UNCHANGED <<dir, phase>>

\* What each phase does first with a side.
First == [opening |-> "filter", serving |-> "await", closing |-> "drop"]

\* This side is opened, served or dropped: the same for the render side, and
\* after that the loop or the end.
SideDone ==
    \/ /\ dir = "capture" /\ dir' = "render"
       /\ step' = First[phase] /\ UNCHANGED phase
    \/ /\ dir = "render" /\ dir' = "capture"
       /\ \/ phase = "closing" /\ step' = "done" /\ UNCHANGED phase
          \/ phase # "closing" /\ step' = "loop" /\ phase' = "serving"

\* CloseHandle closes whatever the value stands for by now.
CloseHandle(h) ==
    /\ table' = [table EXCEPT ![h] = Free]
    /\ robbed' = (robbed \/ table[h] = Other)

-----------------------------------------------------------------------------
(* open_ks_pin and try_open                                                *)

\* CreateFileW on the device path; without a path, or when the file does not
\* open, this side has no KS stream (as when WASAPI has its endpoint).
OpenFilter ==
    /\ At("filter")
    /\ attempts' = 0
    /\ \/ /\ SideDone /\ UNCHANGED <<filter, table>>
       \/ \E h \in Handles :
            /\ table[h] = Free
            /\ table' = [table EXCEPT ![h] = Own("filter", dir)]
            /\ filter' = [filter EXCEPT ![dir] = h]
            /\ Go("try")
    /\ UNCHANGED <<running, transitVars, live, handle, event, pending, req, silent, history>>

\* Mutant: one more format than there are.
CreatePin_OneMore ==
    /\ At("try") /\ attempts <= MaxAttempts
    /\ attempts' = attempts + 1
    /\ Go("try")
    /\ UNCHANGED <<running, transitVars, stateVars, kernelVars, history>>

\* KsCreatePin2 for the next format, which works on an open filter only.
CreatePin ==
    /\ At("try") /\ attempts < MaxAttempts
    /\ attempts' = attempts + 1
    /\ \/ Go("try") /\ UNCHANGED <<temp, table>>
       \/ /\ table[filter[dir]] = Own("filter", dir)
          /\ \E h \in Handles :
                /\ table[h] = Free
                /\ table' = [table EXCEPT ![h] = Own("pin", dir)]
                /\ temp' = h
          /\ Go("test")
    /\ UNCHANGED <<running, state, asked, stateVars, req, silent, history>>

\* ks_test_state_transition accepts the pin, or it does not.
TestPin ==
    /\ At("test")
    /\ \/ /\ handle' = [handle EXCEPT ![dir] = temp]
          /\ temp' = Nil
          /\ Go("control") /\ UNCHANGED rejected
       \/ Go("reject") /\ rejected' = TRUE /\ UNCHANGED <<handle, temp>>
    /\ UNCHANGED <<running, attempts, state, asked, live, filter, event, pending, kernelVars, robbed>>

\* The rejected pin is closed by hand.
RejectPin ==
    /\ At("reject")
    /\ CloseHandle(temp)
    /\ Go("rejectHandle")
    /\ UNCHANGED <<running, attempts, transitVars, stateVars, req, silent, rejected>>

\* Then test_pin goes out of scope, and Drop for KsPin closes it once more ...
RejectDropHandle ==
    /\ At("rejectHandle")
    /\ CloseHandle(temp)
    /\ temp' = Nil
    /\ Go("rejectFilter")
    /\ UNCHANGED <<running, attempts, state, asked, stateVars, req, silent, rejected>>

\* ... and with it the filter, which the loop goes on to use.
RejectDropFilter ==
    /\ At("rejectFilter")
    /\ CloseHandle(filter[dir])
    /\ Go("try")
    /\ UNCHANGED <<running, attempts, transitVars, stateVars, req, silent, rejected>>

\* Mutant: the filter is closed when the search for a pin ends.
Fallback_Closed ==
    /\ At("try") /\ attempts = MaxAttempts
    /\ handle' = [handle EXCEPT ![dir] = filter[dir]]
    /\ CloseHandle(filter[dir])
    /\ Go("control")
    /\ UNCHANGED <<running, attempts, transitVars, live, filter, event, pending, req, silent,
                   rejected>>

\* No format was accepted: the filter handle serves as the pin.
Fallback ==
    /\ At("try") /\ attempts = MaxAttempts
    /\ handle' = [handle EXCEPT ![dir] = filter[dir]]
    /\ Go("control")
    /\ UNCHANGED <<running, attempts, transitVars, live, filter, event, pending, kernelVars,
                   history>>

\* ks_transition_to_run makes an event of its own, or gives up.
MakeControl ==
    /\ At("control")
    /\ \/ Go("event") /\ UNCHANGED <<temp, state, table>>
       \/ \E h \in Handles :
            /\ table[h] = Free
            /\ table' = [table EXCEPT ![h] = Own("control", dir)]
            /\ temp' = h /\ state' = 1 /\ Go("transit")
    /\ UNCHANGED <<running, attempts, asked, stateVars, req, silent, history>>

\* ACQUIRE, PAUSE and RUN in turn, whatever became of the one before.
NextState ==
    /\ state' = state + 1
    /\ Go(IF state = 3 THEN "dropControl" ELSE "transit")

\* The pin obeys at once or refuses, or its answer is to come.
Transit ==
    /\ At("transit")
    /\ \/ NextState /\ UNCHANGED asked
       \/ /\ handle[dir] # Nil /\ table[handle[dir]].kind \in {"pin", "filter"}
          /\ asked' = TRUE /\ Go("answer") /\ UNCHANGED state
    /\ UNCHANGED <<running, attempts, temp, stateVars, kernelVars, history>>

\* The answer came, or 500 ms went by: then the OVERLAPPED goes out of scope
\* with the kernel still holding it, and nobody hears of the answer.
Answer ==
    /\ At("answer")
    /\ asked' = FALSE
    /\ NextState
    /\ UNCHANGED <<running, attempts, temp, stateVars, kernelVars, history>>

DropControl ==
    /\ At("dropControl")
    /\ CloseHandle(temp)
    /\ temp' = Nil /\ state' = 0
    /\ Go("event")
    /\ UNCHANGED <<running, attempts, asked, stateVars, req, silent, rejected>>

\* Mutant: when CreateEventW fails the pin is forgotten.
MakeEvent_Leak ==
    /\ At("event")
    /\ \/ /\ SideDone /\ UNCHANGED <<live, event, table>>
       \/ \E h \in Handles :
            /\ table[h] = Free
            /\ table' = [table EXCEPT ![h] = Own("event", dir)]
            /\ event' = [event EXCEPT ![dir] = h]
            /\ live' = [live EXCEPT ![dir] = TRUE]
            /\ \/ dir = "capture" /\ Go("submit")
               \/ dir = "render" /\ SideDone
    /\ UNCHANGED <<running, attempts, transitVars, handle, filter, pending, req, silent, history>>

\* CreateEventW and the new state; a capture stream submits its first read.
\* Without an event the pin is dropped.
MakeEvent ==
    /\ At("event")
    /\ \/ Go("dropPin") /\ UNCHANGED <<live, event, table>>
       \/ \E h \in Handles :
            /\ table[h] = Free
            /\ table' = [table EXCEPT ![h] = Own("event", dir)]
            /\ event' = [event EXCEPT ![dir] = h]
            /\ live' = [live EXCEPT ![dir] = TRUE]
            /\ \/ dir = "capture" /\ Go("submit")
               \/ dir = "render" /\ SideDone
    /\ UNCHANGED <<running, attempts, transitVars, handle, filter, pending, req, silent, history>>

-----------------------------------------------------------------------------
(* The loop's use of the two streams                                       *)

Loop ==
    /\ At("loop")
    /\ \/ running /\ step' = "await" /\ UNCHANGED <<dir, phase>>
       \/ ~running /\ step' = "drop" /\ phase' = "closing" /\ UNCHANGED dir
    /\ UNCHANGED <<running, attempts, transitVars, stateVars, kernelVars, history>>

\* A request is accepted only on a handle that is still a pin or a filter.
Usable(h) == h # Nil /\ table[h].kind \in {"pin", "filter"}

\* submit_read: the driver takes the request, has the data at once, or refuses.
SubmitRead ==
    /\ At("submit") /\ dir = "capture"
    /\ \/ /\ Usable(handle[dir])
          /\ \E r \in {"inflight", "ok"} : req' = [req EXCEPT ![dir] = r]
          /\ pending' = [pending EXCEPT ![dir] = TRUE]
       \/ /\ req' = [req EXCEPT ![dir] = "none"]
          /\ pending' = [pending EXCEPT ![dir] = FALSE]
    /\ SideDone
    /\ UNCHANGED <<running, attempts, transitVars, live, handle, filter, event, table, silent,
                   history>>

\* The end of write_samples: the outcome is not looked at.  GetOverlappedResult
\* after a refusal is undefined: it returns at once, or never.
SubmitWrite ==
    /\ At("submit") /\ dir = "render"
    /\ \/ /\ Usable(handle[dir])
          /\ \E r \in {"inflight", "ok"} : req' = [req EXCEPT ![dir] = r]
       \/ \E r \in {"failed", "stuck"} : req' = [req EXCEPT ![dir] = r]
    /\ pending' = [pending EXCEPT ![dir] = TRUE]
    /\ SideDone
    /\ UNCHANGED <<running, attempts, transitVars, live, handle, filter, event, table, silent,
                   history>>

Completed(d) == req[d] \in {"ok", "failed"}

\* No stream on this side, or no read outstanding: nothing is done.
SkipSide ==
    /\ At("await")
    /\ ~live[dir] \/ (dir = "capture" /\ ~pending[dir])
    /\ SideDone
    /\ UNCHANGED <<running, attempts, transitVars, stateVars, kernelVars, history>>

\* try_consume waits for the read.  A failed one is left pending for ever; one
\* without data is submitted anew.
AwaitRead ==
    /\ At("await") /\ dir = "capture" /\ live[dir] /\ pending[dir]
    /\ \/ req[dir] = "failed" /\ SideDone /\ UNCHANGED pending
       \/ /\ req[dir] = "ok"
          /\ pending' = [pending EXCEPT ![dir] = FALSE]
          /\ Go("use") \/ Go("submit")
    /\ UNCHANGED <<running, attempts, transitVars, live, handle, filter, event, kernelVars,
                   history>>

\* write_samples waits for the write before, whatever came of it.
AwaitWrite ==
    /\ At("await") /\ dir = "render" /\ live[dir]
    /\ pending[dir] => Completed(dir)
    /\ pending' = [pending EXCEPT ![dir] = FALSE]
    /\ Go("use")
    /\ UNCHANGED <<running, attempts, transitVars, live, handle, filter, event, kernelVars,
                   history>>

\* The thread reads or writes buf.
UseBuffer ==
    /\ At("use")
    /\ Go("submit")
    /\ UNCHANGED <<running, attempts, transitVars, stateVars, kernelVars, history>>

-----------------------------------------------------------------------------
(* Drop for KsCaptureState, KsRenderState and their KsPin                  *)

\* Mutant: the state is freed without a look at pending.
Drop_NoPending ==
    /\ At("drop")
    /\ \/ ~live[dir] /\ SideDone
       \/ live[dir] /\ Go("dropEvent")
    /\ UNCHANGED <<running, attempts, transitVars, stateVars, kernelVars, history>>

\* CancelIoEx, if a request is pending.
Drop ==
    /\ At("drop")
    /\ \/ ~live[dir] /\ SideDone
       \/ live[dir] /\ pending[dir] /\ Go("drain")
       \/ live[dir] /\ ~pending[dir] /\ Go("dropEvent")
    /\ UNCHANGED <<running, attempts, transitVars, stateVars, kernelVars, history>>

\* GetOverlappedResult waits until the kernel has let go of the buffer.
Drain ==
    /\ At("drain") /\ Completed(dir)
    /\ Go("dropEvent")
    /\ UNCHANGED <<running, attempts, transitVars, stateVars, kernelVars, history>>

DropEvent ==
    /\ At("dropEvent")
    /\ CloseHandle(event[dir])
    /\ event' = [event EXCEPT ![dir] = Nil]
    /\ Go("dropPin")
    /\ UNCHANGED <<running, attempts, transitVars, live, handle, filter, pending, req, silent,
                   rejected>>

DropPin ==
    /\ At("dropPin")
    /\ CloseHandle(handle[dir])
    /\ Go("dropFilter")
    /\ UNCHANGED <<running, attempts, transitVars, stateVars, req, silent, rejected>>

\* Mutant: the filter is closed even if it is the pin.
DropFilter_Twice ==
    /\ At("dropFilter")
    /\ CloseHandle(filter[dir])
    /\ live' = [live EXCEPT ![dir] = FALSE]
    /\ handle' = [handle EXCEPT ![dir] = Nil] /\ filter' = [filter EXCEPT ![dir] = Nil]
    /\ SideDone
    /\ UNCHANGED <<running, attempts, transitVars, event, pending, req, silent, rejected>>

\* The filter is closed unless it was the pin, and the memory is freed.
DropFilter ==
    /\ At("dropFilter")
    /\ \/ filter[dir] # handle[dir] /\ CloseHandle(filter[dir])
       \/ filter[dir] = handle[dir] /\ UNCHANGED <<table, robbed>>
    /\ live' = [live EXCEPT ![dir] = FALSE]
    /\ handle' = [handle EXCEPT ![dir] = Nil] /\ filter' = [filter EXCEPT ![dir] = Nil]
    /\ SideDone
    /\ UNCHANGED <<running, attempts, transitVars, event, pending, req, silent, rejected>>

-----------------------------------------------------------------------------
(* The rest of the process, and the device                                 *)

Stop ==
    /\ running /\ running' = FALSE
    /\ UNCHANGED <<step, dir, phase, attempts, transitVars, stateVars, kernelVars, history>>

\* Mutant: CancelIoEx is left out.
Cancelled_Never(d) == FALSE

\* The Drop of this side has called CancelIoEx.
Cancelled(d) == step = "drain" /\ dir = d

\* The kernel completes a request, with or without success; a device that has
\* gone silent does so for a cancelled one only.
Complete(d) ==
    /\ req[d] = "inflight" /\ (~silent \/ Cancelled(d))
    /\ \E r \in {"ok", "failed"} : req' = [req EXCEPT ![d] = r]
    /\ UNCHANGED <<threadVars, stateVars, table, silent, history>>

\* The pin answers a transition; a silent device does not.
Obey ==
    /\ asked /\ ~silent /\ asked' = FALSE
    /\ UNCHANGED <<running, step, dir, phase, attempts, temp, state, stateVars, kernelVars,
                   history>>

FallSilent ==
    /\ ~silent /\ silent' = TRUE
    /\ UNCHANGED <<threadVars, stateVars, table, req, history>>

OtherOpens(h) ==
    /\ table[h] = Free
    /\ table' = [table EXCEPT ![h] = Other]
    /\ UNCHANGED <<threadVars, stateVars, req, silent, history>>

OtherCloses(h) ==
    /\ table[h] = Other
    /\ table' = [table EXCEPT ![h] = Free]
    /\ UNCHANGED <<threadVars, stateVars, req, silent, history>>

Open == OpenFilter \/ CreatePin \/ TestPin \/ RejectPin \/ RejectDropHandle
        \/ RejectDropFilter \/ Fallback \/ MakeControl \/ Transit \/ Answer
        \/ DropControl \/ MakeEvent
Serve == Loop \/ SubmitRead \/ SubmitWrite \/ SkipSide \/ AwaitRead \/ AwaitWrite
         \/ UseBuffer
Close == Drop \/ Drain \/ DropEvent \/ DropPin \/ DropFilter
Thread == Open \/ Serve \/ Close

Next ==
    \/ Thread
    \/ Stop
    \/ \E d \in Dir : Complete(d)
    \/ Obey
    \/ FallSilent
    \/ \E h \in Handles : OtherOpens(h) \/ OtherCloses(h)

Spec == Init /\ [][Next]_vars

\* The thread runs, and the kernel completes what it can complete.
FairSpec == Spec /\ WF_vars(Thread) /\ WF_vars(Obey) /\ \A d \in Dir : WF_vars(Complete(d))

-----------------------------------------------------------------------------
(* Properties                                                              *)

\* Every variable has its type.
TypeOK ==
    /\ running \in BOOLEAN /\ silent \in BOOLEAN
    /\ rejected \in BOOLEAN /\ robbed \in BOOLEAN
    /\ step \in {"filter", "try", "test", "reject", "rejectHandle", "rejectFilter",
                 "control", "transit", "answer", "dropControl", "event", "submit", "loop",
                 "await", "use", "drop", "drain", "dropEvent", "dropPin", "dropFilter", "done"}
    /\ dir \in Dir /\ phase \in {"opening", "serving", "closing"}
    /\ attempts \in 0..MaxAttempts /\ temp \in Handles \cup {Nil}
    /\ state \in 0..4 /\ asked \in BOOLEAN
    /\ live \in [Dir -> BOOLEAN] /\ pending \in [Dir -> BOOLEAN]
    /\ handle \in [Dir -> Handles \cup {Nil}]
    /\ filter \in [Dir -> Handles \cup {Nil}]
    /\ event \in [Dir -> Handles \cup {Nil}]
    /\ table \in [Handles -> Objects]
    /\ req \in [Dir -> {"none", "inflight", "ok", "failed", "stuck"}]

\* While the kernel holds a request, its buffer and OVERLAPPED exist, Drop can
\* see that it is pending, and the thread keeps off the buffer: across errors,
\* empty reads and the drop of the state (78 to 90, 152 to 213, 261 to 300).
KernelOwnsRequest ==
    \A d \in Dir : req[d] = "inflight" =>
        /\ live[d]
        /\ pending[d]
        /\ ~(dir = d /\ step \in {"use", "submit", "dropEvent", "dropPin", "dropFilter"})

\* Whatever fails on the way, no handle of the two streams outlives the loop
\* (ks_device.rs 95 to 109, wasapi_backend.rs 92 to 109).
NothingLeaks ==
    step = "done" => \A h \in Handles : table[h] \in {Free, Other}

\* As long as no pin was rejected, the handles of a stream are open and are
\* the stream's own, the fallback's too.
PinsAreOpen ==
    \A d \in Dir : live[d] /\ ~rejected /\ ~(phase = "closing" /\ dir = d) =>
        /\ table[handle[d]] \in {Own("pin", d), Own("filter", d)}
        /\ table[filter[d]] = Own("filter", d)
        /\ table[event[d]] = Own("event", d)

\* As long as no pin was rejected, the thread closes no handle of another
\* thread: nothing is closed twice (ks_device.rs 95 to 109).
OthersAreSpared == robbed => rejected

\* After stop() the streams are given back, also if it came while the pins are
\* opened and do not answer, unless the thread waits in try_consume or
\* write_samples for a device that has gone silent, or for a write that was
\* refused (wasapi_backend.rs 155, 263, ks_device.rs 891).
StopEnds ==
    ~running ~> (\/ step = "done"
                 \/ silent /\ step = "await" /\ req[dir] = "inflight"
                 \/ \E d \in Dir : req[d] = "stuck")

\* What ks_device.rs logs at 482 ("KsCreatePin2 did not find a pin; using
\* filter handle as fallback"): the filter handle is there to be used.
FallbackIsOpen ==
    \A d \in Dir : live[d] /\ handle[d] = filter[d] /\ phase # "closing" =>
        table[handle[d]] = Own("filter", d)

=============================================================================
