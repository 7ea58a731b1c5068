--------------------------- MODULE KsStreamProofs ---------------------------
(***************************************************************************)
(* For any set of handles and any number of formats: the variables keep    *)
(* their types, and the kernel's requests are kept apart from what the     *)
(* thread touches or frees.  The second needs to know, for every place of  *)
(* the thread, that no request of its side is outstanding there.           *)
(***************************************************************************)
EXTENDS KsStream, TLAPS

-----------------------------------------------------------------------------
(***************************************************************************)
(* Types.                                                                  *)
(***************************************************************************)

\* TypeOK with a tighter bound for the state that is asked for.
TypeInv ==
    /\ TypeOK
    /\ step \in {"transit", "answer"} => state \in 1..3

\* A side that is done leaves the thread at a place there is.
LEMMA SideDoneType ==
    ASSUME TypeInv, SideDone
    PROVE  /\ step' \in {"filter", "await", "drop", "loop", "done"}
           /\ dir' \in Dir /\ phase' \in {"opening", "serving", "closing"}
BY DEF TypeInv, TypeOK, SideDone, First, Dir

\* Closing a handle, or taking a free one, keeps the table one.
LEMMA CloseType ==
    ASSUME NEW h, table \in [Handles -> Objects], robbed \in BOOLEAN, CloseHandle(h)
    PROVE  table' \in [Handles -> Objects] /\ robbed' \in BOOLEAN
<1>1. Free \in Objects
  BY DEF Objects
<1>2. table' \in [Handles -> Objects]
  BY <1>1 DEF CloseHandle
<1>3. robbed' \in BOOLEAN
  BY DEF CloseHandle
<1> QED
  BY <1>2, <1>3

LEMMA TakeType ==
    ASSUME NEW h \in Handles, NEW k \in {"filter", "pin", "control", "event"}, NEW d \in Dir,
           table \in [Handles -> Objects], table' = [table EXCEPT ![h] = Own(k, d)]
    PROVE  table' \in [Handles -> Objects]
<1>1. Own(k, d) \in Objects
  BY DEF Objects
<1> QED
  BY <1>1

LEMMA InitType == Init => TypeInv
<1> SUFFICES ASSUME Init PROVE TypeInv
  OBVIOUS
<1>1. table \in [Handles -> Objects]
  <2>1. Free \in Objects
    BY DEF Objects
  <2> QED
    BY <2>1 DEF Init
<1>2. /\ live \in [Dir -> BOOLEAN] /\ pending \in [Dir -> BOOLEAN]
      /\ handle \in [Dir -> Handles \cup {Nil}] /\ filter \in [Dir -> Handles \cup {Nil}]
      /\ event \in [Dir -> Handles \cup {Nil}]
      /\ req \in [Dir -> {"none", "inflight", "ok", "failed", "stuck"}]
  BY DEF Init
<1>3. 0 \in 0..MaxAttempts
  BY KsAssumption
<1>4. dir \in Dir
  BY DEF Init, Dir
<1>5. /\ running = TRUE /\ step = "filter" /\ phase = "opening" /\ attempts = 0 /\ temp = Nil
      /\ state = 0 /\ asked = FALSE /\ silent = FALSE /\ rejected = FALSE /\ robbed = FALSE
  BY DEF Init
<1>6. /\ attempts \in 0..MaxAttempts /\ state \in 0..4
  BY <1>3, <1>5
<1>7. /\ temp \in Handles \cup {Nil} /\ asked \in BOOLEAN
      /\ running \in BOOLEAN /\ silent \in BOOLEAN
  BY <1>5
<1>8. rejected \in BOOLEAN /\ robbed \in BOOLEAN /\ phase \in {"opening", "serving", "closing"}
  BY <1>5
<1>9. step \in {"filter"}
  BY <1>5
<1>10. TypeOK
  BY <1>1, <1>2, <1>4, <1>6, <1>7, <1>8, <1>9 DEF TypeOK
<1> QED
  BY <1>5, <1>10 DEF TypeInv

\* Opening a pin.
LEMMA OpenTypeOK ==
    ASSUME TypeInv, Open
    PROVE  TypeInv'
<1> USE DEF TypeInv, TypeOK, At, Go, transitVars, stateVars, kernelVars, history
<1>1. CASE OpenFilter
  <2>1. CASE SideDone /\ UNCHANGED <<filter, table>>
    <3>1. /\ step' \in {"filter", "await", "drop", "loop", "done"}
          /\ dir' \in Dir /\ phase' \in {"opening", "serving", "closing"}
      BY <2>1, SideDoneType
    <3>2. attempts' = 0 /\ UNCHANGED <<running, transitVars, live, handle, event, pending, req,
                                      silent, history>>
      BY <1>1 DEF OpenFilter
    <3>3. attempts' \in 0..MaxAttempts
      BY <3>2, KsAssumption
    <3> QED
      BY <2>1, <3>1, <3>2, <3>3
  <2>2. CASE ~(SideDone /\ UNCHANGED <<filter, table>>)
    <3>1. PICK h \in Handles : /\ table' = [table EXCEPT ![h] = Own("filter", dir)]
                              /\ filter' = [filter EXCEPT ![dir] = h]
                              /\ Go("try")
      BY <1>1, <2>2 DEF OpenFilter
    <3>2. table' \in [Handles -> Objects]
      BY <3>1, TakeType
    <3> QED
      <4>1. attempts' = 0 /\ UNCHANGED <<running, transitVars, live, handle, event, pending,
                                        req, silent, history>>
        BY <1>1 DEF OpenFilter
      <4>2. attempts' \in 0..MaxAttempts
        BY <4>1, KsAssumption
      <4>3. filter' \in [Dir -> Handles \cup {Nil}]
        BY <3>1
      <4> QED
        BY <3>1, <3>2, <4>1, <4>2, <4>3
  <2> QED
    BY <2>1, <2>2
<1>2. CASE CreatePin
  <2>1. attempts' \in 0..MaxAttempts
    BY <1>2, KsAssumption DEF CreatePin
  <2>2. UNCHANGED <<running, dir, phase, state, asked, stateVars, req, silent, history>>
        /\ step' \in {"try", "test"}
    BY <1>2 DEF CreatePin
  <2>3. UNCHANGED <<temp, table>>
        \/ \E h \in Handles : table' = [table EXCEPT ![h] = Own("pin", dir)] /\ temp' = h
    BY <1>2 DEF CreatePin
  <2> HIDE <1>2
  <2>4. table' \in [Handles -> Objects] /\ temp' \in Handles \cup {Nil}
    <3>1. CASE UNCHANGED <<temp, table>>
      BY <3>1
    <3>2. CASE \E h \in Handles :
                  table' = [table EXCEPT ![h] = Own("pin", dir)] /\ temp' = h
      BY <3>2, TakeType
    <3> QED
      BY <2>3, <3>1, <3>2
  <2> QED
    BY <2>1, <2>2, <2>4
<1>3. CASE TestPin
  BY <1>3 DEF TestPin
<1>4. CASE RejectPin
  BY <1>4, CloseType DEF RejectPin
<1>5. CASE RejectDropHandle
  BY <1>5, CloseType DEF RejectDropHandle
<1>6. CASE RejectDropFilter
  BY <1>6, CloseType DEF RejectDropFilter
<1>7. CASE Fallback
  BY <1>7 DEF Fallback
<1>8. CASE MakeControl
  <2>1. CASE Go("event") /\ UNCHANGED <<temp, state, table>>
    BY <1>8, <2>1 DEF MakeControl
  <2>2. CASE ~(Go("event") /\ UNCHANGED <<temp, state, table>>)
    <3>1. PICK h \in Handles : /\ table' = [table EXCEPT ![h] = Own("control", dir)]
                              /\ temp' = h /\ state' = 1 /\ Go("transit")
      BY <1>8, <2>2 DEF MakeControl
    <3>2. table' \in [Handles -> Objects]
      BY <3>1, TakeType
    <3> QED
      BY <1>8, <3>1, <3>2 DEF MakeControl
  <2> QED
    BY <2>1, <2>2
<1>9. CASE Transit
  <2>1. UNCHANGED <<running, dir, phase, attempts, temp, stateVars, kernelVars, history>>
        /\ asked' \in BOOLEAN
    BY <1>9 DEF Transit, NextState
  <2>2. \/ step' = "answer" /\ state' = state
        \/ step' = (IF state = 3 THEN "dropControl" ELSE "transit") /\ state' = state + 1
    BY <1>9 DEF Transit, NextState
  <2>3. state \in 1..3
    BY <1>9 DEF Transit
  <2> HIDE <1>9
  <2>4. /\ state' \in 0..4 /\ step' \in {"answer", "dropControl", "transit"}
        /\ step' \in {"transit", "answer"} => state' \in 1..3
    BY <2>2, <2>3
  <2> QED
    BY <2>1, <2>4
<1>10. CASE Answer
  <2>1. UNCHANGED <<running, dir, phase, attempts, temp, stateVars, kernelVars, history>>
        /\ asked' \in BOOLEAN
    BY <1>10 DEF Answer, NextState
  <2>2. step' = (IF state = 3 THEN "dropControl" ELSE "transit") /\ state' = state + 1
    BY <1>10 DEF Answer, NextState
  <2>3. state \in 1..3
    BY <1>10 DEF Answer
  <2> HIDE <1>10
  <2>4. /\ state' \in 0..4 /\ step' \in {"dropControl", "transit"}
        /\ step' \in {"transit", "answer"} => state' \in 1..3
    BY <2>2, <2>3
  <2> QED
    BY <2>1, <2>4
<1>11. CASE DropControl
  BY <1>11, CloseType DEF DropControl
<1>12. CASE MakeEvent
  <2>1. CASE Go("dropPin") /\ UNCHANGED <<live, event, table>>
    BY <1>12, <2>1 DEF MakeEvent
  <2>2. CASE ~(Go("dropPin") /\ UNCHANGED <<live, event, table>>)
    <3>1. PICK h \in Handles : /\ table' = [table EXCEPT ![h] = Own("event", dir)]
                              /\ event' = [event EXCEPT ![dir] = h]
                              /\ live' = [live EXCEPT ![dir] = TRUE]
                              /\ \/ dir = "capture" /\ Go("submit")
                                 \/ dir = "render" /\ SideDone
      BY <1>12, <2>2 DEF MakeEvent
    <3>2. table' \in [Handles -> Objects]
      BY <3>1, TakeType
    <3>3. event' \in [Dir -> Handles \cup {Nil}] /\ live' \in [Dir -> BOOLEAN]
      BY <3>1
    <3>4. step' \in {"submit", "filter", "await", "drop", "loop", "done"} /\ dir' \in Dir
          /\ phase' \in {"opening", "serving", "closing"}
      BY <3>1, SideDoneType
    <3> QED
      BY <1>12, <3>2, <3>3, <3>4 DEF MakeEvent
  <2> QED
    BY <2>1, <2>2
<1> QED
  BY <1>1, <1>2, <1>3, <1>4, <1>5, <1>6, <1>7, <1>8, <1>9, <1>10, <1>11, <1>12 DEF Open

\* The streams in use, and their end.
LEMMA UseTypeOK ==
    ASSUME TypeInv, Serve \/ Close
    PROVE  TypeInv'
<1> USE DEF TypeInv, TypeOK, At, Go, transitVars, stateVars, kernelVars, history
<1>1. CASE Loop
  BY <1>1 DEF Loop
<1>2. CASE SubmitRead
  BY <1>2, SideDoneType DEF SubmitRead
<1>3. CASE SubmitWrite
  BY <1>3, SideDoneType DEF SubmitWrite
<1>4. CASE SkipSide
  BY <1>4, SideDoneType DEF SkipSide
<1>5. CASE AwaitRead
  BY <1>5, SideDoneType DEF AwaitRead
<1>6. CASE AwaitWrite
  BY <1>6 DEF AwaitWrite
<1>7. CASE UseBuffer
  BY <1>7 DEF UseBuffer
<1>8. CASE Drop
  <2>1. UNCHANGED <<running, attempts, transitVars, stateVars, kernelVars, history>>
    BY <1>8 DEF Drop
  <2>2. /\ step' \in {"filter", "await", "drop", "loop", "done", "drain", "dropEvent"}
        /\ dir' \in Dir /\ phase' \in {"opening", "serving", "closing"}
    BY <1>8, SideDoneType DEF Drop
  <2> QED
    BY <2>1, <2>2
<1>9. CASE Drain
  BY <1>9 DEF Drain
<1>10. CASE DropEvent
  BY <1>10, CloseType DEF DropEvent
<1>11. CASE DropPin
  BY <1>11, CloseType DEF DropPin
<1>12. CASE DropFilter
  BY <1>12, CloseType, SideDoneType DEF DropFilter
<1> QED
  BY <1>1, <1>2, <1>3, <1>4, <1>5, <1>6, <1>7, <1>8, <1>9, <1>10, <1>11, <1>12
     DEF Serve, Close

\* The rest of the process and the device.
LEMMA OutsideTypeOK ==
    ASSUME TypeInv,
           \/ Stop \/ Obey \/ FallSilent
           \/ \E d \in Dir : Complete(d)
           \/ \E h \in Handles : OtherOpens(h) \/ OtherCloses(h)
    PROVE  TypeInv'
<1> USE DEF TypeInv, TypeOK, threadVars, transitVars, stateVars, history
<1>1. CASE Stop \/ Obey \/ FallSilent
  <2>1. CASE Stop
    BY <2>1 DEF Stop, kernelVars
  <2>2. CASE Obey
    BY <2>2 DEF Obey, kernelVars
  <2>3. CASE FallSilent
    BY <2>3 DEF FallSilent
  <2> QED
    BY <1>1, <2>1, <2>2, <2>3
<1>2. CASE \E d \in Dir : Complete(d)
  BY <1>2 DEF Complete
<1>3. CASE \E h \in Handles : OtherOpens(h) \/ OtherCloses(h)
  <2>1. Free \in Objects /\ Other \in Objects
    BY DEF Objects
  <2>2. table' \in [Handles -> Objects]
    BY <1>3, <2>1 DEF OtherOpens, OtherCloses
  <2> QED
    BY <1>3, <2>2 DEF OtherOpens, OtherCloses
<1> QED
  BY <1>1, <1>2, <1>3

LEMMA TypesHold == Spec => []TypeInv
<1>1. TypeInv /\ [Next]_vars => TypeInv'
  <2> SUFFICES ASSUME TypeInv, [Next]_vars PROVE TypeInv'
    OBVIOUS
  <2>1. CASE UNCHANGED vars
    BY <2>1 DEF TypeInv, TypeOK, vars, threadVars, transitVars, stateVars, kernelVars, history
  <2> QED
    BY <2>1, OpenTypeOK, UseTypeOK, OutsideTypeOK DEF Next, Thread
<1> QED
  BY <1>1, InitType, PTL DEF Spec

\* Every variable has its type.
THEOREM TypeCorrect == Spec => []TypeOK
<1>1. TypeInv => TypeOK
  BY DEF TypeInv
<1> QED
  BY <1>1, TypesHold, PTL

-----------------------------------------------------------------------------
(***************************************************************************)
(* Requests.                                                               *)
(***************************************************************************)

\* Where the thread works on a side and no request of that side may be out:
\* while it opens the side, uses its buffer, or frees it.
Busy == {"filter", "try", "test", "reject", "rejectHandle", "rejectFilter", "control",
         "transit", "answer", "dropControl", "event", "submit", "use", "dropEvent",
         "dropPin", "dropFilter"}

\* A request is noted in its state, and there is none where the thread is busy
\* nor on the side that is still to be opened.
OwnInv ==
    /\ \A d \in Dir : req[d] = "inflight" => live[d] /\ pending[d]
    /\ step \in Busy => req[dir] # "inflight"
    /\ step \in {"submit", "use"} => live[dir]
    /\ phase = "opening" /\ dir = "capture" => req["render"] # "inflight"

\* Going on to the next side, or to the loop, keeps it: only a side that is
\* being opened begins at a busy place.
LEMMA SideDoneOwn ==
    ASSUME TypeInv, SideDone
    PROVE  /\ step' \in Busy => phase = "opening" /\ dir = "capture" /\ dir' = "render"
           /\ step' \notin {"submit", "use"}
           /\ ~(phase' = "opening" /\ dir' = "capture")
<1>1. phase \in {"opening", "serving", "closing"}
  BY DEF TypeInv, TypeOK
<1>2. CASE dir = "capture"
  BY <1>1, <1>2 DEF SideDone, First, Busy
<1>3. CASE dir = "render"
  BY <1>1, <1>3 DEF SideDone, First, Busy
<1> QED
  BY <1>2, <1>3 DEF SideDone

\* Before a side has its state, nothing is requested.
LEMMA OpenOwn ==
    ASSUME TypeInv, OwnInv, Open
    PROVE  OwnInv'
<1>1. req' = req /\ pending' = pending
  BY DEF Open, OpenFilter, CreatePin, TestPin, RejectPin, RejectDropHandle, RejectDropFilter,
         Fallback, MakeControl, Transit, Answer, DropControl, MakeEvent, stateVars, kernelVars
<1>2. step \in Busy
  BY DEF Open, OpenFilter, CreatePin, TestPin, RejectPin, RejectDropHandle, RejectDropFilter,
         Fallback, MakeControl, Transit, Answer, DropControl, MakeEvent, At, Busy
<1>3. \A d \in Dir : live[d] => live'[d]
  <2>1. CASE MakeEvent
    BY <2>1 DEF MakeEvent, TypeInv, TypeOK
  <2>2. CASE ~MakeEvent
    BY <2>2 DEF Open, OpenFilter, CreatePin, TestPin, RejectPin, RejectDropHandle,
                RejectDropFilter, Fallback, MakeControl, Transit, Answer, DropControl, stateVars
  <2> QED
    BY <2>1, <2>2
<1>4. SideDone \/ (dir' = dir /\ phase' = phase)
  BY DEF Open, OpenFilter, CreatePin, TestPin, RejectPin, RejectDropHandle, RejectDropFilter,
         Fallback, MakeControl, Transit, NextState, Answer, DropControl, MakeEvent, Go
<1>5. step' \in {"submit", "use"} /\ ~SideDone => live'[dir']
  <2>1. CASE MakeEvent
    BY <2>1 DEF MakeEvent, Go, TypeInv, TypeOK
  <2>2. CASE ~MakeEvent
    BY <2>2 DEF Open, OpenFilter, CreatePin, TestPin, RejectPin, RejectDropHandle,
                RejectDropFilter, Fallback, MakeControl, Transit, NextState, Answer,
                DropControl, Go
  <2> QED
    BY <2>1, <2>2
<1>6. CASE SideDone
  BY <1>1, <1>2, <1>3, <1>6, SideDoneOwn DEF OwnInv
<1>7. CASE dir' = dir /\ phase' = phase
  BY <1>1, <1>2, <1>3, <1>5, <1>6, <1>7 DEF OwnInv
<1> QED
  BY <1>4, <1>6, <1>7

\* A request is made only where none is out, and waited for before its buffer
\* is used.
LEMMA ServeOwn ==
    ASSUME TypeInv, OwnInv, Serve
    PROVE  OwnInv'
<1> USE DEF OwnInv, At, Go, stateVars, kernelVars
<1>1. CASE Loop
  BY <1>1 DEF Loop, Busy
<1>2. CASE SkipSide
  BY <1>2, SideDoneOwn DEF SkipSide
<1>3. CASE UseBuffer
  BY <1>3 DEF UseBuffer, Busy
<1>4. CASE SubmitRead
  <2>1. dir = "capture" /\ live["capture"] /\ req["capture"] # "inflight" /\ step = "submit"
    BY <1>4 DEF SubmitRead, Busy
  <2>2. /\ req'["capture"] = "inflight" => pending'["capture"]
        /\ req'["render"] = req["render"] /\ pending'["render"] = pending["render"]
        /\ live' = live /\ SideDone
    BY <1>4 DEF SubmitRead, TypeInv, TypeOK, Dir
  <2> QED
    BY <2>1, <2>2, SideDoneOwn DEF Dir
<1>5. CASE SubmitWrite
  <2>1. dir = "render" /\ live["render"] /\ step = "submit"
    BY <1>5 DEF SubmitWrite, Busy
  <2>2. /\ pending'["render"]
        /\ req'["capture"] = req["capture"] /\ pending'["capture"] = pending["capture"]
        /\ live' = live /\ SideDone
    BY <1>5 DEF SubmitWrite, TypeInv, TypeOK, Dir
  <2> QED
    BY <2>1, <2>2, SideDoneOwn DEF Dir
<1>6. CASE AwaitRead
  <2>1. dir = "capture" /\ live[dir] /\ req[dir] # "inflight" /\ UNCHANGED <<live, req>>
    BY <1>6 DEF AwaitRead
  <2>2. /\ pending'["render"] = pending["render"]
        /\ SideDone \/ (dir' = dir /\ phase' = phase /\ step' \in {"use", "submit"})
    BY <1>6, <2>1 DEF AwaitRead, TypeInv, TypeOK, Dir
  <2>3. CASE SideDone
    BY <2>1, <2>2, <2>3, SideDoneOwn DEF Dir
  <2>4. CASE ~SideDone
    BY <2>1, <2>2, <2>4 DEF Dir
  <2> QED
    BY <2>3, <2>4
<1>7. CASE AwaitWrite
  <2>1. dir = "render" /\ live[dir] /\ UNCHANGED <<live, req, dir, phase>> /\ step' = "use"
    BY <1>7 DEF AwaitWrite
  <2>2. pending'["capture"] = pending["capture"] /\ req[dir] # "inflight"
    BY <1>7, <2>1 DEF AwaitWrite, Completed, TypeInv, TypeOK, Dir
  <2> QED
    BY <2>1, <2>2 DEF Dir
<1> QED
  BY <1>1, <1>2, <1>3, <1>4, <1>5, <1>6, <1>7 DEF Serve

\* A side is freed only after its request was drained.
LEMMA CloseOwn ==
    ASSUME TypeInv, OwnInv, Close
    PROVE  OwnInv'
<1> USE DEF OwnInv, At, Go
<1>1. CASE Drop
  <2>1. UNCHANGED stateVars /\ UNCHANGED kernelVars /\ step = "drop"
    BY <1>1 DEF Drop
  <2>2. CASE SideDone
    BY <2>1, <2>2, SideDoneOwn DEF stateVars, kernelVars
  <2>3. CASE ~SideDone
    BY <1>1, <2>1, <2>3 DEF Drop, stateVars, kernelVars, Busy, TypeInv, TypeOK
  <2> QED
    BY <2>2, <2>3
<1>2. CASE Drain
  BY <1>2 DEF Drain, Completed, stateVars, kernelVars
<1>3. CASE DropEvent
  BY <1>3 DEF DropEvent, Busy
<1>4. CASE DropPin
  BY <1>4 DEF DropPin, stateVars, Busy
<1>5. CASE DropFilter
  <2>1. req[dir] # "inflight" /\ UNCHANGED <<req, pending>> /\ SideDone
    BY <1>5 DEF DropFilter, Busy
  <2>2. \A d \in Dir : d # dir => live'[d] = live[d]
    BY <1>5 DEF DropFilter, TypeInv, TypeOK
  <2> QED
    BY <2>1, <2>2, SideDoneOwn
<1> QED
  BY <1>1, <1>2, <1>3, <1>4, <1>5 DEF Close

\* The kernel only completes requests, and nobody else has any.
LEMMA OutsideOwn ==
    ASSUME TypeInv, OwnInv,
           \/ Stop \/ Obey \/ FallSilent
           \/ \E d \in Dir : Complete(d)
           \/ \E h \in Handles : OtherOpens(h) \/ OtherCloses(h)
    PROVE  OwnInv'
<1>1. UNCHANGED <<step, dir, phase, stateVars>>
  BY DEF Stop, Obey, FallSilent, Complete, OtherOpens, OtherCloses, threadVars
<1>2. \A d \in Dir : req'[d] = "inflight" => req[d] = "inflight"
  <2>1. CASE \E d \in Dir : Complete(d)
    BY <2>1 DEF Complete, TypeInv, TypeOK
  <2>2. CASE ~\E d \in Dir : Complete(d)
    BY <2>2 DEF Stop, Obey, FallSilent, OtherOpens, OtherCloses, kernelVars
  <2> QED
    BY <2>1, <2>2
<1>3. dir \in Dir /\ "render" \in Dir
  BY DEF TypeInv, TypeOK, Dir
<1> QED
  BY <1>1, <1>2, <1>3 DEF OwnInv, stateVars

\* The inductive invariant holds of every behaviour of the thread.
LEMMA OwnHolds == Spec => []OwnInv
<1>1. Init => OwnInv
  BY DEF Init, OwnInv, Dir
<1>2. TypeInv /\ OwnInv /\ [Next]_vars => OwnInv'
  <2> SUFFICES ASSUME TypeInv, OwnInv, [Next]_vars PROVE OwnInv'
    OBVIOUS
  <2>1. CASE UNCHANGED vars
    BY <2>1 DEF OwnInv, vars, threadVars, stateVars, kernelVars
  <2> QED
    BY <2>1, OpenOwn, ServeOwn, CloseOwn, OutsideOwn DEF Next, Thread
<1> QED
  BY <1>1, <1>2, TypesHold, PTL DEF Spec

\* Across failed opens, empty reads, refused requests and the drop of the
\* state, no buffer is touched or freed while the kernel has it.
THEOREM RequestsAreOwned == Spec => []KernelOwnsRequest
<1>1. OwnInv => KernelOwnsRequest
  BY DEF OwnInv, KernelOwnsRequest, Busy
<1> QED
  BY <1>1, OwnHolds, PTL

-----------------------------------------------------------------------------
(***************************************************************************)
(* What stop() can count on without fairness: from any place of the thread *)
(* its end is a bounded number of steps away, none of which is undone.     *)
(***************************************************************************)

\* The places of each phase.
PlacesOf ==
    [opening |-> {"filter", "try", "test", "reject", "rejectHandle", "rejectFilter", "control",
                  "transit", "answer", "dropControl", "event", "submit", "dropPin",
                  "dropFilter"},
     serving |-> {"await", "use", "submit", "loop"},
     closing |-> {"drop", "drain", "dropEvent", "dropPin", "dropFilter", "done"}]

\* A phase keeps to its places, and each turn of the loop begins with capture.
OrderInv == step \in PlacesOf[phase] /\ (step = "loop" => dir = "capture")

\* How far a place is from the end of its side, where no count comes in, ...
Fixed == [control |-> 11, dropControl |-> 4, event |-> 3, await |-> 3, use |-> 2,
          submit |-> 1, drop |-> 5, drain |-> 4, dropEvent |-> 3, dropPin |-> 2,
          dropFilter |-> 1]

\* ... and from the next try of a format.
Trying == [try |-> 0, rejectFilter |-> 1, rejectHandle |-> 2, reject |-> 3, test |-> 4]

\* The steps left with the side at hand, each format and each state counted.
WithSide ==
    IF step = "filter" THEN 5 * MaxAttempts + 13
    ELSE IF step \in DOMAIN Trying THEN 5 * (MaxAttempts - attempts) + 12 + Trying[step]
    ELSE IF step = "transit" THEN 12 - 2 * state
    ELSE IF step = "answer" THEN 11 - 2 * state
    ELSE Fixed[step]

\* The steps left after that: the other side, the loop once more, the end.
AfterSide ==
    IF phase = "closing" THEN IF dir = "render" THEN 0 ELSE 5
    ELSE IF dir = "render" THEN 11
    ELSE IF phase = "serving" THEN 14 ELSE 5 * MaxAttempts + 24

\* The steps a thread has left at most when its flag is FALSE.
StepsLeft ==
    IF step = "done" THEN 0 ELSE IF step = "loop" THEN 11 ELSE WithSide + AfterSide

\* The flag stays FALSE, each step of the thread brings it nearer to its end,
\* and the kernel and the rest of the process do not set it back.
NearsItsEnd ==
    ~running => /\ ~running'
                /\ Thread => StepsLeft' < StepsLeft
                /\ StepsLeft' <= StepsLeft

\* Where SideDone leads.
LEMMA SideDoneOrder ==
    ASSUME TypeInv, SideDone
    PROVE  OrderInv'
<1>1. phase \in {"opening", "serving", "closing"}
  BY DEF TypeInv, TypeOK
<1>2. CASE dir = "capture"
  BY <1>1, <1>2 DEF SideDone, First, OrderInv, PlacesOf
<1>3. CASE dir = "render"
  BY <1>1, <1>3 DEF SideDone, OrderInv, PlacesOf
<1> QED
  BY <1>2, <1>3 DEF TypeInv, TypeOK, Dir

\* The thread goes through its phases in order.
LEMMA OrderHolds == Spec => []OrderInv
<1>1. Init => OrderInv
  BY DEF Init, OrderInv, PlacesOf
<1>2. TypeInv /\ OrderInv /\ [Next]_vars => OrderInv'
  <2> SUFFICES ASSUME TypeInv, OrderInv, [Next]_vars PROVE OrderInv'
    OBVIOUS
  <2>1. phase \in {"opening", "serving", "closing"}
    BY DEF TypeInv, TypeOK
  <2>2. ASSUME Go("try") \/ Go("test") \/ Go("control") \/ Go("reject") \/ Go("rejectHandle")
                  \/ Go("rejectFilter") \/ Go("transit") \/ Go("answer") \/ Go("dropControl")
                  \/ Go("event") \/ Go("submit") \/ Go("dropPin"),
               step \in PlacesOf["opening"], step \notin PlacesOf["serving"],
               step \notin PlacesOf["closing"]
        PROVE  OrderInv'
    BY <2>1, <2>2 DEF Go, OrderInv, PlacesOf
  <2>3. CASE Open
    <3> USE DEF At, NextState
    <3>1. CASE OpenFilter \/ CreatePin \/ TestPin
      BY <2>2, <3>1, SideDoneOrder DEF OpenFilter, CreatePin, TestPin, PlacesOf
    <3>2. CASE RejectPin \/ RejectDropHandle \/ RejectDropFilter
      BY <2>2, <3>2 DEF RejectPin, RejectDropHandle, RejectDropFilter, PlacesOf
    <3>3. CASE Fallback \/ MakeControl \/ DropControl
      BY <2>2, <3>3 DEF Fallback, MakeControl, DropControl, PlacesOf
    <3>4. CASE Transit \/ Answer
      BY <2>2, <3>4 DEF Transit, Answer, PlacesOf
    <3>5. CASE MakeEvent
      BY <2>2, <3>5, SideDoneOrder DEF MakeEvent, PlacesOf
    <3> QED
      BY <2>3, <3>1, <3>2, <3>3, <3>4, <3>5 DEF Open
  <2>4. CASE Serve
    <3> USE DEF At, Go
    <3>1. CASE Loop
      BY <2>1, <3>1 DEF Loop, OrderInv, PlacesOf
    <3>2. CASE SubmitRead \/ SubmitWrite \/ SkipSide
      BY <3>2, SideDoneOrder DEF SubmitRead, SubmitWrite, SkipSide
    <3>3. CASE AwaitRead
      BY <2>1, <3>3, SideDoneOrder DEF AwaitRead, OrderInv, PlacesOf
    <3>4. CASE AwaitWrite \/ UseBuffer
      BY <2>1, <3>4 DEF AwaitWrite, UseBuffer, OrderInv, PlacesOf
    <3> QED
      BY <2>4, <3>1, <3>2, <3>3, <3>4 DEF Serve
  <2>5. CASE Close
    <3> USE DEF At, Go
    <3>1. CASE Drop
      BY <2>1, <3>1, SideDoneOrder DEF Drop, OrderInv, PlacesOf
    <3>2. CASE Drain \/ DropEvent \/ DropPin
      BY <2>1, <3>2 DEF Drain, DropEvent, DropPin, OrderInv, PlacesOf
    <3>3. CASE DropFilter
      BY <3>3, SideDoneOrder DEF DropFilter
    <3> QED
      BY <2>5, <3>1, <3>2, <3>3 DEF Close
  <2>6. CASE UNCHANGED <<step, dir, phase>>
    BY <2>6 DEF OrderInv
  <2>7. Next => Thread \/ UNCHANGED <<step, dir, phase>>
    BY DEF Next, Stop, Complete, Obey, FallSilent, OtherOpens, OtherCloses, threadVars
  <2> QED
    BY <2>3, <2>4, <2>5, <2>6, <2>7 DEF Thread, vars, threadVars
<1> QED
  BY <1>1, <1>2, TypesHold, PTL DEF Spec

\* Every place but the loop and the end has at least one step of its side left.
LEMMA SideHasSteps ==
    ASSUME TypeInv, step \notin {"loop", "done"}
    PROVE  WithSide \in 1..5 * MaxAttempts + 16 /\ AfterSide \in 0..5 * MaxAttempts + 24
<1> USE KsAssumption DEF TypeInv, TypeOK
<1>1. AfterSide \in 0..5 * MaxAttempts + 24
  BY DEF AfterSide
<1>2. CASE step = "filter"
  BY <1>1, <1>2 DEF WithSide
<1>3. CASE step \in DOMAIN Trying
  <2>1. /\ step # "filter" /\ Trying[step] \in 0..4
        /\ MaxAttempts - attempts \in 0..MaxAttempts
    BY <1>3 DEF Trying
  <2>2. WithSide = 5 * (MaxAttempts - attempts) + 12 + Trying[step]
    BY <1>3, <2>1 DEF WithSide
  <2> QED
    BY <1>1, <2>1, <2>2
<1>4. CASE step \in {"transit", "answer"}
  BY <1>1, <1>4 DEF WithSide, Trying
<1>5. CASE step \notin {"filter", "transit", "answer"} /\ step \notin DOMAIN Trying
  BY <1>1, <1>5 DEF WithSide, Trying, Fixed
<1> QED
  BY <1>1, <1>2, <1>3, <1>4, <1>5

\* Leaving a side uses up a step of it.
LEMMA SideDoneLess ==
    ASSUME TypeInv, OrderInv, SideDone, step \notin {"loop", "done"}
    PROVE  StepsLeft' < StepsLeft
<1>1. /\ WithSide \in Nat \ {0} /\ AfterSide \in Nat /\ MaxAttempts \in Nat
      /\ StepsLeft = WithSide + AfterSide
      /\ phase \in {"opening", "serving", "closing"} /\ dir \in Dir
  BY SideHasSteps, KsAssumption DEF StepsLeft, TypeInv, TypeOK
<1>2. CASE dir = "capture" /\ phase = "opening"
  <2>1. step' = "filter" /\ dir' = "render" /\ phase' = "opening"
    BY <1>2 DEF SideDone, First
  <2>2. StepsLeft' = 5 * MaxAttempts + 24 /\ AfterSide = 5 * MaxAttempts + 24
    BY <1>1, <1>2, <2>1 DEF StepsLeft, WithSide, AfterSide
  <2> QED
    BY <1>1, <2>2
<1>3. CASE dir = "capture" /\ phase = "serving"
  <2>1. step' = "await" /\ dir' = "render" /\ phase' = "serving"
    BY <1>3 DEF SideDone, First
  <2>2. StepsLeft' = 14 /\ AfterSide = 14
    BY <1>3, <2>1 DEF StepsLeft, WithSide, AfterSide, Trying, Fixed
  <2> QED
    BY <1>1, <2>2
<1>4. CASE dir = "capture" /\ phase = "closing"
  <2>1. step' = "drop" /\ dir' = "render" /\ phase' = "closing"
    BY <1>4 DEF SideDone, First
  <2>2. StepsLeft' = 5 /\ AfterSide = 5
    BY <1>4, <2>1 DEF StepsLeft, WithSide, AfterSide, Trying, Fixed
  <2> QED
    BY <1>1, <2>2
<1>5. CASE dir = "render" /\ phase # "closing"
  <2>1. step' = "loop"
    BY <1>5 DEF SideDone
  <2>2. StepsLeft' = 11 /\ AfterSide = 11
    BY <1>5, <2>1 DEF StepsLeft, AfterSide
  <2> QED
    BY <1>1, <2>2
<1>6. CASE dir = "render" /\ phase = "closing"
  <2>1. StepsLeft' = 0
    BY <1>6 DEF SideDone, StepsLeft
  <2> QED
    BY <1>1, <2>1
<1> QED
  BY <1>1, <1>2, <1>3, <1>4, <1>5, <1>6 DEF Dir

\* Going on with a side needs only the steps of that side.
LEMMA GoLess ==
    ASSUME TypeInv, step \notin {"loop", "done"}, step' \notin {"loop", "done"},
           UNCHANGED <<dir, phase>>, WithSide' \in Nat, WithSide' < WithSide
    PROVE  StepsLeft' < StepsLeft
<1>1. AfterSide' = AfterSide
  BY DEF AfterSide
<1>2. StepsLeft = WithSide + AfterSide /\ StepsLeft' = WithSide' + AfterSide'
  BY DEF StepsLeft
<1> QED
  BY <1>1, <1>2, SideHasSteps

\* Opening a side: each format is tried once, and each state asked for once.
LEMMA OpenLess == ASSUME TypeInv, OrderInv, Open PROVE StepsLeft' < StepsLeft
<1> USE KsAssumption DEF TypeInv, TypeOK, At
<1>1. CASE OpenFilter
  <2>1. CASE SideDone
    BY <1>1, <2>1, SideDoneLess DEF OpenFilter
  <2>2. CASE Go("try") /\ attempts' = 0
    <3>1. WithSide = 5 * MaxAttempts + 13 /\ WithSide' = 5 * MaxAttempts + 12
      BY <1>1, <2>2 DEF OpenFilter, Go, WithSide, Trying
    <3> QED
      BY <1>1, <2>2, <3>1, GoLess DEF OpenFilter, Go
  <2> QED
    BY <1>1, <2>1, <2>2 DEF OpenFilter
<1>2. CASE CreatePin
  <2> DEFINE n == MaxAttempts - attempts
  <2>1. n \in Nat /\ n > 0 /\ MaxAttempts - attempts' = n - 1
    BY <1>2 DEF CreatePin
  <2>2. WithSide = 5 * n + 12
    BY <1>2 DEF CreatePin, WithSide, Trying
  <2>3. WithSide' \in {5 * (n - 1) + 12, 5 * (n - 1) + 12 + 4}
    <3>1. (MaxAttempts - attempts)' = n - 1
      BY <2>1
    <3>2. step' = "try" \/ step' = "test"
      BY <1>2 DEF CreatePin, Go
    <3> QED
      BY <2>1, <3>1, <3>2 DEF WithSide, Trying
  <2> QED
    BY <1>2, <2>1, <2>2, <2>3, GoLess DEF CreatePin, Go
<1>3. CASE TestPin \/ RejectPin \/ RejectDropHandle \/ RejectDropFilter
  <2> DEFINE n == 5 * (MaxAttempts - attempts) + 12
  <2>1. n \in Nat /\ n >= 12 /\ attempts' = attempts
    BY <1>3 DEF TestPin, RejectPin, RejectDropHandle, RejectDropFilter
  <2>2. WithSide = n + Trying[step] /\ step \in {"test", "reject", "rejectHandle", "rejectFilter"}
    BY <1>3 DEF TestPin, RejectPin, RejectDropHandle, RejectDropFilter, WithSide, Trying
  <2>3. \/ step' = "control" /\ WithSide' = 11
        \/ step' = "reject" /\ step = "test" /\ WithSide' = n + 3
        \/ step' = "rejectHandle" /\ step = "reject" /\ WithSide' = n + 2
        \/ step' = "rejectFilter" /\ step = "rejectHandle" /\ WithSide' = n + 1
        \/ step' = "try" /\ step = "rejectFilter" /\ WithSide' = n
    <3>1. n' = n
      BY <2>1
    <3> QED
      BY <1>3, <3>1 DEF TestPin, RejectPin, RejectDropHandle, RejectDropFilter, Go, WithSide,
                        Trying, Fixed
  <2>4. WithSide' \in Nat /\ WithSide' < WithSide
    BY <2>1, <2>2, <2>3 DEF Trying
  <2>5. UNCHANGED <<dir, phase>>
    BY <1>3 DEF TestPin, RejectPin, RejectDropHandle, RejectDropFilter, Go
  <2> QED
    BY <2>2, <2>3, <2>4, <2>5, GoLess
<1>4. CASE Fallback
  <2>1. WithSide = 12 /\ WithSide' = 11
    BY <1>4 DEF Fallback, Go, WithSide, Trying, Fixed
  <2> QED
    BY <1>4, <2>1, GoLess DEF Fallback, Go
<1>5. CASE MakeControl
  <2>1. WithSide = 11 /\ WithSide' \in {10, 3}
    BY <1>5 DEF MakeControl, Go, WithSide, Trying, Fixed
  <2> QED
    BY <1>5, <2>1, GoLess DEF MakeControl, Go
<1>6. CASE Transit \/ Answer
  <2>1. state \in 1..3
    BY <1>6 DEF Transit, Answer
  <2>2. WithSide = IF step = "transit" THEN 12 - 2 * state ELSE 11 - 2 * state
    BY <1>6 DEF Transit, Answer, WithSide, Trying
  <2>3. \/ step' = "answer" /\ step = "transit" /\ WithSide' = 11 - 2 * state
        \/ step' = "transit" /\ WithSide' = 12 - 2 * (state + 1)
        \/ step' = "dropControl" /\ WithSide' = 4
    BY <1>6 DEF Transit, Answer, NextState, Go, WithSide, Trying, Fixed
  <2>4. WithSide' \in Nat /\ WithSide' < WithSide
    BY <1>6, <2>1, <2>2, <2>3 DEF Transit, Answer
  <2> QED
    BY <1>6, <2>3, <2>4, GoLess DEF Transit, Answer, NextState, Go
<1>7. CASE DropControl
  <2>1. WithSide = 4 /\ WithSide' = 3
    BY <1>7 DEF DropControl, Go, WithSide, Trying, Fixed
  <2> QED
    BY <1>7, <2>1, GoLess DEF DropControl, Go
<1>8. CASE MakeEvent
  <2>1. CASE SideDone
    BY <1>8, <2>1, SideDoneLess DEF MakeEvent
  <2>2. CASE Go("dropPin") \/ Go("submit")
    <3>1. WithSide = 3 /\ WithSide' \in {2, 1}
      BY <1>8, <2>2 DEF MakeEvent, Go, WithSide, Trying, Fixed
    <3> QED
      BY <1>8, <2>2, <3>1, GoLess DEF MakeEvent, Go
  <2> QED
    BY <1>8, <2>1, <2>2 DEF MakeEvent
<1> QED
  BY <1>1, <1>2, <1>3, <1>4, <1>5, <1>6, <1>7, <1>8 DEF Open

\* Serving a side, which a thread that was told to stop begins no more.
LEMMA ServeLess == ASSUME TypeInv, OrderInv, ~running, Serve PROVE StepsLeft' < StepsLeft
<1> USE DEF At
<1>1. CASE Loop
  <2>1. step = "loop" /\ dir = "capture" /\ step' = "drop" /\ phase' = "closing" /\ dir' = dir
    BY <1>1 DEF Loop, OrderInv
  <2>2. StepsLeft = 11 /\ StepsLeft' = 10
    BY <2>1 DEF StepsLeft, WithSide, AfterSide, Trying, Fixed
  <2> QED
    BY <2>2
<1>2. CASE SubmitRead \/ SubmitWrite \/ SkipSide
  BY <1>2, SideDoneLess DEF SubmitRead, SubmitWrite, SkipSide
<1>3. CASE AwaitRead \/ AwaitWrite
  <2>1. CASE SideDone
    BY <1>3, <2>1, SideDoneLess DEF AwaitRead, AwaitWrite
  <2>2. CASE Go("use") \/ Go("submit")
    <3>1. WithSide = 3 /\ WithSide' \in {2, 1}
      BY <1>3, <2>2 DEF AwaitRead, AwaitWrite, Go, WithSide, Trying, Fixed
    <3> QED
      BY <1>3, <2>2, <3>1, GoLess DEF AwaitRead, AwaitWrite, Go
  <2> QED
    BY <1>3, <2>1, <2>2 DEF AwaitRead, AwaitWrite
<1>4. CASE UseBuffer
  <2>1. WithSide = 2 /\ WithSide' = 1
    BY <1>4 DEF UseBuffer, Go, WithSide, Trying, Fixed
  <2> QED
    BY <1>4, <2>1, GoLess DEF UseBuffer, Go
<1> QED
  BY <1>1, <1>2, <1>3, <1>4 DEF Serve

\* Dropping a side.
LEMMA CloseLess == ASSUME TypeInv, OrderInv, Close PROVE StepsLeft' < StepsLeft
<1> USE DEF At
<1>1. CASE Drop
  <2>1. CASE SideDone
    BY <1>1, <2>1, SideDoneLess DEF Drop
  <2>2. CASE Go("drain") \/ Go("dropEvent")
    <3>1. WithSide = 5 /\ WithSide' \in {4, 3}
      BY <1>1, <2>2 DEF Drop, Go, WithSide, Trying, Fixed
    <3> QED
      BY <1>1, <2>2, <3>1, GoLess DEF Drop, Go
  <2> QED
    BY <1>1, <2>1, <2>2 DEF Drop
<1>2. CASE Drain \/ DropEvent \/ DropPin
  <2>1. \/ WithSide = 4 /\ WithSide' = 3
        \/ WithSide = 3 /\ WithSide' = 2
        \/ WithSide = 2 /\ WithSide' = 1
    BY <1>2 DEF Drain, DropEvent, DropPin, Go, WithSide, Trying, Fixed
  <2> QED
    BY <1>2, <2>1, GoLess DEF Drain, DropEvent, DropPin, Go
<1>3. CASE DropFilter
  BY <1>3, SideDoneLess DEF DropFilter
<1> QED
  BY <1>1, <1>2, <1>3 DEF Close

LEMMA InReach == ASSUME TypeInv PROVE StepsLeft \in 0..10 * MaxAttempts + 40
<1>1. CASE step \in {"loop", "done"}
  BY <1>1, KsAssumption DEF StepsLeft
<1>2. CASE step \notin {"loop", "done"}
  BY <1>2, SideHasSteps, KsAssumption DEF StepsLeft
<1> QED
  BY <1>1, <1>2

\* Wherever stop() finds the thread, the way to its end has a length that only
\* the number of formats decides.
THEOREM EndIsInReach == Spec => [](StepsLeft \in 0..10 * MaxAttempts + 40)
<1>1. TypeInv => StepsLeft \in 0..10 * MaxAttempts + 40
  BY InReach
<1> QED
  BY <1>1, TypesHold, PTL

\* Nobody sets the flag again.
LEMMA StaysStopped == ASSUME ~running, Next PROVE ~running'
<1> USE DEF threadVars
<1>1. CASE Open
  BY <1>1 DEF Open, OpenFilter, CreatePin, TestPin, RejectPin, RejectDropHandle,
              RejectDropFilter, Fallback, MakeControl, Transit, Answer, DropControl, MakeEvent
<1>2. CASE Serve
  BY <1>2 DEF Serve, Loop, SubmitRead, SubmitWrite, SkipSide, AwaitRead, AwaitWrite, UseBuffer
<1>3. CASE Close
  BY <1>3 DEF Close, Drop, Drain, DropEvent, DropPin, DropFilter
<1>4. CASE Stop \/ (\E d \in Dir : Complete(d)) \/ Obey \/ FallSilent
           \/ \E h \in Handles : OtherOpens(h) \/ OtherCloses(h)
  BY <1>4 DEF Stop, Complete, Obey, FallSilent, OtherOpens, OtherCloses
<1> QED
  BY <1>1, <1>2, <1>3, <1>4 DEF Next, Thread

\* Once stop() has stored the flag every step of the thread shortens that way
\* and none of anybody else makes it longer: the thread tries no format twice,
\* makes at most one more request on each side, and closes what it opened.  It
\* can only be held up where it waits for the kernel.
THEOREM StopIsNear == Spec => [][NearsItsEnd]_vars
<1> DEFINE Reach == StepsLeft \in 0..10 * MaxAttempts + 40
<1>1. TypeInv /\ Reach /\ Reach' /\ OrderInv /\ [Next]_vars => [NearsItsEnd]_vars
  <2> SUFFICES ASSUME TypeInv, Reach, Reach', OrderInv, Next, ~running
               PROVE  /\ ~running'
                      /\ Thread => StepsLeft' < StepsLeft
                      /\ StepsLeft' <= StepsLeft
    BY DEF NearsItsEnd
  <2>1. Thread => StepsLeft' < StepsLeft
    BY OpenLess, ServeLess, CloseLess DEF Thread
  <2>2. ~Thread => UNCHANGED <<step, dir, phase, attempts, state>>
    BY DEF Next, Stop, Complete, Obey, FallSilent, OtherOpens, OtherCloses, threadVars,
           transitVars
  <2>3. ~Thread => StepsLeft' = StepsLeft
    BY <2>2 DEF StepsLeft, WithSide, AfterSide
  <2>4. StepsLeft' <= StepsLeft
    BY <2>1, <2>3, KsAssumption
  <2> QED
    BY <2>1, <2>4, StaysStopped
<1> QED
  BY <1>1, TypesHold, OrderHolds, EndIsInReach, PTL DEF Spec

=============================================================================
