--------------------------- MODULE KsHandleProofs ---------------------------
(***************************************************************************)
(* Proofs about the handles of KsStream.  The inductive invariant is in    *)
(* three layers.  PlaceInv says which handles each side has at each place  *)
(* of the thread; Accounted, that every object of the thread in the        *)
(* kernel's handle table is named by the variable that will close it; and  *)
(* Intact, that until a pin is rejected what the variables name is open.   *)
(***************************************************************************)
EXTENDS KsStreamProofs

\* A side that has its stream, and one that has nothing.
Whole(d) == live[d] /\ handle[d] # Nil /\ filter[d] # Nil /\ event[d] # Nil
Unset(d) == ~live[d] /\ handle[d] = Nil /\ filter[d] = Nil /\ event[d] = Nil

\* The places of the thread: it looks for a pin, it has one but no stream yet,
\* it closes the last two handles, it holds a pin to be tested or the event of
\* a transition, and it drops the streams.
Searching == {"try", "test", "reject", "rejectHandle", "rejectFilter"}
Starting == {"control", "transit", "answer", "dropControl", "event"}
Dropping == {"dropPin", "dropFilter"}
Testing == {"test", "reject", "rejectHandle"}
Controlling == {"transit", "answer", "dropControl"}
Ending == {"drop", "drain", "dropEvent", "done"}

\* How the order of the sides and of the phases shows in what there is.
PhaseInv ==
    /\ step \in Ending => phase = "closing"
    /\ phase = "closing" => step \in Ending \cup Dropping
    /\ phase = "opening" /\ dir = "capture" => Unset("render")
    /\ phase = "closing" /\ dir = "render" => Unset("capture")
    /\ step = "loop" => dir = "capture"
    /\ step = "done" => Unset("capture") /\ Unset("render")

\* The side at hand has what its place implies; any other has all or nothing.
SideInv ==
    /\ \A d \in Dir : d # dir \/ step \notin Searching \cup Starting \cup Dropping =>
           Whole(d) \/ Unset(d)
    /\ step = "filter" => Unset(dir)
    /\ step \in {"drain", "dropEvent"} => Whole(dir)
    /\ step \in Searching =>
           ~live[dir] /\ handle[dir] = Nil /\ filter[dir] # Nil /\ event[dir] = Nil
    /\ step \in Starting =>
           ~live[dir] /\ handle[dir] # Nil /\ filter[dir] # Nil /\ event[dir] = Nil
    /\ step \in Dropping =>
           /\ handle[dir] # Nil /\ filter[dir] # Nil /\ event[dir] = Nil
           /\ live[dir] => phase = "closing"
    /\ temp # Nil <=> step \in Testing \cup Controlling

\* The first layer.
PlaceInv == PhaseInv /\ SideInv

\* The kinds of objects the thread makes.
Kind == {"filter", "pin", "control", "event"}

\* The second layer: an object of the thread stands under a handle that some
\* variable still holds.  When the filter's turn comes, the pin is closed.
Accounted ==
    /\ \A h \in Handles, d \in Dir :
        /\ table[h] = Own("filter", d) => filter[d] = h
        /\ table[h] = Own("pin", d) =>
               handle[d] = h \/ (temp = h /\ dir = d /\ step \in {"test", "reject"})
        /\ table[h] = Own("control", d) => temp = h /\ dir = d /\ step \in Controlling
        /\ table[h] = Own("event", d) => event[d] = h
    /\ step = "dropFilter" => table[handle[dir]] \in {Free, Other}

\* The third layer: until a pin was rejected, nobody else's handle was closed
\* and what temp, event, filter and handle name is the thread's own and open.
Intact ==
    ~rejected =>
        /\ ~robbed
        /\ step \notin {"reject", "rejectHandle", "rejectFilter"}
        /\ step = "test" => table[temp] = Own("pin", dir)
        /\ step \in Controlling => table[temp] = Own("control", dir)
        /\ \A d \in Dir :
            /\ event[d] # Nil => table[event[d]] = Own("event", d)
            /\ filter[d] # Nil /\ ~(dir = d /\ step = "dropFilter" /\ filter[d] = handle[d]) =>
                   table[filter[d]] = Own("filter", d)
            /\ handle[d] \notin {Nil, filter[d]} /\ ~(dir = d /\ step = "dropFilter") =>
                   table[handle[d]] = Own("pin", d)

-----------------------------------------------------------------------------
(* What each side has                                                      *)

\* Nothing is there at first.
LEMMA InitPlace == Init => PlaceInv
BY DEF Init, PlaceInv, PhaseInv, SideInv, Whole, Unset, Dir, Searching, Starting, Dropping,
       Testing, Controlling, Ending

\* Where the thread goes when a side is done.
LEMMA SideDoneShape ==
    ASSUME phase \in {"opening", "serving", "closing"}, dir \in Dir, SideDone
    PROVE  /\ step' \in {"filter", "await", "drop", "loop", "done"}
           /\ step' = "filter" => phase = "opening" /\ dir = "capture" /\ dir' = "render"
           /\ ~(phase' = "opening" /\ dir' = "capture")
           /\ phase' = "closing" <=> phase = "closing"
           /\ phase' = "closing" => step' \in {"drop", "done"}
           /\ step' \in {"drop", "done"} => phase' = "closing"
           /\ step' = "done" => dir = "render"
           /\ step' = "loop" => dir' = "capture"
           /\ phase' = "closing" /\ dir' = "render" => dir = "capture"
<1>1. CASE dir = "capture"
  BY <1>1 DEF SideDone, First
<1>2. CASE dir = "render"
  BY <1>2 DEF SideDone
<1> QED
  BY <1>1, <1>2 DEF Dir

\* A side may be left with all or nothing, and with nothing when it closes.
LEMMA SideDonePlace ==
    ASSUME TypeInv, PlaceInv, SideDone, step # "done", temp' = Nil,
           \A d \in Dir : Whole(d)' \/ Unset(d)',
           \A d \in Dir : Unset(d) \/ (d = dir /\ phase = "closing") =>
               Unset(d)' \/ (d = dir /\ phase # "closing")
    PROVE  PlaceInv'
<1> USE DEF Dir, Searching, Starting, Dropping, Testing, Controlling, Ending
<1>1. phase \in {"opening", "serving", "closing"} /\ dir \in Dir
  BY DEF TypeInv, TypeOK
<1>2. /\ step' \in {"filter", "await", "drop", "loop", "done"}
      /\ step' = "filter" => phase = "opening" /\ dir = "capture" /\ dir' = "render"
      /\ ~(phase' = "opening" /\ dir' = "capture")
      /\ phase' = "closing" <=> phase = "closing"
      /\ phase' = "closing" => step' \in {"drop", "done"}
      /\ step' \in {"drop", "done"} => phase' = "closing"
      /\ step' = "done" => dir = "render"
      /\ step' = "loop" => dir' = "capture"
      /\ phase' = "closing" /\ dir' = "render" => dir = "capture"
  BY <1>1, SideDoneShape
<1>3. SideInv'
  <2>1. step' = "filter" => Unset(dir)'
    BY <1>2 DEF PlaceInv, PhaseInv, Unset
  <2>2. \A d \in Dir : (Whole(d) \/ Unset(d))'
    OBVIOUS
  <2>3. step' \notin Searching \cup Starting \cup Dropping \cup {"drain", "dropEvent"}
                    \cup Testing \cup Controlling
    BY <1>2
  <2> QED
    BY <2>1, <2>2, <2>3 DEF SideInv
<1>4. PhaseInv'
  <2>1. step' = "done" => Unset("capture")' /\ Unset("render")'
    BY <1>2 DEF PlaceInv, PhaseInv, Unset
  <2>2. phase' = "closing" /\ dir' = "render" => Unset("capture")'
    BY <1>2 DEF Unset
  <2> QED
    BY <1>2, <2>1, <2>2 DEF PhaseInv
<1> QED
  BY <1>3, <1>4 DEF PlaceInv

\* open_ks_pin, ks_transition_to_run and the states' new.
LEMMA OpenPlace ==
    ASSUME TypeInv, PlaceInv, Open
    PROVE  PlaceInv'
<1> USE KsAssumption DEF At, Go, stateVars, transitVars, kernelVars, TypeInv, TypeOK, Searching,
        Starting, Dropping, Testing, Controlling, Ending
<1>1. CASE OpenFilter
  <2>1. step = "filter" /\ UNCHANGED <<transitVars, live, handle, event>>
    BY <1>1 DEF OpenFilter
  <2>2. CASE SideDone /\ UNCHANGED <<filter, table>>
    <3>1. \A d \in Dir : Whole(d)' \/ Unset(d)'
      BY <2>1, <2>2 DEF PlaceInv, SideInv, Whole, Unset
    <3>2. \A d \in Dir : Unset(d) \/ d = dir => Unset(d)'
      BY <2>1, <2>2 DEF PlaceInv, SideInv, Unset
    <3>3. temp' = Nil
      BY <2>1, <2>2 DEF PlaceInv, SideInv
    <3> QED
      BY <2>1, <2>2, <3>1, <3>2, <3>3, SideDonePlace
  <2>3. CASE ~(SideDone /\ UNCHANGED <<filter, table>>)
    <3>1. PICK h \in Handles : filter' = [filter EXCEPT ![dir] = h] /\ Go("try")
      BY <1>1, <2>3 DEF OpenFilter
    <3> QED
      BY <2>1, <3>1 DEF PlaceInv, PhaseInv, SideInv, Whole, Unset
  <2> QED
    BY <2>2, <2>3
<1>2. CASE CreatePin
  BY <1>2 DEF CreatePin, PlaceInv, PhaseInv, SideInv, Whole, Unset
<1>3. CASE TestPin
  <2>1. CASE UNCHANGED <<handle, temp>>
    BY <1>3, <2>1 DEF TestPin, PlaceInv, PhaseInv, SideInv, Whole, Unset
  <2>2. CASE ~UNCHANGED <<handle, temp>>
    <3>1. /\ step = "test" /\ step' = "control" /\ UNCHANGED <<dir, phase, live, filter, event>>
          /\ handle' = [handle EXCEPT ![dir] = temp] /\ temp' = Nil /\ temp # Nil
      BY <1>3, <2>2 DEF TestPin, PlaceInv, SideInv
    <3> QED
      BY <3>1 DEF PlaceInv, PhaseInv, SideInv, Whole, Unset
  <2> QED
    BY <2>1, <2>2
<1>4. CASE RejectPin
  BY <1>4 DEF RejectPin, PlaceInv, PhaseInv, SideInv, Whole, Unset
<1>5. CASE RejectDropHandle
  BY <1>5 DEF RejectDropHandle, PlaceInv, PhaseInv, SideInv, Whole, Unset
<1>6. CASE RejectDropFilter
  BY <1>6 DEF RejectDropFilter, PlaceInv, PhaseInv, SideInv, Whole, Unset
<1>7. CASE Fallback
  BY <1>7 DEF Fallback, PlaceInv, PhaseInv, SideInv, Whole, Unset
<1>8. CASE MakeControl
  BY <1>8 DEF MakeControl, PlaceInv, PhaseInv, SideInv, Whole, Unset
<1>9. CASE Transit \/ Answer
  BY <1>9 DEF Transit, Answer, NextState, PlaceInv, PhaseInv, SideInv, Whole, Unset
<1>10. CASE DropControl
  BY <1>10 DEF DropControl, PlaceInv, PhaseInv, SideInv, Whole, Unset
<1>11. CASE MakeEvent
  <2>1. step = "event" /\ UNCHANGED <<transitVars, handle, filter>>
    BY <1>11 DEF MakeEvent
  <2>2. CASE Go("dropPin") /\ UNCHANGED <<live, event, table>>
    BY <2>1, <2>2 DEF PlaceInv, PhaseInv, SideInv, Whole, Unset
  <2>3. CASE ~(Go("dropPin") /\ UNCHANGED <<live, event, table>>)
    <3>1. PICK h \in Handles : /\ event' = [event EXCEPT ![dir] = h]
                              /\ live' = [live EXCEPT ![dir] = TRUE]
                              /\ \/ dir = "capture" /\ Go("submit")
                                 \/ dir = "render" /\ SideDone
      BY <1>11, <2>3 DEF MakeEvent
    <3>2. CASE Go("submit")
      BY <2>1, <3>1, <3>2 DEF PlaceInv, PhaseInv, SideInv, Whole, Unset
    <3>3. CASE SideDone
      <4>1. \A d \in Dir : Whole(d)' \/ Unset(d)'
        BY <2>1, <3>1 DEF PlaceInv, SideInv, Whole, Unset
      <4>2. \A d \in Dir : d # dir /\ Unset(d) => Unset(d)'
        BY <2>1, <3>1 DEF Unset
      <4>3. phase # "closing" /\ temp' = Nil
        BY <2>1 DEF PlaceInv, PhaseInv, SideInv
      <4> QED
        BY <2>1, <3>3, <4>1, <4>2, <4>3, SideDonePlace
    <3> QED
      BY <3>1, <3>2, <3>3
  <2> QED
    BY <2>2, <2>3
<1> QED
  BY <1>1, <1>2, <1>3, <1>4, <1>5, <1>6, <1>7, <1>8, <1>9, <1>10, <1>11 DEF Open

\* The thread leaves a side as it is.
LEMMA LeavePlace ==
    ASSUME TypeInv, PlaceInv, SideDone, UNCHANGED <<live, handle, filter, event, temp>>,
           step \in {"submit", "await", "drop"},
           phase = "closing" => ~live[dir]
    PROVE  PlaceInv'
<1> USE DEF Searching, Starting, Dropping, Testing, Controlling, Ending
<1>1. \A d \in Dir : (Whole(d) <=> Whole(d)') /\ (Unset(d) <=> Unset(d)')
  BY DEF Whole, Unset
<1>2. \A d \in Dir : Whole(d) \/ Unset(d)
  BY DEF PlaceInv, SideInv
<1>3. dir \in Dir
  BY DEF TypeInv, TypeOK
<1>4. \A d \in Dir : d = dir /\ phase = "closing" => Unset(d)'
  BY <1>1, <1>2, <1>3 DEF Whole
<1>5. temp' = Nil /\ step # "done"
  BY DEF PlaceInv, SideInv
<1> QED
  BY <1>1, <1>2, <1>4, <1>5, SideDonePlace

\* The loop changes no handle; it closes the capture side first.
LEMMA ServePlace ==
    ASSUME TypeInv, OwnInv, PlaceInv, Serve
    PROVE  PlaceInv'
<1> USE DEF At, Go, stateVars, transitVars, kernelVars, Searching, Starting, Dropping, Testing,
            Controlling, Ending
<1>1. UNCHANGED <<live, handle, filter, event, temp>>
  BY DEF Serve, Loop, SubmitRead, SubmitWrite, SkipSide, AwaitRead, AwaitWrite, UseBuffer
<1>2. step \in {"loop", "submit", "await", "use"}
  BY DEF Serve, Loop, SubmitRead, SubmitWrite, SkipSide, AwaitRead, AwaitWrite, UseBuffer
<1>3. phase # "closing"
  BY <1>2 DEF PlaceInv, PhaseInv
<1>4. CASE SideDone /\ step \in {"submit", "await"}
  BY <1>1, <1>3, <1>4, LeavePlace
<1>5. CASE ~(SideDone /\ step \in {"submit", "await"})
  <2>1. \/ step' \in {"use", "submit", "await"} /\ UNCHANGED <<dir, phase>>
        \/ step = "loop" /\ step' = "drop" /\ phase' = "closing" /\ UNCHANGED dir
    BY <1>5 DEF Serve, Loop, SubmitRead, SubmitWrite, SkipSide, AwaitRead, AwaitWrite, UseBuffer
  <2>2. \A d \in Dir : (Whole(d) <=> Whole(d)') /\ (Unset(d) <=> Unset(d)')
    BY <1>1 DEF Whole, Unset
  <2>3. CASE step' \in {"use", "submit", "await"} /\ UNCHANGED <<dir, phase>>
    BY <1>1, <1>2, <1>3, <2>2, <2>3 DEF PlaceInv, PhaseInv, SideInv, Dir
  <2>4. CASE step = "loop" /\ step' = "drop" /\ phase' = "closing" /\ UNCHANGED dir
    <3>1. dir = "capture"
      BY <2>4 DEF PlaceInv, PhaseInv
    <3> QED
      BY <1>1, <1>2, <2>2, <2>4, <3>1 DEF PlaceInv, PhaseInv, SideInv, Dir
  <2> QED
    BY <2>1, <2>3, <2>4
<1> QED
  BY <1>4, <1>5

\* The Drop of the two states.
LEMMA ClosePlace ==
    ASSUME TypeInv, PlaceInv, Close
    PROVE  PlaceInv'
<1> USE KsAssumption DEF At, Go, stateVars, transitVars, kernelVars, Searching, Starting,
        Dropping, Testing, Controlling, Ending
<1>1. CASE Drop
  <2>1. step = "drop" /\ UNCHANGED <<live, handle, filter, event, temp>>
    BY <1>1 DEF Drop
  <2>2. CASE ~live[dir]
    BY <1>1, <2>1, <2>2, LeavePlace DEF Drop
  <2>3. CASE live[dir]
    BY <1>1, <2>1, <2>3 DEF Drop, TypeInv, TypeOK, PlaceInv, PhaseInv, SideInv, Whole, Unset
  <2> QED
    BY <2>2, <2>3
<1>2. CASE Drain
  BY <1>2 DEF Drain, PlaceInv, PhaseInv, SideInv, Whole, Unset
<1>3. CASE DropEvent
  BY <1>3 DEF DropEvent, TypeInv, TypeOK, PlaceInv, PhaseInv, SideInv, Whole, Unset
<1>4. CASE DropPin
  BY <1>4 DEF DropPin, PlaceInv, PhaseInv, SideInv, Whole, Unset
<1>5. CASE DropFilter
  <2>1. /\ step = "dropFilter" /\ SideDone /\ UNCHANGED <<temp, event>>
        /\ live' = [live EXCEPT ![dir] = FALSE]
        /\ handle' = [handle EXCEPT ![dir] = Nil] /\ filter' = [filter EXCEPT ![dir] = Nil]
    BY <1>5 DEF DropFilter
  <2>2. \A d \in Dir : Whole(d)' \/ Unset(d)'
    BY <2>1 DEF TypeInv, TypeOK, PlaceInv, SideInv, Whole, Unset
  <2>3. \A d \in Dir : Unset(d) \/ d = dir => Unset(d)'
    BY <2>1 DEF TypeInv, TypeOK, PlaceInv, SideInv, Unset
  <2>4. temp' = Nil
    BY <2>1 DEF PlaceInv, SideInv
  <2> QED
    BY <2>1, <2>2, <2>3, <2>4, SideDonePlace
<1> QED
  BY <1>1, <1>2, <1>3, <1>4, <1>5 DEF Close

\* Nobody else touches the thread's variables.
LEMMA OutsidePlace ==
    ASSUME PlaceInv,
           \/ Stop \/ Obey \/ FallSilent
           \/ \E d \in Dir : Complete(d)
           \/ \E h \in Handles : OtherOpens(h) \/ OtherCloses(h)
           \/ UNCHANGED vars
    PROVE  PlaceInv'
<1>1. UNCHANGED <<step, dir, phase, live, handle, filter, event, temp>>
  BY DEF Stop, Obey, FallSilent, Complete, OtherOpens, OtherCloses, vars, threadVars, stateVars,
         transitVars
<1> QED
  BY <1>1 DEF PlaceInv, PhaseInv, SideInv, Whole, Unset

-----------------------------------------------------------------------------
(* Every object is accounted for                                           *)

\* The objects are told apart by their kind and their side.
LEMMA Distinct ==
    /\ \A k, k2 \in Kind, d, d2 \in Dir : Own(k, d) = Own(k2, d2) => k = k2 /\ d = d2
    /\ \A k \in Kind, d \in Dir : Own(k, d) \notin {Free, Other}
    /\ Free # Other
BY DEF Own, Free, Other, Kind

\* The table is free at first.
LEMMA InitAccounted == Init => Accounted
BY Distinct DEF Init, Accounted, Kind, Dir

\* Steps that leave handles and table alone.
LEMMA QuietAccounted ==
    ASSUME Accounted, UNCHANGED <<table, handle, filter, event>>,
           step \notin {"test", "reject"} \cup Controlling, step' # "dropFilter"
    PROVE  Accounted'
BY DEF Accounted

\* CloseHandle frees one value and makes no object.
LEMMA ClosedOne ==
    ASSUME TypeInv, NEW h \in Handles, CloseHandle(h)
    PROVE  /\ \A h2 \in Handles, k \in Kind, d \in Dir :
                  table'[h2] = Own(k, d) => table[h2] = Own(k, d) /\ h2 # h
           /\ table'[h] = Free
           /\ \A h2 \in Handles : h2 # h => table'[h2] = table[h2]
           /\ robbed' = (robbed \/ table[h] = Other)
BY Distinct DEF TypeInv, TypeOK, CloseHandle

\* What open_ks_pin makes goes into a variable at once.
LEMMA OpenAccounted ==
    ASSUME TypeInv, PlaceInv, Accounted, Open
    PROVE  Accounted'
<1> USE DEF At, Go, Searching, Starting, Dropping, Testing, Controlling, Ending, Kind
<1>0. /\ handle \in [Dir -> Handles \cup {Nil}] /\ filter \in [Dir -> Handles \cup {Nil}]
      /\ event \in [Dir -> Handles \cup {Nil}] /\ temp \in Handles \cup {Nil} /\ dir \in Dir
  BY DEF TypeInv, TypeOK
<1>1. CASE OpenFilter
  <2>1. step = "filter" /\ UNCHANGED <<temp, handle, event>>
    BY <1>1 DEF OpenFilter, transitVars
  <2>2. CASE SideDone /\ UNCHANGED <<filter, table>>
    <3>1. step' # "dropFilter"
      BY <2>2 DEF SideDone, First, TypeInv, TypeOK
    <3> QED
      BY <2>1, <2>2, <3>1, QuietAccounted
  <2>3. CASE ~(SideDone /\ UNCHANGED <<filter, table>>)
    <3>1. PICK h \in Handles : /\ table' = [table EXCEPT ![h] = Own("filter", dir)]
                              /\ filter' = [filter EXCEPT ![dir] = h] /\ Go("try")
      BY <1>1, <2>3 DEF OpenFilter
    <3>2. filter[dir] = Nil
      BY <2>1 DEF PlaceInv, SideInv, Unset
    <3>3. Nil \notin Handles
      BY KsAssumption
    <3>t. \A h2 \in Handles, k2 \in Kind, d2 \in Dir :
              table'[h2] = Own(k2, d2) =>
                  table[h2] = Own(k2, d2) \/ (h2 = h /\ k2 = "filter" /\ d2 = dir)
      BY <1>0, <3>1, Distinct DEF TypeInv, TypeOK
    <3>f. step' = "try" /\ filter' = [filter EXCEPT ![dir] = h] /\ UNCHANGED <<dir>>
      BY <3>1
    <3> QED
      BY <1>0, <2>1, <3>2, <3>3, <3>f, <3>t DEF Accounted
  <2> QED
    BY <2>2, <2>3
<1>2. CASE CreatePin
  <2>1. step = "try" /\ UNCHANGED <<dir, handle, filter, event>>
    BY <1>2 DEF CreatePin, stateVars
  <2>2. CASE Go("try") /\ UNCHANGED <<temp, table>>
    BY <2>1, <2>2, QuietAccounted
  <2>3. CASE ~(Go("try") /\ UNCHANGED <<temp, table>>)
    <3>1. PICK h \in Handles : table' = [table EXCEPT ![h] = Own("pin", dir)] /\ temp' = h
      BY <1>2, <2>3 DEF CreatePin
    <3>2. step' = "test"
      BY <1>2, <2>3 DEF CreatePin
    <3>t. \A h2 \in Handles, k2 \in Kind, d2 \in Dir :
              table'[h2] = Own(k2, d2) =>
                  table[h2] = Own(k2, d2) \/ (h2 = h /\ k2 = "pin" /\ d2 = dir)
      BY <1>0, <3>1, Distinct DEF TypeInv, TypeOK
    <3>f. temp' = h
      BY <3>1
    <3> QED
      BY <1>0, <2>1, <3>2, <3>f, <3>t DEF Accounted
  <2> QED
    BY <2>2, <2>3
<1>3. CASE TestPin
  <2>1. step = "test" /\ UNCHANGED <<dir, table, filter, event>>
    BY <1>3 DEF TestPin, kernelVars
  <2>2. CASE step' = "reject" /\ UNCHANGED <<handle, temp>>
    BY <2>1, <2>2 DEF Accounted
  <2>3. CASE ~(step' = "reject" /\ UNCHANGED <<handle, temp>>)
    <3>1. handle' = [handle EXCEPT ![dir] = temp] /\ step' = "control"
      BY <1>3, <2>3 DEF TestPin
    <3>2. handle[dir] = Nil
      BY <2>1 DEF PlaceInv, SideInv
    <3> QED
      BY <1>0, <2>1, <3>1, <3>2, KsAssumption DEF Accounted
  <2> QED
    BY <2>2, <2>3
<1>4. CASE RejectPin
  <2>1. step = "reject" /\ step' = "rejectHandle" /\ CloseHandle(temp)
        /\ UNCHANGED <<dir, temp, handle, filter, event>>
    BY <1>4 DEF RejectPin, transitVars, stateVars
  <2>2. temp \in Handles
    BY <1>0, <2>1 DEF PlaceInv, SideInv
  <2> QED
    BY <2>1, <2>2, ClosedOne DEF Accounted
<1>5. CASE RejectDropHandle
  <2>1. step = "rejectHandle" /\ step' = "rejectFilter" /\ CloseHandle(temp)
        /\ UNCHANGED <<dir, handle, filter, event>>
    BY <1>5 DEF RejectDropHandle, stateVars
  <2>2. temp \in Handles
    BY <1>0, <2>1 DEF PlaceInv, SideInv
  <2> QED
    BY <2>1, <2>2, ClosedOne DEF Accounted
<1>6. CASE RejectDropFilter
  <2>1. step = "rejectFilter" /\ step' = "try" /\ CloseHandle(filter[dir])
        /\ UNCHANGED <<dir, handle, filter, event>>
    BY <1>6 DEF RejectDropFilter, stateVars
  <2>2. filter[dir] \in Handles
    BY <1>0, <2>1 DEF PlaceInv, SideInv
  <2> QED
    BY <2>1, <2>2, ClosedOne DEF Accounted
<1>7. CASE Fallback
  <2>1. step = "try" /\ step' = "control" /\ handle' = [handle EXCEPT ![dir] = filter[dir]]
        /\ UNCHANGED <<dir, filter, event, table>>
    BY <1>7 DEF Fallback, kernelVars
  <2>2. handle[dir] = Nil
    BY <2>1 DEF PlaceInv, SideInv
  <2> QED
    BY <1>0, <2>1, <2>2, KsAssumption DEF Accounted
<1>8. CASE MakeControl
  <2>1. step = "control" /\ UNCHANGED <<dir, handle, filter, event>>
    BY <1>8 DEF MakeControl, stateVars
  <2>2. CASE Go("event") /\ UNCHANGED <<temp, state, table>>
    BY <2>1, <2>2, QuietAccounted
  <2>3. CASE ~(Go("event") /\ UNCHANGED <<temp, state, table>>)
    <3>1. PICK h \in Handles : /\ table' = [table EXCEPT ![h] = Own("control", dir)]
                              /\ temp' = h /\ step' = "transit"
      BY <1>8, <2>3 DEF MakeControl
    <3>t. \A h2 \in Handles, k2 \in Kind, d2 \in Dir :
              table'[h2] = Own(k2, d2) =>
                  table[h2] = Own(k2, d2) \/ (h2 = h /\ k2 = "control" /\ d2 = dir)
      BY <1>0, <3>1, Distinct DEF TypeInv, TypeOK
    <3>f. temp' = h /\ step' = "transit"
      BY <3>1
    <3> QED
      BY <1>0, <2>1, <3>f, <3>t DEF Accounted
  <2> QED
    BY <2>2, <2>3
<1>9. CASE Transit \/ Answer
  <2>1. step \in {"transit", "answer"} /\ step' \in Controlling
        /\ UNCHANGED <<dir, temp, handle, filter, event, table>>
    BY <1>9 DEF Transit, Answer, NextState, stateVars, kernelVars
  <2> QED
    BY <2>1 DEF Accounted
<1>10. CASE DropControl
  <2>1. step = "dropControl" /\ step' = "event" /\ CloseHandle(temp)
        /\ UNCHANGED <<dir, handle, filter, event>>
    BY <1>10 DEF DropControl, stateVars
  <2>2. temp \in Handles
    BY <1>0, <2>1 DEF PlaceInv, SideInv
  <2> QED
    BY <2>1, <2>2, ClosedOne DEF Accounted
<1>11. CASE MakeEvent
  <2>1. step = "event" /\ UNCHANGED <<handle, filter>>
    BY <1>11 DEF MakeEvent
  <2>2. CASE Go("dropPin") /\ UNCHANGED <<live, event, table>>
    BY <2>1, <2>2, QuietAccounted
  <2>3. CASE ~(Go("dropPin") /\ UNCHANGED <<live, event, table>>)
    <3>1. PICK h \in Handles : /\ table' = [table EXCEPT ![h] = Own("event", dir)]
                              /\ event' = [event EXCEPT ![dir] = h]
      BY <1>11, <2>3 DEF MakeEvent
    <3>2. step' # "dropFilter"
      BY <1>11, <2>3 DEF MakeEvent, SideDone, First, TypeInv, TypeOK
    <3>3. event[dir] = Nil
      BY <2>1 DEF PlaceInv, SideInv
    <3>t. \A h2 \in Handles, k2 \in Kind, d2 \in Dir :
              table'[h2] = Own(k2, d2) =>
                  table[h2] = Own(k2, d2) \/ (h2 = h /\ k2 = "event" /\ d2 = dir)
      BY <1>0, <3>1, Distinct DEF TypeInv, TypeOK
    <3>f. event' = [event EXCEPT ![dir] = h]
      BY <3>1
    <3> QED
      BY <1>0, <2>1, <3>2, <3>3, <3>f, <3>t, KsAssumption DEF Accounted
  <2> QED
    BY <2>2, <2>3
<1> QED
  BY <1>1, <1>2, <1>3, <1>4, <1>5, <1>6, <1>7, <1>8, <1>9, <1>10, <1>11 DEF Open

\* The loop makes and closes nothing.
LEMMA ServeAccounted ==
    ASSUME TypeInv, Accounted, Serve \/ Drop \/ Drain
    PROVE  Accounted'
<1>1. UNCHANGED <<table, handle, filter, event>>
  BY DEF Serve, Loop, SubmitRead, SubmitWrite, SkipSide, AwaitRead, AwaitWrite, UseBuffer, Drop,
         Drain, stateVars, kernelVars
<1>2. step \in {"loop", "submit", "await", "use", "drop", "drain"}
  BY DEF Serve, Loop, SubmitRead, SubmitWrite, SkipSide, AwaitRead, AwaitWrite, UseBuffer, Drop,
         Drain, At
<1>3. SideDone => step' # "dropFilter"
  BY DEF SideDone, First, TypeInv, TypeOK
<1>4. SideDone \/ step' # "dropFilter"
  BY DEF Serve, Loop, SubmitRead, SubmitWrite, SkipSide, AwaitRead, AwaitWrite, UseBuffer, Drop,
         Drain, Go
<1> QED
  BY <1>1, <1>2, <1>3, <1>4, QuietAccounted DEF Controlling

\* A variable is cleared when its object is closed; the fallback's pin is its
\* filter, so that closing the pin closes both.
LEMMA DropAccounted ==
    ASSUME TypeInv, PlaceInv, Accounted, DropEvent \/ DropPin \/ DropFilter
    PROVE  Accounted'
<1> USE DEF At, Go, Searching, Starting, Dropping, Testing, Controlling, Ending, Kind
<1>0. /\ handle \in [Dir -> Handles \cup {Nil}] /\ filter \in [Dir -> Handles \cup {Nil}]
      /\ event \in [Dir -> Handles \cup {Nil}] /\ dir \in Dir
  BY DEF TypeInv, TypeOK
<1>1. CASE DropEvent
  <2>1. step = "dropEvent" /\ step' = "dropPin" /\ CloseHandle(event[dir])
        /\ event' = [event EXCEPT ![dir] = Nil] /\ UNCHANGED <<dir, handle, filter>>
    BY <1>1 DEF DropEvent
  <2>2. event[dir] \in Handles
    BY <1>0, <2>1 DEF PlaceInv, SideInv, Whole
  <2> QED
    BY <1>0, <2>1, <2>2, ClosedOne DEF Accounted
<1>2. CASE DropPin
  <2>1. step = "dropPin" /\ step' = "dropFilter" /\ CloseHandle(handle[dir])
        /\ UNCHANGED <<dir, handle, filter, event>>
    BY <1>2 DEF DropPin, stateVars
  <2>2. handle[dir] \in Handles
    BY <1>0, <2>1 DEF PlaceInv, SideInv
  <2> QED
    BY <1>0, <2>1, <2>2, ClosedOne DEF Accounted
<1>3. CASE DropFilter
  <2>1. step = "dropFilter" /\ SideDone /\ UNCHANGED event
        /\ handle' = [handle EXCEPT ![dir] = Nil] /\ filter' = [filter EXCEPT ![dir] = Nil]
    BY <1>3 DEF DropFilter
  <2>2. handle[dir] \in Handles /\ filter[dir] \in Handles
    BY <1>0, <2>1 DEF PlaceInv, SideInv
  <2>3. table[handle[dir]] \in {Free, Other}
    BY <2>1 DEF Accounted
  <2>4. step' # "dropFilter"
    BY <2>1 DEF SideDone, First, TypeInv, TypeOK
  <2>5. \A h \in Handles, k \in Kind, d \in Dir :
            table'[h] = Own(k, d) => table[h] = Own(k, d) /\ h # filter[dir] /\ h # handle[dir]
    BY <1>3, <2>2, <2>3, ClosedOne, Distinct DEF DropFilter
  <2> QED
    BY <1>0, <2>1, <2>4, <2>5 DEF Accounted
<1> QED
  BY <1>1, <1>2, <1>3

\* Another thread opens and closes objects of its own.
LEMMA OutsideAccounted ==
    ASSUME TypeInv, PlaceInv, Accounted,
           \/ Stop \/ Obey \/ FallSilent
           \/ \E d \in Dir : Complete(d)
           \/ \E h \in Handles : OtherOpens(h) \/ OtherCloses(h)
           \/ UNCHANGED vars
    PROVE  Accounted'
<1>1. UNCHANGED <<step, dir, handle, filter, event, temp>>
  BY DEF Stop, Obey, FallSilent, Complete, OtherOpens, OtherCloses, vars, threadVars, stateVars,
         transitVars
<1>2. CASE UNCHANGED table
  BY <1>1, <1>2 DEF Accounted
<1>3. CASE \E h \in Handles : OtherOpens(h) \/ OtherCloses(h)
  <2>1. \A h2 \in Handles : table'[h2] = table[h2] \/ table'[h2] \in {Free, Other}
    BY <1>3 DEF OtherOpens, OtherCloses, TypeInv, TypeOK
  <2>2. step = "dropFilter" => handle[dir] \in Handles
    BY DEF PlaceInv, SideInv, Dropping, TypeInv, TypeOK
  <2> QED
    BY <1>1, <2>1, <2>2, Distinct DEF Accounted, Kind
<1> QED
  BY <1>2, <1>3 DEF Stop, Obey, FallSilent, Complete, vars, kernelVars

-----------------------------------------------------------------------------
(* What is named is open                                                   *)

\* Nothing is named at first.
LEMMA InitIntact == Init => Intact
BY DEF Init, Intact, Controlling, Dir

\* Steps that change no handle and close no object.
LEMMA QuietIntact ==
    ASSUME Intact, rejected' = rejected, robbed' = robbed, temp' = temp,
           UNCHANGED <<handle, filter, event>>,
           \A h \in Handles, k \in Kind, d \in Dir :
               table[h] = Own(k, d) => table'[h] = Own(k, d),
           \A d \in Dir : {handle[d], filter[d], event[d]} \subseteq Handles \cup {Nil},
           step # "dropFilter", step' \notin {"test", "dropFilter", "reject", "rejectHandle",
                                            "rejectFilter"} \cup Controlling
    PROVE  Intact'
<1> SUFFICES ASSUME ~rejected' PROVE Intact'
  BY DEF Intact
<1>1. ~robbed'
  BY DEF Intact
<1>2. \A d \in Dir : event'[d] # Nil => table'[event'[d]] = Own("event", d)
  BY DEF Intact, Kind
<1>3. \A d \in Dir : filter'[d] # Nil => table'[filter'[d]] = Own("filter", d)
  BY DEF Intact, Kind
<1>4. \A d \in Dir : handle'[d] \notin {Nil, filter'[d]} => table'[handle'[d]] = Own("pin", d)
  BY DEF Intact, Kind
<1> QED
  BY <1>1, <1>2, <1>3, <1>4 DEF Intact

\* What the variables can name.
LEMMA NamesTyped ==
    ASSUME TypeInv
    PROVE  /\ \A d \in Dir : {handle[d], filter[d], event[d]} \subseteq Handles \cup {Nil}
           /\ temp \in Handles \cup {Nil} /\ dir \in Dir
BY DEF TypeInv, TypeOK

\* Closing an object of the thread leaves every other one open.
LEMMA ClosedKeeps ==
    ASSUME TypeInv, NEW h \in Handles, NEW k \in Kind, NEW d \in Dir,
           table[h] = Own(k, d), CloseHandle(h)
    PROVE  /\ \A h2 \in Handles, k2 \in Kind, d2 \in Dir :
                  table[h2] = Own(k2, d2) /\ (k2 # k \/ d2 # d) => table'[h2] = Own(k2, d2)
           /\ robbed' = robbed
BY Distinct DEF TypeInv, TypeOK, CloseHandle

\* open_ks_pin takes free values only, and closes only what it rejected.
LEMMA OpenIntact ==
    ASSUME TypeInv, PlaceInv, Intact, Open
    PROVE  Intact'
<1> SUFFICES ASSUME ~rejected, rejected' = rejected PROVE Intact'
  BY DEF Open, OpenFilter, CreatePin, TestPin, RejectPin, RejectDropHandle, RejectDropFilter,
         Fallback, MakeControl, Transit, Answer, DropControl, MakeEvent, history, Intact, TypeInv,
         TypeOK
<1> USE DEF At, Go, Searching, Starting, Dropping, Testing, Controlling, Ending, Kind
<1>0. /\ handle \in [Dir -> Handles \cup {Nil}] /\ filter \in [Dir -> Handles \cup {Nil}]
      /\ event \in [Dir -> Handles \cup {Nil}] /\ temp \in Handles \cup {Nil} /\ dir \in Dir
      /\ table \in [Handles -> Objects] /\ Nil \notin Handles
  BY KsAssumption DEF TypeInv, TypeOK
<1>i. /\ ~robbed
      /\ step \notin {"reject", "rejectHandle", "rejectFilter"}
      /\ step = "test" => table[temp] = Own("pin", dir)
      /\ step \in Controlling => table[temp] = Own("control", dir)
      /\ step # "dropFilter" => \A d \in Dir :
            /\ event[d] # Nil => table[event[d]] = Own("event", d)
            /\ filter[d] # Nil => table[filter[d]] = Own("filter", d)
            /\ handle[d] \notin {Nil, filter[d]} => table[handle[d]] = Own("pin", d)
  BY DEF Intact
<1>1. CASE OpenFilter
  <2>1. step = "filter" /\ UNCHANGED <<temp, handle, event, robbed>>
    BY <1>1 DEF OpenFilter, transitVars, history
  <2>2. CASE SideDone /\ UNCHANGED <<filter, table>>
    <3>1. step' \in {"filter", "await", "drop", "loop", "done"}
      BY <2>2, SideDoneType
    <3> QED
      BY <1>0, <2>1, <2>2, <3>1, QuietIntact
  <2>3. CASE ~(SideDone /\ UNCHANGED <<filter, table>>)
    <3>1. PICK h \in Handles : /\ table[h] = Free
                              /\ table' = [table EXCEPT ![h] = Own("filter", dir)]
                              /\ filter' = [filter EXCEPT ![dir] = h]
                              /\ step' = "try" /\ UNCHANGED dir
      BY <1>1, <2>3 DEF OpenFilter
    <3>2. handle[dir] = Nil
      BY <2>1 DEF PlaceInv, SideInv, Unset
    <3>3. \A h2 \in Handles, k \in Kind, d \in Dir :
              table[h2] = Own(k, d) => table'[h2] = Own(k, d)
      BY <1>0, <3>1, Distinct
    <3>4. table'[h] = Own("filter", dir)
      BY <1>0, <3>1
    <3>5. \A d \in Dir : filter'[d] = IF d = dir THEN h ELSE filter[d]
      BY <1>0, <3>1
    <3> QED
      BY <1>0, <1>i, <2>1, <3>1, <3>2, <3>3, <3>4, <3>5 DEF Intact
  <2> QED
    BY <2>2, <2>3
<1>2. CASE CreatePin
  <2>1. step = "try" /\ UNCHANGED <<dir, handle, filter, event, robbed>>
    BY <1>2 DEF CreatePin, stateVars, history
  <2>2. CASE Go("try") /\ UNCHANGED <<temp, table>>
    BY <1>0, <2>1, <2>2, QuietIntact
  <2>3. CASE ~(Go("try") /\ UNCHANGED <<temp, table>>)
    <3>1. PICK h \in Handles : /\ table[h] = Free /\ temp' = h
                              /\ table' = [table EXCEPT ![h] = Own("pin", dir)]
      BY <1>2, <2>3 DEF CreatePin
    <3>2. step' = "test"
      BY <1>2, <2>3 DEF CreatePin
    <3>3. \A h2 \in Handles, k \in Kind, d \in Dir :
              table[h2] = Own(k, d) => table'[h2] = Own(k, d)
      BY <1>0, <3>1, Distinct
    <3>4. table'[temp'] = Own("pin", dir')
      BY <1>0, <2>1, <3>1
    <3> QED
      BY <1>0, <1>i, <2>1, <3>2, <3>3, <3>4 DEF Intact
  <2> QED
    BY <2>2, <2>3
<1>3. CASE TestPin
  <2>1. /\ step = "test" /\ step' = "control" /\ UNCHANGED <<dir, table, filter, event, robbed>>
        /\ handle' = [handle EXCEPT ![dir] = temp]
    BY <1>3, <1>i DEF TestPin, kernelVars, TypeInv, TypeOK
  <2>2. \A d \in Dir : handle'[d] = IF d = dir THEN temp ELSE handle[d]
    BY <1>0, <2>1
  <2> QED
    BY <1>0, <1>i, <2>1, <2>2 DEF Intact
<1>4. CASE RejectPin \/ RejectDropHandle \/ RejectDropFilter
  BY <1>4, <1>i DEF RejectPin, RejectDropHandle, RejectDropFilter
<1>5. CASE Fallback
  <2>1. /\ step = "try" /\ step' = "control" /\ handle' = [handle EXCEPT ![dir] = filter[dir]]
        /\ UNCHANGED <<dir, filter, event, table, robbed>>
    BY <1>5 DEF Fallback, kernelVars, history
  <2>2. \A d \in Dir : handle'[d] = IF d = dir THEN filter[d] ELSE handle[d]
    BY <1>0, <2>1
  <2> QED
    BY <1>0, <1>i, <2>1, <2>2 DEF Intact
<1>6. CASE MakeControl
  <2>1. step = "control" /\ UNCHANGED <<dir, handle, filter, event, robbed>>
    BY <1>6 DEF MakeControl, stateVars, history
  <2>2. CASE Go("event") /\ UNCHANGED <<temp, state, table>>
    BY <1>0, <2>1, <2>2, QuietIntact
  <2>3. CASE ~(Go("event") /\ UNCHANGED <<temp, state, table>>)
    <3>1. PICK h \in Handles : /\ table[h] = Free /\ temp' = h
                              /\ table' = [table EXCEPT ![h] = Own("control", dir)]
                              /\ step' = "transit"
      BY <1>6, <2>3 DEF MakeControl
    <3>2. \A h2 \in Handles, k \in Kind, d \in Dir :
              table[h2] = Own(k, d) => table'[h2] = Own(k, d)
      BY <1>0, <3>1, Distinct
    <3>3. table'[temp'] = Own("control", dir') /\ step' = "transit"
      BY <1>0, <2>1, <3>1
    <3> QED
      BY <1>0, <1>i, <2>1, <3>2, <3>3 DEF Intact
  <2> QED
    BY <2>2, <2>3
<1>7. CASE Transit \/ Answer
  <2>1. step \in {"transit", "answer"} /\ step' \in Controlling
        /\ UNCHANGED <<dir, temp, handle, filter, event, table, robbed>>
    BY <1>7 DEF Transit, Answer, NextState, stateVars, kernelVars, history
  <2> QED
    BY <1>i, <2>1 DEF Intact
<1>8. CASE DropControl
  <2>1. step = "dropControl" /\ step' = "event" /\ CloseHandle(temp)
        /\ UNCHANGED <<dir, handle, filter, event>>
    BY <1>8 DEF DropControl, stateVars
  <2>2. temp \in Handles
    BY <1>0, <2>1 DEF PlaceInv, SideInv
  <2>3. /\ \A h2 \in Handles, k \in Kind, d \in Dir :
              table[h2] = Own(k, d) /\ k # "control" => table'[h2] = Own(k, d)
        /\ robbed' = robbed
    BY <1>0, <1>i, <2>1, <2>2, ClosedKeeps
  <2> QED
    BY <1>0, <1>i, <2>1, <2>3 DEF Intact
<1>9. CASE MakeEvent
  <2>1. step = "event" /\ UNCHANGED <<handle, filter, temp, robbed>>
    BY <1>9 DEF MakeEvent, transitVars, history
  <2>2. CASE Go("dropPin") /\ UNCHANGED <<live, event, table>>
    BY <1>0, <2>1, <2>2, QuietIntact
  <2>3. CASE ~(Go("dropPin") /\ UNCHANGED <<live, event, table>>)
    <3>1. PICK h \in Handles : /\ table[h] = Free
                              /\ table' = [table EXCEPT ![h] = Own("event", dir)]
                              /\ event' = [event EXCEPT ![dir] = h]
      BY <1>9, <2>3 DEF MakeEvent
    <3>2. step' \in {"submit", "filter", "await", "drop", "loop", "done"}
      BY <1>9, <2>3, SideDoneType DEF MakeEvent
    <3>3. \A h2 \in Handles, k \in Kind, d \in Dir :
              table[h2] = Own(k, d) => table'[h2] = Own(k, d)
      BY <1>0, <3>1, Distinct
    <3>4. table'[h] = Own("event", dir)
      BY <1>0, <3>1
    <3>5. \A d \in Dir : event'[d] = IF d = dir THEN h ELSE event[d]
      BY <1>0, <3>1
    <3> QED
      BY <1>0, <1>i, <2>1, <3>2, <3>3, <3>4, <3>5 DEF Intact
  <2> QED
    BY <2>2, <2>3
<1> QED
  BY <1>1, <1>2, <1>3, <1>4, <1>5, <1>6, <1>7, <1>8, <1>9 DEF Open

\* Loop and Drop: each handle is closed once, and none that is named still.
LEMMA UseIntact ==
    ASSUME TypeInv, PlaceInv, Intact, Serve \/ Close
    PROVE  Intact'
<1> SUFFICES ASSUME ~rejected, rejected' = rejected PROVE Intact'
  BY DEF Serve, Loop, SubmitRead, SubmitWrite, SkipSide, AwaitRead, AwaitWrite, UseBuffer, Close,
         Drop, Drain, DropEvent, DropPin, DropFilter, history, Intact
<1> USE DEF At, Go, Searching, Starting, Dropping, Testing, Controlling, Ending, Kind
<1>0. /\ handle \in [Dir -> Handles \cup {Nil}] /\ filter \in [Dir -> Handles \cup {Nil}]
      /\ event \in [Dir -> Handles \cup {Nil}] /\ dir \in Dir
      /\ table \in [Handles -> Objects] /\ Nil \notin Handles
  BY KsAssumption DEF TypeInv, TypeOK
<1>i. /\ ~robbed
      /\ \A d \in Dir :
            /\ event[d] # Nil => table[event[d]] = Own("event", d)
            /\ filter[d] # Nil /\ ~(dir = d /\ step = "dropFilter" /\ filter[d] = handle[d]) =>
                   table[filter[d]] = Own("filter", d)
            /\ handle[d] \notin {Nil, filter[d]} /\ ~(dir = d /\ step = "dropFilter") =>
                   table[handle[d]] = Own("pin", d)
  BY DEF Intact
<1>1. CASE Serve \/ Drop \/ Drain
  <2>1. UNCHANGED <<table, robbed, temp, handle, filter, event>>
    BY <1>1 DEF Serve, Loop, SubmitRead, SubmitWrite, SkipSide, AwaitRead, AwaitWrite, UseBuffer,
           Drop, Drain, stateVars, kernelVars, transitVars, history
  <2>2. step # "dropFilter"
    BY <1>1 DEF Serve, Loop, SubmitRead, SubmitWrite, SkipSide, AwaitRead, AwaitWrite, UseBuffer,
           Drop, Drain
  <2>3. step' \in {"filter", "await", "drop", "loop", "done", "submit", "use", "drain",
                   "dropEvent"}
    BY <1>1, SideDoneType DEF Serve, Loop, SubmitRead, SubmitWrite, SkipSide, AwaitRead,
           AwaitWrite, UseBuffer, Drop, Drain
  <2> QED
    BY <2>1, <2>2, <2>3, NamesTyped, QuietIntact
<1>2. CASE DropEvent
  <2>1. step = "dropEvent" /\ step' = "dropPin" /\ CloseHandle(event[dir])
        /\ event' = [event EXCEPT ![dir] = Nil] /\ UNCHANGED <<dir, handle, filter>>
    BY <1>2 DEF DropEvent
  <2>2. event[dir] \in Handles
    BY <1>0, <2>1 DEF PlaceInv, SideInv, Whole
  <2>3. /\ \A h2 \in Handles, k \in Kind, d \in Dir :
              table[h2] = Own(k, d) /\ (k # "event" \/ d # dir) => table'[h2] = Own(k, d)
        /\ robbed' = robbed
    BY <1>0, <1>i, <2>1, <2>2, ClosedKeeps
  <2>4. \A d \in Dir : event'[d] = IF d = dir THEN Nil ELSE event[d]
    BY <1>0, <2>1
  <2> QED
    BY <1>0, <1>i, <2>1, <2>3, <2>4 DEF Intact
<1>3. CASE DropPin
  <2>1. step = "dropPin" /\ step' = "dropFilter" /\ CloseHandle(handle[dir])
        /\ UNCHANGED <<dir, handle, filter, event>>
    BY <1>3 DEF DropPin, stateVars
  <2>2. handle[dir] \in Handles /\ filter[dir] \in Handles
    BY <1>0, <2>1 DEF PlaceInv, SideInv
  <2>3. CASE handle[dir] = filter[dir]
    <3>1. /\ \A h2 \in Handles, k \in Kind, d \in Dir :
                table[h2] = Own(k, d) /\ (k # "filter" \/ d # dir) => table'[h2] = Own(k, d)
          /\ robbed' = robbed
      BY <1>0, <1>i, <2>1, <2>2, <2>3, ClosedKeeps
    <3> QED
      BY <1>0, <1>i, <2>1, <2>3, <3>1 DEF Intact
  <2>4. CASE handle[dir] # filter[dir]
    <3>1. /\ \A h2 \in Handles, k \in Kind, d \in Dir :
                table[h2] = Own(k, d) /\ (k # "pin" \/ d # dir) => table'[h2] = Own(k, d)
          /\ robbed' = robbed
      BY <1>0, <1>i, <2>1, <2>2, <2>4, ClosedKeeps
    <3> QED
      BY <1>0, <1>i, <2>1, <2>4, <3>1 DEF Intact
  <2> QED
    BY <2>3, <2>4
<1>4. CASE DropFilter
  <2>1. step = "dropFilter" /\ SideDone /\ UNCHANGED event
        /\ handle' = [handle EXCEPT ![dir] = Nil] /\ filter' = [filter EXCEPT ![dir] = Nil]
    BY <1>4 DEF DropFilter
  <2>2. step' \in {"filter", "await", "drop", "loop", "done"}
    BY <2>1, SideDoneType
  <2>3. filter[dir] \in Handles
    BY <1>0, <2>1 DEF PlaceInv, SideInv
  <2>4. /\ \A h2 \in Handles, k \in Kind, d \in Dir :
              table[h2] = Own(k, d) /\ (k # "filter" \/ d # dir) => table'[h2] = Own(k, d)
        /\ robbed' = robbed
    <3>1. CASE filter[dir] = handle[dir]
      BY <1>4, <3>1 DEF DropFilter
    <3>2. CASE filter[dir] # handle[dir]
      BY <1>0, <1>4, <1>i, <2>3, <3>2, ClosedKeeps DEF DropFilter
    <3> QED
      BY <3>1, <3>2
  <2>5. \A d \in Dir : /\ handle'[d] = IF d = dir THEN Nil ELSE handle[d]
                       /\ filter'[d] = IF d = dir THEN Nil ELSE filter[d]
    BY <1>0, <2>1
  <2> QED
    BY <1>0, <1>i, <2>1, <2>2, <2>4, <2>5 DEF Intact
<1> QED
  BY <1>1, <1>2, <1>3, <1>4 DEF Close

\* Another thread closes only what is its own.
LEMMA OutsideIntact ==
    ASSUME TypeInv, PlaceInv, Intact,
           \/ Stop \/ Obey \/ FallSilent
           \/ \E d \in Dir : Complete(d)
           \/ \E h \in Handles : OtherOpens(h) \/ OtherCloses(h)
           \/ UNCHANGED vars
    PROVE  Intact'
<1>1. UNCHANGED <<step, dir, handle, filter, event, temp, rejected, robbed>>
  BY DEF Stop, Obey, FallSilent, Complete, OtherOpens, OtherCloses, vars, threadVars, stateVars,
         transitVars, history
<1>2. CASE UNCHANGED table
  BY <1>1, <1>2 DEF Intact
<1>3. CASE \E h \in Handles : OtherOpens(h) \/ OtherCloses(h)
  <2>1. \A h2 \in Handles, k \in Kind, d \in Dir :
            table[h2] = Own(k, d) => table'[h2] = Own(k, d)
    BY <1>3, Distinct DEF OtherOpens, OtherCloses, TypeInv, TypeOK
  <2>2. step \in {"test"} \cup Controlling => temp \in Handles
    BY NamesTyped DEF PlaceInv, SideInv, Testing, Controlling
  <2>3. \A d \in Dir : /\ event[d] # Nil => event[d] \in Handles
                       /\ filter[d] # Nil => filter[d] \in Handles
                       /\ handle[d] # Nil => handle[d] \in Handles
    BY NamesTyped
  <2>4. CASE rejected
    BY <1>1, <2>4 DEF Intact
  <2>5. CASE ~rejected
    <3>1. \A d \in Dir : event[d] # Nil => table'[event[d]] = Own("event", d)
      BY <2>1, <2>3, <2>5 DEF Intact, Kind
    <3>2. \A d \in Dir :
              filter[d] # Nil /\ ~(dir = d /\ step = "dropFilter" /\ filter[d] = handle[d]) =>
                  table'[filter[d]] = Own("filter", d)
      BY <2>1, <2>3, <2>5 DEF Intact, Kind
    <3>3. \A d \in Dir :
              handle[d] \notin {Nil, filter[d]} /\ ~(dir = d /\ step = "dropFilter") =>
                  table'[handle[d]] = Own("pin", d)
      BY <2>1, <2>3, <2>5 DEF Intact, Kind
    <3>4. /\ ~robbed /\ step \notin {"reject", "rejectHandle", "rejectFilter"}
          /\ step = "test" => table'[temp] = Own("pin", dir)
          /\ step \in Controlling => table'[temp] = Own("control", dir)
      BY <2>1, <2>2, <2>5, NamesTyped DEF Intact, Kind, Controlling
    <3> QED
      BY <1>1, <3>1, <3>2, <3>3, <3>4 DEF Intact
  <2> QED
    BY <2>4, <2>5
<1> QED
  BY <1>2, <1>3 DEF Stop, Obey, FallSilent, Complete, vars, kernelVars

-----------------------------------------------------------------------------
(* The theorems                                                            *)

\* The three layers together.
HandleInv == PlaceInv /\ Accounted /\ Intact

\* They hold of every behaviour; the first needs to know that a loop that is
\* served has no stray request.
LEMMA HandlesHold == Spec => [](TypeInv /\ HandleInv)
<1>1. Init => HandleInv
  BY InitPlace, InitAccounted, InitIntact DEF HandleInv
<1>2. TypeInv /\ OwnInv /\ HandleInv /\ [Next]_vars => HandleInv'
  <2> SUFFICES ASSUME TypeInv, OwnInv, HandleInv, [Next]_vars PROVE HandleInv'
    OBVIOUS
  <2>1. PlaceInv'
    BY OpenPlace, ServePlace, ClosePlace, OutsidePlace DEF HandleInv, Next, Thread
  <2>2. Accounted'
    BY OpenAccounted, ServeAccounted, DropAccounted, OutsideAccounted
       DEF HandleInv, Next, Thread, Close
  <2>3. Intact'
    BY OpenIntact, UseIntact, OutsideIntact DEF HandleInv, Next, Thread
  <2> QED
    BY <2>1, <2>2, <2>3 DEF HandleInv
<1> QED
  BY <1>1, <1>2, TypesHold, OwnHolds, PTL DEF Spec

\* Whatever fails while pins are searched, tested and set to run, and however
\* often they are rejected, the thread ends with no handle of the two streams
\* open.
THEOREM NoLeak == Spec => []NothingLeaks
<1>1. TypeInv /\ HandleInv => NothingLeaks
  <2> SUFFICES ASSUME TypeInv, HandleInv, step = "done", NEW h \in Handles
               PROVE  table[h] \in {Free, Other}
    BY DEF NothingLeaks
  <2>1. \A d \in Dir : handle[d] = Nil /\ filter[d] = Nil /\ event[d] = Nil
    BY DEF HandleInv, PlaceInv, PhaseInv, Unset, Dir
  <2>2. \A d \in Dir : table[h] \notin {Own("filter", d), Own("pin", d), Own("control", d),
                                       Own("event", d)}
    BY <2>1, KsAssumption DEF HandleInv, Accounted, Controlling
  <2>3. table[h] \in Objects
    BY DEF TypeInv, TypeOK
  <2> QED
    BY <2>2, <2>3 DEF Objects
<1> QED
  BY <1>1, HandlesHold, PTL

\* Until a pin is rejected, a stream that is there has an open pin or the
\* fallback's filter, an open filter and an open event.
THEOREM OpenPins == Spec => []PinsAreOpen
<1>1. HandleInv => PinsAreOpen
  <2> SUFFICES ASSUME HandleInv, NEW d \in Dir, live[d], ~rejected,
                      ~(phase = "closing" /\ dir = d)
               PROVE  /\ table[handle[d]] \in {Own("pin", d), Own("filter", d)}
                      /\ table[filter[d]] = Own("filter", d)
                      /\ table[event[d]] = Own("event", d)
    BY DEF PinsAreOpen
  <2>1. handle[d] # Nil /\ filter[d] # Nil /\ event[d] # Nil /\ ~(dir = d /\ step = "dropFilter")
    BY DEF HandleInv, PlaceInv, SideInv, Whole, Unset, Searching, Starting, Dropping
  <2> QED
    BY <2>1 DEF HandleInv, Intact
<1> QED
  BY <1>1, HandlesHold, PTL

\* Until a pin is rejected, nothing is closed twice: no handle of another
\* thread is closed.
THEOREM OthersSpared == Spec => []OthersAreSpared
<1>1. HandleInv => OthersAreSpared
  BY DEF HandleInv, Intact, OthersAreSpared
<1> QED
  BY <1>1, HandlesHold, PTL

=============================================================================
