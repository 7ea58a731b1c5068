----------------------------- MODULE StreamSetup -----------------------------
(***************************************************************************)
(* How the stream thread of wasapi_backend.rs sets itself up: it looks for *)
(* its endpoints, activates them, learns their formats, and falls back on  *)
(* kernel streaming where a WASAPI service is missing.  Any call may fail; *)
(* some failures end the thread, the rest select a lesser path.  The loop  *)
(* that follows is module WasapiLoop; here it converts samples only.       *)
(***************************************************************************)
EXTENDS EndpointSelect, SampleFormat

CONSTANTS
    CaptureLists, \* the lists of capture endpoints Windows can have
    RenderLists,  \* the same for rendering
    Formats,      \* the mix formats endpoints can have
    BlockSizes,   \* the values of buffer_frames
    Samples       \* the 16-bit samples a device can deliver

ASSUME SetupAssumption ==
    /\ CaptureLists \subseteq Seq(Endpoint)
    /\ RenderLists \subseteq Seq(Endpoint)
    /\ Formats \subseteq Format
    /\ BlockSizes \subseteq Nat \ {0}
    /\ Samples \subseteq Sample16

VARIABLES
    pc,        \* where the thread is
    list,      \* the endpoints Windows lists while find_endpoint searches
    seen,      \* those each of its passes could read
    capDev,    \* capture_device, if any (a set of at most one endpoint)
    renDev,    \* render_device, if any
    default,   \* the endpoint Windows has as its default for rendering, if any
    renUsed,   \* the endpoint render_client belongs to, if any
    cap,       \* capture_client: "none", "client", "ready" or, with its service, "service"
    ren,       \* the same for render_client
    capFormat, \* the mix format of the capture client, once it is read
    renFormat, \* the same for rendering
    ksCap,     \* KsCaptureState: "untried", "failed", "open"
    ksRen,     \* KsRenderState: the same
    kept,      \* what the thread holds until it ends: "timer", "mmcss", "event"
    convert    \* what the loop converts: one KS transfer or one sample

search == <<list, seen, capDev, renDev, default>>
clients == <<cap, ren, renUsed, capFormat, renFormat>>
vars == <<pc, search, clients, ksCap, ksRen, kept, convert>>

Nothing == [data |-> 0, bufFrames |-> 1, pin |-> [channels |-> 1, align |-> 2], sample |-> 0]

Init ==
    /\ pc = "begin"
    /\ list = <<>> /\ seen = Blind /\ capDev = {} /\ renDev = {} /\ default = {}
    /\ cap = "none" /\ ren = "none" /\ renUsed = {} /\ capFormat = {} /\ renFormat = {}
    /\ ksCap = "untried" /\ ksRen = "untried" /\ kept = {} /\ convert = Nothing

Goto(from, to) == pc = from /\ pc' = to

-----------------------------------------------------------------------------

\* MMCSS may refuse; the timer period is always raised.
Begin ==
    /\ Goto("begin", "capture")
    /\ kept' \in {{"timer"}, {"timer", "mmcss"}}
    /\ UNCHANGED <<search, clients, ksCap, ksRen, convert>>

\* find_endpoint(eCapture).ok(): the enumerator may not be had at all.
FindCaptureDevice ==
    /\ Goto("capture", "captured")
    /\ \E l \in CaptureLists : \E act \in SUBSET Active(l), any \in SUBSET DOMAIN l :
        /\ list' = l
        /\ seen' = [Blind EXCEPT !.active = act, !.all = any]
        /\ capDev' \in {FindCapture(l, seen'), {}}
    /\ UNCHANGED <<renDev, default, clients, ksCap, ksRen, kept, convert>>

\* find_endpoint returns, and its collections are released.
ReturnCapture ==
    /\ Goto("captured", "render")
    /\ list' = <<>> /\ seen' = Blind
    /\ UNCHANGED <<capDev, renDev, default, clients, ksCap, ksRen, kept, convert>>

\* find_endpoint(eRender).ok(): the default endpoint may not be had, either.
FindRenderDevice ==
    /\ Goto("render", "activate")
    /\ \E l \in RenderLists : \E s \in Seen(l), d \in {{}} \cup {{i} : i \in Active(l)} :
        /\ list' = l /\ seen' = s
        /\ default' = Earliest(l, d)
        /\ renDev' \in {FindRender(l, s, d), FindRender(l, s, {}), {}}
    /\ UNCHANGED <<capDev, clients, ksCap, ksRen, kept, convert>>

\* The second search has returned, too, and the capture device is activated.
ActivateCapture ==
    /\ Goto("activate", "enumerator")
    /\ list' = <<>> /\ seen' = Blind
    /\ cap' = IF \E e \in capDev : e.opens THEN "client" ELSE "none"
    /\ UNCHANGED <<capDev, renDev, default, ren, renUsed, capFormat, renFormat, ksCap, ksRen,
                   kept, convert>>

\* A `?` ends the thread as it is: nobody gives back what it holds.
EndEarly ==
    /\ pc \in {"enumerator", "event"} /\ pc' = "aborted"
    /\ cap' = "none" /\ ren' = "none" /\ renUsed' = {}
    /\ UNCHANGED <<search, capFormat, renFormat, ksCap, ksRen, kept, convert>>

\* The chosen render device or, if that does not activate, the default one,
\* which Windows may not give.
ActivateRender ==
    LET opens(dev) == {e \in dev : e.opens} IN
    /\ Goto("enumerator", "event")
    /\ IF opens(renDev) # {} THEN renUsed' = opens(renDev)
                             ELSE renUsed' \in {opens(default), {}}
    /\ ren' = IF renUsed' = {} THEN "none" ELSE "client"
    /\ UNCHANGED <<search, cap, capFormat, renFormat, ksCap, ksRen, kept, convert>>

\* Which device the render client belongs to is not looked at again.
CreateEvent ==
    /\ Goto("event", "capFormat")
    /\ kept' = kept \cup {"event"}
    /\ renDev' = {} /\ default' = {} /\ renUsed' = {}
    /\ UNCHANGED <<list, seen, capDev, cap, ren, capFormat, renFormat, ksCap, ksRen, convert>>

\* GetMixFormat, Initialize and SetEventHandle: without a format nothing is
\* initialised, and Initialize may fail.
ReadFormat(from, to, client, format) ==
    /\ Goto(from, to)
    /\ \/ client = "none" /\ UNCHANGED <<client, format>>
       \/ client = "client" /\ UNCHANGED <<client, format>>
       \/ /\ client = "client" /\ client' \in {"client", "ready"}
          /\ \E f \in Formats : format' = {f}

ReadCaptureFormat ==
    /\ ReadFormat("capFormat", "renFormat", cap, capFormat)
    /\ UNCHANGED <<search, ren, renUsed, renFormat, ksCap, ksRen, kept, convert>>

ReadRenderFormat ==
    /\ ReadFormat("renFormat", "services", ren, renFormat)
    /\ UNCHANGED <<search, cap, renUsed, capFormat, ksCap, ksRen, kept, convert>>

\* Start and GetService; Windows gives the service of an initialised client only.
Started(client) == IF client = "ready" THEN {"ready", "service"} ELSE {client}

GetServices ==
    /\ Goto("services", "ksCapture")
    /\ cap' \in Started(cap) /\ ren' \in Started(ren)
    /\ UNCHANGED <<search, renUsed, capFormat, renFormat, ksCap, ksRen, kept, convert>>

\* Without a path, a pin or an event there is no KS state.
OpenKsCapture ==
    /\ Goto("ksCapture", "ksRender")
    /\ ksCap' \in IF cap # "service" THEN {"open", "failed"} ELSE {ksCap}
    /\ UNCHANGED <<search, clients, ksRen, kept, convert>>

OpenKsRender ==
    /\ Goto("ksRender", "loop")
    /\ ksRen' \in IF ren # "service" THEN {"open", "failed"} ELSE {ksRen}
    /\ UNCHANGED <<search, clients, ksCap, kept, convert>>

-----------------------------------------------------------------------------

\* The pin wrote some of the buffer it was given, at most all of it.  One
\* conversion keeps nothing for the next, so one of them is enough.
KsTransfer ==
    /\ pc = "loop" /\ ksCap = "open" /\ convert = Nothing
    /\ \E n \in BlockSizes, p \in PinFormat : \E d \in 1..n * p.align :
        convert' = [Nothing EXCEPT !.data = d, !.bufFrames = n, !.pin = p]
    /\ UNCHANGED <<pc, search, clients, ksCap, ksRen, kept>>

\* A sample goes from 16-bit capture through the host to 16-bit render.
EchoSample ==
    /\ pc = "loop" /\ ksCap = "open" /\ ksRen = "open" /\ convert = Nothing
    /\ \E v \in Samples : convert' = [Nothing EXCEPT !.sample = v]
    /\ UNCHANGED <<pc, search, clients, ksCap, ksRen, kept>>

\* The loop ended: everything is given back.
Teardown ==
    /\ Goto("loop", "ended")
    /\ cap' = "none" /\ ren' = "none" /\ ksCap' = "untried" /\ ksRen' = "untried"
    /\ kept' = {} /\ convert' = Nothing
    /\ UNCHANGED <<search, renUsed, capFormat, renFormat>>

Next ==
    \/ Begin
    \/ FindCaptureDevice
    \/ ReturnCapture
    \/ FindRenderDevice
    \/ ActivateCapture
    \/ EndEarly
    \/ ActivateRender
    \/ CreateEvent
    \/ ReadCaptureFormat
    \/ ReadRenderFormat
    \/ GetServices
    \/ OpenKsCapture
    \/ OpenKsRender
    \/ KsTransfer
    \/ EchoSample
    \/ Teardown

Spec == Init /\ [][Next]_vars

-----------------------------------------------------------------------------

\* The variables have the values the rest of the module expects: a search
\* finds at most one endpoint.
TypeOK ==
    /\ pc \in {"begin", "capture", "captured", "render", "activate", "enumerator", "event",
              "capFormat", "renFormat", "services", "ksCapture", "ksRender", "loop", "ended",
              "aborted"}
    /\ list \in CaptureLists \cup RenderLists \cup {<<>>} /\ seen \in Seen(list)
    /\ \A dev \in {capDev, renDev, default, renUsed} :
           dev = {} \/ \E e \in Endpoint : dev = {e}
    /\ {cap, ren} \subseteq {"none", "client", "ready", "service"}
    /\ \A format \in {capFormat, renFormat} : format = {} \/ \E f \in Formats : format = {f}
    /\ {ksCap, ksRen} \subseteq {"untried", "failed", "open"}
    /\ kept \subseteq {"timer", "mmcss", "event"}

\* The guitar is on the iRig: whatever Windows lists and whichever of its calls
\* fail, the thread never captures from another device, not even from the one
\* the user configured, which lines 3 to 5 promise and line 372 takes back.
\* It takes an inactive iRig only when it could read no active one in the pass
\* that asks for those (find_endpoint, 406 to 477).
CaptureIsIrig ==
    /\ cap # "none" => \E e \in capDev : e.irig
    /\ (pc = "captured" /\ \E e \in capDev : ~e.active) =>
           ~\E i \in seen.active : list[i].irig

\* The search takes something else than the iRig only if the user prefers that
\* or it could read no iRig output in any state (find_endpoint, 366 to 508).
\* The thread then renders to a microphone only if the user or Windows says so,
\* and to something else than the device it chose only if that one does not
\* activate and the other is the default (551 to 558).
RenderIsChosen ==
    /\ pc = "activate" => \A e \in renDev :
           ~e.irig => e.wanted # {} \/ ~\E i \in seen.all : list[i].irig /\ ~list[i].mic
    /\ pc = "event" => \A e \in renUsed :
           /\ e.mic => e.wanted # {} \/ default = {e}
           /\ renDev # {e} => default = {e} /\ ~\E c \in renDev : c.opens

\* In the loop each direction has one path: the WASAPI service or else, even
\* when only its service failed to come, the KS pin that was tried.
OnePath ==
    pc = "loop" => /\ cap = "service" <=> ksCap = "untried"
                   /\ ren = "service" <=> ksRen = "untried"

\* The formats the conversions are written for: up to two channels, no
\* packed 24 bits, and plain 32-bit samples are floats.
Supported(f) ==
    /\ f.channels <= 2 /\ f.bits # 24
    /\ f.float => f.bits = 32
    /\ ~f.ext /\ f.bits = 32 => f.float

\* A service converts with a format that was read, never with the 32-bit
\* stereo the variables start as; a supported one is taken for what it is, and
\* the copying of a frame touches all of its bytes and none beyond, so that the
\* frames that are taken of a packet, the first buffer_frames of them (677), are
\* copied as they are; and the silence before the stream starts fills the
\* render buffer without running past it (cap_bits, ren_bits and the branches
\* on them).
DecodedExactly ==
    /\ cap = "service" => capFormat # {}
    /\ ren = "service" => renFormat # {}
    /\ pc = "loop" => \A f \in capFormat \cup renFormat :
           Supported(f) => IsFloat(f) = f.float /\ TouchedBytes(f) = FrameBytes(f)
    /\ pc = "loop" => \A f \in renFormat :
           (f.float => f.bits = 32) => PrefillBytes(f) = FrameBytes(f)

\* try_consume never reads past what the pin wrote, and guesses the width of
\* a mono pin's samples right when the transfer is whole or the pin is the
\* 16-bit one.
KsWidthRight ==
    convert.data > 0 =>
        LET width == KsSampleBytes(convert.data, convert.bufFrames)
            read == KsFrames(convert.data, convert.bufFrames)
                        * (IF width < 4 THEN width ELSE 4) IN
        /\ read <= convert.data
        /\ (convert.pin.channels = 1 /\ (convert.pin.align = 2
                \/ convert.data = convert.bufFrames * convert.pin.align)) =>
              width = convert.pin.align

\* A sample that the host hands through comes out at most one step off, and
\* never louder or with its sign turned (RECIP_I16, SCALE_I16).
EchoIsClose ==
    LET v == convert.sample
        w == Echo(v) IN
    IF v >= 0 THEN v - 1 <= w /\ w <= v /\ w >= 0 ELSE v <= w /\ w <= v + 1 /\ w <= 0

=============================================================================
