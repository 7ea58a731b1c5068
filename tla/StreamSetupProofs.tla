------------------------- MODULE StreamSetupProofs --------------------------
(***************************************************************************)
(* For any lists of endpoints, mix formats, block sizes and samples: what  *)
(* the stream captures from, which path each direction takes, and that the *)
(* conversions stay within their data.                                     *)
(***************************************************************************)
EXTENDS StreamSetup, TLAPS

-----------------------------------------------------------------------------
(***************************************************************************)
(* The algorithms.                                                         *)
(***************************************************************************)

\* The endpoint FindCapture chooses is an iRig, and an active one if the pass
\* over the active endpoints could read one.
LEMMA CaptureChoice ==
    ASSUME NEW l, NEW s, s.active \subseteq Active(l), NEW e \in FindCapture(l, s)
    PROVE  /\ e.irig
           /\ ~e.active => ~\E i \in s.active : l[i].irig
<1> DEFINE irig(C) == {i \in C : l[i].irig}
           sets == <<irig(s.active), irig(s.all)>>
<1>1. FindCapture(l, s) = Earliest(l, Preferred(sets))
  BY DEF FindCapture
<1>2. PICK i \in Preferred(sets) : e = l[i]
  BY <1>1 DEF Earliest
<1>3. PICK j \in DOMAIN sets : i \in sets[j] /\ \A k \in 1..j - 1 : sets[k] = {}
  BY <1>2 DEF Preferred
<1>4. DOMAIN sets = {1, 2} /\ sets[1] = irig(s.active) /\ sets[2] = irig(s.all)
  OBVIOUS
<1>5. CASE j = 1
  <2>1. i \in s.active /\ l[i].irig
    BY <1>3, <1>4, <1>5
  <2> QED
    BY <1>2, <2>1 DEF Active
<1>6. CASE j = 2
  <2>1. 1 \in 1..j - 1
    BY <1>6
  <2>2. irig(s.active) = {}
    BY <1>3, <1>4, <2>1
  <2> QED
    BY <1>2, <1>3, <1>4, <1>6, <2>2
<1> QED
  BY <1>3, <1>4, <1>5, <1>6

\* The first endpoint of some indices is one endpoint or none.
LEMMA EarliestIsOne ==
    ASSUME NEW l \in Seq(Endpoint), NEW C, C \subseteq DOMAIN l
    PROVE  Earliest(l, C) = {} \/ \E e \in Endpoint : Earliest(l, C) = {e}
<1> DEFINE first == {j \in C : \A k \in C : j <= k}
<1>1. Earliest(l, C) = {l[i] : i \in first}
  BY DEF Earliest
<1>2. CASE first = {}
  BY <1>1, <1>2
<1>3. CASE first # {}
  <2>1. PICK j \in first : TRUE
    BY <1>3
  <2>2. C \subseteq Nat /\ l[j] \in Endpoint
    BY <2>1
  <2>3. \A i \in first : i = j
    BY <2>1, <2>2
  <2>4. first = {j}
    BY <2>1, <2>3
  <2> QED
    BY <1>1, <2>2, <2>4
<1> QED
  BY <1>2, <1>3

\* The search that finds something goes through indices of the list.
LEMMA PreferredIn ==
    ASSUME NEW sets, NEW D, \A j \in DOMAIN sets : sets[j] \subseteq D
    PROVE  Preferred(sets) \subseteq D
BY DEF Preferred

\* What the configuration file asks for is one of the endpoints that its lines
\* name and that could be read.
LEMMA AskedIn ==
    ASSUME NEW l, NEW s \in Seen(l)
    PROVE  \A i \in AskedFor(l, s) : i \in DOMAIN l /\ l[i].wanted # {}
<1> DEFINE sets == [n \in 1..Lines |-> {i \in s.lines[n] : n \in l[i].wanted}]
<1> SUFFICES ASSUME NEW i \in AskedFor(l, s) PROVE i \in DOMAIN l /\ l[i].wanted # {}
  OBVIOUS
<1>1. PICK n \in 1..Lines : i \in sets[n]
  BY DEF AskedFor, Preferred
<1>2. i \in s.lines[n] /\ n \in l[i].wanted
  BY <1>1
<1>3. s.lines[n] \subseteq DOMAIN l
  BY <1>1 DEF Seen, Active
<1> QED
  BY <1>2, <1>3

\* Both searches find one endpoint of the list, or none.
LEMMA FoundIsOne ==
    ASSUME NEW l \in Seq(Endpoint), NEW s \in Seen(l), NEW d, d \subseteq DOMAIN l
    PROVE  \A found \in {FindCapture(l, s), FindRender(l, s, d), Earliest(l, d)} :
               found = {} \/ \E e \in Endpoint : found = {e}
<1>0. s.active \subseteq DOMAIN l /\ s.all \subseteq DOMAIN l /\ s.speakers \subseteq DOMAIN l
  BY DEF Seen, Active
<1>1. FindCapture(l, s) = {} \/ \E e \in Endpoint : FindCapture(l, s) = {e}
  <2> DEFINE irig(C) == {i \in C : l[i].irig}
             sets == <<irig(s.active), irig(s.all)>>
  <2>1. \A j \in DOMAIN sets : sets[j] \subseteq DOMAIN l
    BY <1>0
  <2>2. Preferred(sets) \subseteq DOMAIN l
    BY <2>1, PreferredIn
  <2>3. FindCapture(l, s) = Earliest(l, Preferred(sets))
    BY DEF FindCapture
  <2> QED
    BY <2>2, <2>3, EarliestIsOne
<1>2. FindRender(l, s, d) = {} \/ \E e \in Endpoint : FindRender(l, s, d) = {e}
  <2> DEFINE irig(C) == {i \in C : ~l[i].mic /\ l[i].irig}
             speakers == {i \in s.speakers : ~l[i].mic /\ (l[i].speaker \/ l[i].irig)}
             sets == <<AskedFor(l, s), irig(s.active), irig(s.all), speakers, d>>
  <2>1. \A j \in DOMAIN sets : sets[j] \subseteq DOMAIN l
    <3>1. AskedFor(l, s) \subseteq DOMAIN l
      BY AskedIn
    <3> QED
      BY <1>0, <3>1
  <2>2. Preferred(sets) \subseteq DOMAIN l
    BY <2>1, PreferredIn
  <2>3. FindRender(l, s, d) = Earliest(l, Preferred(sets))
    BY DEF FindRender
  <2> QED
    BY <2>2, <2>3, EarliestIsOne
<1> QED
  BY <1>1, <1>2, EarliestIsOne

\* The endpoint FindRender chooses is a microphone only where the user asks
\* for it or Windows has it as its default, and another device than the iRig
\* only where the user asks for it or no iRig output could be read.
LEMMA RenderChoice ==
    ASSUME NEW l \in Seq(Endpoint), NEW s \in Seen(l), NEW d, d \subseteq DOMAIN l,
           d = {} \/ \E i \in DOMAIN l : d = {i}, NEW e \in FindRender(l, s, d)
    PROVE  /\ e.mic => e.wanted # {} \/ Earliest(l, d) = {e}
           /\ ~e.irig => e.wanted # {} \/ ~\E i \in s.all : l[i].irig /\ ~l[i].mic
<1> DEFINE irig(C) == {i \in C : ~l[i].mic /\ l[i].irig}
           speakers == {i \in s.speakers : ~l[i].mic /\ (l[i].speaker \/ l[i].irig)}
           sets == <<AskedFor(l, s), irig(s.active), irig(s.all), speakers, d>>
<1>1. FindRender(l, s, d) = Earliest(l, Preferred(sets))
  BY DEF FindRender
<1>2. PICK i \in Preferred(sets) : e = l[i]
  BY <1>1 DEF Earliest
<1>3. PICK j \in DOMAIN sets : i \in sets[j] /\ \A k \in 1..j - 1 : sets[k] = {}
  BY <1>2 DEF Preferred
<1>4. /\ DOMAIN sets = 1..5
      /\ sets[1] = AskedFor(l, s)
      /\ sets[2] = irig(s.active)
      /\ sets[3] = irig(s.all)
      /\ sets[4] = speakers
      /\ sets[5] = d
  OBVIOUS
<1> HIDE DEF sets
<1>5. CASE j = 1
  BY <1>2, <1>3, <1>4, <1>5, AskedIn
<1>6. CASE j \in {2, 3}
  BY <1>2, <1>3, <1>4, <1>6
<1>7. j \in {4, 5} => ~\E n \in s.all : l[n].irig /\ ~l[n].mic
  <2>1. j \in {4, 5} => sets[3] = {}
    BY <1>3
  <2> QED
    BY <1>4, <2>1
<1>8. CASE j = 4
  BY <1>2, <1>3, <1>4, <1>7, <1>8
<1>9. CASE j = 5
  <2>1. d = {i} /\ i \in Nat
    BY <1>3, <1>4, <1>9
  <2>2. Earliest(l, d) = {e}
    BY <1>2, <2>1 DEF Earliest
  <2> QED
    BY <1>7, <1>9, <2>2
<1> QED
  BY <1>3, <1>4, <1>5, <1>6, <1>8, <1>9

\* Each branch of the conversions touches exactly the bytes of a frame of a
\* supported format.
LEMMA ExactFrames ==
    ASSUME NEW f \in Format, Supported(f)
    PROVE  IsFloat(f) = f.float /\ TouchedBytes(f) = FrameBytes(f)
<1> USE DEF Format, Supported
<1>1. /\ f.ext \in BOOLEAN /\ f.float \in BOOLEAN
      /\ f.bits \in {16, 32} /\ f.channels \in {1, 2}
  OBVIOUS
<1>2. IsFloat(f) = f.float
  BY <1>1 DEF IsFloat
<1>3. TouchedBytes(f) = FrameBytes(f)
  <2>1. CASE f.bits = 16
    <3>1. IsFloat(f) = FALSE
      BY <2>1, <1>1, <1>2
    <3>2. SampleBytes(f) = 2 /\ 16 \div 8 = 2
      BY <2>1, <3>1 DEF SampleBytes
    <3> QED
      BY <2>1, <3>2, <1>1 DEF TouchedBytes, FrameBytes, SamplesPerFrame
  <2>2. CASE f.bits = 32
    <3>1. SampleBytes(f) = 4 /\ 32 \div 8 = 4
      BY <2>2 DEF SampleBytes
    <3> QED
      BY <2>2, <3>1, <1>1 DEF TouchedBytes, FrameBytes, SamplesPerFrame
  <2> QED
    BY <1>1, <2>1, <2>2
<1> QED
  BY <1>2, <1>3

\* A block of silence is as long as the frames it stands for.
LEMMA ExactSilence ==
    ASSUME NEW f \in Format, f.float => f.bits = 32
    PROVE  PrefillBytes(f) = FrameBytes(f)
<1>1. /\ f.ext \in BOOLEAN /\ f.float \in BOOLEAN
      /\ f.bits \in {16, 24, 32} /\ f.channels \in Nat
  BY DEF Format
<1>2. IsFloat(f) => 32 \div 8 = 4 /\ f.bits = 32
  BY <1>1 DEF IsFloat
<1> QED
  BY <1>1, <1>2 DEF PrefillBytes, FrameBytes

\* The width guessed for a transfer is at least one byte, and that many bytes
\* for each of the frames are there.
LEMMA WidthFits ==
    ASSUME NEW data \in Nat \ {0}, NEW n \in Nat \ {0}
    PROVE  LET width == KsSampleBytes(data, n) IN
           /\ width \in Nat \ {0}
           /\ KsFrames(data, n) \in Nat
           /\ KsFrames(data, n) * width <= data
<1> DEFINE width == KsSampleBytes(data, n)
           whole == data \div width
<1>1. width \in Nat \ {0}
  <2>1. CASE data >= n * 3
    <3>1. width = data \div n
      BY <2>1 DEF KsSampleBytes
    <3>2. (data \div n) * n <= data /\ data < (data \div n) * n + n /\ data \div n \in Nat
      OBVIOUS
    <3>3. data \div n # 0
      BY <2>1, <3>2
    <3> QED
      BY <3>1, <3>2, <3>3
  <2>2. CASE ~(data >= n * 3)
    BY <2>2 DEF KsSampleBytes
  <2> QED
    BY <2>1, <2>2
<1> HIDE DEF width
<1>2. whole \in Nat /\ whole * width <= data
  BY <1>1
<1>3. KsFrames(data, n) \in Nat /\ KsFrames(data, n) <= whole
  <2>1. KsFrames(data, n) = IF whole <= n THEN whole ELSE n
    BY DEF KsFrames, width
  <2> QED
    BY <2>1, <1>2
<1>4. KsFrames(data, n) * width <= whole * width
  BY <1>1, <1>2, <1>3
<1>5. KsFrames(data, n) * width \in Nat /\ whole * width \in Nat
  BY <1>1, <1>2, <1>3
<1> QED
  BY <1>1, <1>2, <1>3, <1>4, <1>5 DEF width

\* A whole transfer of a mono pin tells the width of its samples, as does any
\* transfer of a 16-bit mono pin.
LEMMA WidthRight ==
    ASSUME NEW data \in Nat \ {0}, NEW n \in Nat \ {0}, NEW align \in {2, 3, 4},
           data <= n * align,
           align = 2 \/ data = n * align
    PROVE  KsSampleBytes(data, n) = align
<1>1. CASE align = 2
  <2>1. ~(data >= n * 3)
    BY <1>1
  <2> QED
    BY <1>1, <2>1 DEF KsSampleBytes
<1>2. CASE align # 2
  <2>1. data >= n * 3
    BY <1>2
  <2>2. data \div n = align
    <3>1. CASE align = 3
      <4>1. data = n * 3
        BY <3>1
      <4> QED
        BY <3>1, <4>1
    <3>2. CASE align = 4
      <4>1. data = n * 4
        BY <3>2
      <4> QED
        BY <3>2, <4>1
    <3> QED
      BY <1>2, <3>1, <3>2
  <2> QED
    BY <2>1, <2>2 DEF KsSampleBytes
<1> QED
  BY <1>1, <1>2

\* The way through the two conversions loses at most one step.
LEMMA EchoWithinOne ==
    ASSUME NEW v \in Sample16
    PROVE  LET w == Echo(v) IN
           IF v >= 0 THEN v - 1 <= w /\ w <= v /\ w >= 0 ELSE v <= w /\ w <= v + 1 /\ w <= 0
<1>1. v \in Int /\ (-32768) <= v /\ v <= 32767
  BY DEF Sample16
<1>2. CASE v >= 0
  <2>1. Echo(v) = (v * 32767) \div 32768
    BY <1>1, <1>2 DEF Echo, Cut
  <2>2. ((v * 32767) \div 32768) \in 0..v /\ v - 1 <= ((v * 32767) \div 32768)
    BY <1>1, <1>2
  <2> QED
    BY <1>1, <1>2, <2>1, <2>2
<1>3. CASE v < 0
  <2>1. ~(v * 32767 >= 0)
    BY <1>1, <1>3
  <2>2. Echo(v) = -((-(v * 32767)) \div 32768)
    BY <1>1, <2>1 DEF Echo, Cut
  <2>3. ((-(v * 32767)) \div 32768) \in 0..(-v) /\ (-v) - 1 <= ((-(v * 32767)) \div 32768)
    BY <1>1, <1>3
  <2> QED
    BY <1>1, <1>3, <2>2, <2>3
<1> QED
  BY <1>1, <1>2, <1>3

-----------------------------------------------------------------------------
(***************************************************************************)
(* The capture device.                                                     *)
(***************************************************************************)

\* A client comes from the device that was found, and that one is an iRig.
CaptureFound ==
    /\ \A e \in capDev : e.irig
    /\ pc \in {"begin", "capture", "captured", "render", "activate"} => cap = "none"
    /\ cap # "none" => capDev # {}
    /\ (pc = "captured" /\ \E e \in capDev : ~e.active) => ~\E i \in seen.active : list[i].irig

\* Whatever endpoints Windows lists and whichever of its calls fail, the stream
\* captures from an iRig, and from an inactive one only if it could read no
\* active one in the pass that asks for those (find_endpoint).
THEOREM CapturesTheIrig == Spec => []CaptureIsIrig
<1>1. Init => CaptureFound
  BY DEF Init, CaptureFound
<1>2. CaptureFound /\ [Next]_vars => CaptureFound'
  <2> SUFFICES ASSUME CaptureFound, [Next]_vars PROVE CaptureFound'
    OBVIOUS
  <2> USE DEF CaptureFound, Goto, clients, search
  <2>1. CASE FindCaptureDevice
    <3>1. PICK l \in CaptureLists : \E act \in SUBSET Active(l), any \in SUBSET DOMAIN l :
            /\ list' = l /\ seen' = [Blind EXCEPT !.active = act, !.all = any]
            /\ capDev' \in {FindCapture(l, seen'), {}}
      BY <2>1 DEF FindCaptureDevice
    <3>2. seen'.active \subseteq Active(list') /\ capDev' \subseteq FindCapture(list', seen')
      BY <3>1 DEF Blind
    <3>3. \A e \in capDev' : e.irig /\ (~e.active => ~\E i \in seen'.active : list'[i].irig)
      BY <3>2, CaptureChoice
    <3>4. pc = "capture" /\ pc' = "captured" /\ cap' = cap
      BY <2>1 DEF FindCaptureDevice
    <3> QED
      BY <3>3, <3>4
  <2>2. CASE ReadCaptureFormat
    BY <2>2 DEF ReadCaptureFormat, ReadFormat
  <2>3. CASE ReadRenderFormat
    BY <2>3 DEF ReadRenderFormat, ReadFormat
  <2>4. CASE GetServices
    BY <2>4 DEF GetServices, Started
  <2>5. CASE Begin \/ ReturnCapture \/ FindRenderDevice
    BY <2>5 DEF Begin, ReturnCapture, FindRenderDevice
  <2>6. CASE ActivateCapture \/ EndEarly \/ ActivateRender \/ CreateEvent
    BY <2>6 DEF ActivateCapture, EndEarly, ActivateRender, CreateEvent
  <2>7. CASE OpenKsCapture \/ OpenKsRender \/ KsTransfer \/ EchoSample \/ Teardown
    BY <2>7 DEF OpenKsCapture, OpenKsRender, KsTransfer, EchoSample, Teardown
  <2>8. CASE UNCHANGED vars
    BY <2>8 DEF vars
  <2> QED
    BY <2>1, <2>2, <2>3, <2>4, <2>5, <2>6, <2>7, <2>8 DEF Next
<1>3. CaptureFound => CaptureIsIrig
  BY DEF CaptureFound, CaptureIsIrig
<1> QED
  BY <1>1, <1>2, <1>3, PTL DEF Spec

-----------------------------------------------------------------------------
(***************************************************************************)
(* The types and the render device.                                        *)
(***************************************************************************)

\* One endpoint or none.
AtMostOne(dev) == dev = {} \/ \E e \in Endpoint : dev = {e}

\* What FindRenderDevice leaves behind.
LEMMA RenderFound ==
    ASSUME FindRenderDevice
    PROVE  \E l, s, d, c :
               /\ l \in RenderLists /\ l \in Seq(Endpoint) /\ s \in Seen(l)
               /\ d \subseteq DOMAIN l /\ (d = {} \/ \E i \in DOMAIN l : d = {i})
               /\ c \in {d, {}}
               /\ list' = l /\ seen' = s /\ default' = Earliest(l, d)
               /\ renDev' \in {{}, FindRender(l, s, c)}
<1>1. PICK l \in RenderLists :
        \E s \in Seen(l), d \in {{}} \cup {{i} : i \in Active(l)} :
          /\ list' = l /\ seen' = s /\ default' = Earliest(l, d)
          /\ renDev' \in {FindRender(l, s, d), FindRender(l, s, {}), {}}
  BY DEF FindRenderDevice
<1>2. PICK s \in Seen(l), d \in {{}} \cup {{i} : i \in Active(l)} :
          /\ list' = l /\ seen' = s /\ default' = Earliest(l, d)
          /\ renDev' \in {FindRender(l, s, d), FindRender(l, s, {}), {}}
  BY <1>1
<1>3. d \subseteq DOMAIN l /\ (d = {} \/ \E i \in DOMAIN l : d = {i})
  BY <1>2 DEF Active
<1>4. l \in Seq(Endpoint)
  BY SetupAssumption
<1>5. PICK c \in {d, {}} : renDev' \in {{}, FindRender(l, s, c)}
  BY <1>2
<1> QED
  BY <1>2, <1>3, <1>4, <1>5

\* Every endpoint a variable holds is one of the list it was taken from, and
\* every call leaves one of the states the rest of the set-up knows.
THEOREM TypeCorrect == Spec => []TypeOK
<1>0. Blind \in Seen(<<>>)
  BY DEF Blind, Seen, Active
<1>1. Init => TypeOK
  BY <1>0 DEF Init, TypeOK
<1>2. TypeOK /\ [Next]_vars => TypeOK'
  <2> SUFFICES ASSUME TypeOK, [Next]_vars PROVE TypeOK'
    OBVIOUS
  <2> USE DEF TypeOK, Goto, clients, search
  <2>1. CASE FindCaptureDevice
    <3>1. PICK l \in CaptureLists : \E act \in SUBSET Active(l), any \in SUBSET DOMAIN l :
            /\ list' = l /\ seen' = [Blind EXCEPT !.active = act, !.all = any]
            /\ capDev' \in {FindCapture(l, seen'), {}}
      BY <2>1 DEF FindCaptureDevice
    <3>2. seen' \in Seen(l)
      BY <3>1 DEF Blind, Seen
    <3>3. l \in Seq(Endpoint) /\ {} \subseteq DOMAIN l
      BY SetupAssumption
    <3>4. AtMostOne(capDev')
      BY <3>1, <3>2, <3>3, FoundIsOne DEF AtMostOne
    <3> QED
      BY <2>1, <3>1, <3>2, <3>4 DEF FindCaptureDevice, AtMostOne
  <2>2. CASE FindRenderDevice
    <3>1. PICK l, s, d, c :
            /\ l \in RenderLists /\ l \in Seq(Endpoint) /\ s \in Seen(l)
            /\ d \subseteq DOMAIN l /\ (d = {} \/ \E i \in DOMAIN l : d = {i})
            /\ c \in {d, {}}
            /\ list' = l /\ seen' = s /\ default' = Earliest(l, d)
            /\ renDev' \in {{}, FindRender(l, s, c)}
      BY <2>2, RenderFound
    <3>2. AtMostOne(default')
      BY <3>1, FoundIsOne DEF AtMostOne
    <3>3. AtMostOne(renDev')
      <4>1. c \subseteq DOMAIN l
        BY <3>1
      <4> QED
        BY <3>1, <4>1, FoundIsOne DEF AtMostOne
    <3> QED
      BY <2>2, <3>1, <3>2, <3>3 DEF FindRenderDevice, AtMostOne
  <2>3. CASE ReadCaptureFormat
    BY <2>3 DEF ReadCaptureFormat, ReadFormat
  <2>4. CASE ReadRenderFormat
    BY <2>4 DEF ReadRenderFormat, ReadFormat
  <2>5. CASE GetServices
    BY <2>5 DEF GetServices, Started
  <2>6. CASE Begin \/ EndEarly
    BY <2>6 DEF Begin, EndEarly
  <2>7. CASE ReturnCapture \/ ActivateCapture
    BY <1>0, <2>7 DEF ReturnCapture, ActivateCapture
  <2>8. CASE ActivateRender
    <3> DEFINE opens(dev) == {e \in dev : e.opens}
    <3>1. renUsed' \in {opens(renDev), opens(default), {}}
      BY <2>8 DEF ActivateRender
    <3>2. \A dev \in {renDev, default} : AtMostOne(opens(dev))
      BY DEF AtMostOne
    <3>3. AtMostOne(renUsed')
      BY <3>1, <3>2 DEF AtMostOne
    <3> QED
      BY <2>8, <3>3 DEF ActivateRender, AtMostOne
  <2>9. CASE CreateEvent \/ OpenKsCapture \/ OpenKsRender
    BY <2>9 DEF CreateEvent, OpenKsCapture, OpenKsRender
  <2>10. CASE KsTransfer \/ EchoSample \/ Teardown
    BY <2>10 DEF KsTransfer, EchoSample, Teardown
  <2>11. CASE UNCHANGED vars
    BY <2>11 DEF vars
  <2> QED
    BY <2>1, <2>2, <2>3, <2>4, <2>5, <2>6, <2>7, <2>8, <2>9, <2>10, <2>11 DEF Next
<1> QED
  BY <1>1, <1>2, PTL DEF Spec

\* What is found is held until it is activated: a microphone only if the user
\* or Windows says so.
RenderHeld ==
    /\ pc \in {"activate", "enumerator"} =>
           \A e \in renDev : e.mic => e.wanted # {} \/ default = {e}
    /\ RenderIsChosen

\* Whatever endpoints Windows lists, whatever its default is and whichever of
\* its calls fail, the stream renders to a microphone, or to another device
\* than an iRig output that could be read, only if somebody asked for it or
\* the device that was chosen does not activate (find_endpoint, 551 to 558).
THEOREM RendersWhereAsked == Spec => []RenderIsChosen
<1>1. Init => RenderHeld
  BY DEF Init, RenderHeld, RenderIsChosen
<1>2. TypeOK /\ RenderHeld /\ [Next]_vars => RenderHeld'
  <2> SUFFICES ASSUME TypeOK, RenderHeld, [Next]_vars PROVE RenderHeld'
    OBVIOUS
  <2> USE DEF RenderHeld, RenderIsChosen, Goto, clients, search
  <2>1. CASE FindRenderDevice
    <3>1. PICK l, s, d, c :
            /\ l \in RenderLists /\ l \in Seq(Endpoint) /\ s \in Seen(l)
            /\ d \subseteq DOMAIN l /\ (d = {} \/ \E i \in DOMAIN l : d = {i})
            /\ c \in {d, {}}
            /\ list' = l /\ seen' = s /\ default' = Earliest(l, d)
            /\ renDev' \in {{}, FindRender(l, s, c)}
      BY <2>1, RenderFound
    <3>2. c \subseteq DOMAIN l /\ (c = {} \/ \E i \in DOMAIN l : c = {i})
      BY <3>1
    <3>3. \A e \in renDev' :
            /\ e.mic => e.wanted # {} \/ Earliest(l, c) = {e}
            /\ ~e.irig => e.wanted # {} \/ ~\E i \in s.all : l[i].irig /\ ~l[i].mic
      BY <3>1, <3>2, RenderChoice
    <3>4. \A e : Earliest(l, c) = {e} => default' = {e}
      <4>1. CASE c = d
        BY <3>1, <4>1
      <4>2. CASE c = {}
        BY <4>2 DEF Earliest
      <4> QED
        BY <3>1, <4>1, <4>2
    <3> QED
      BY <2>1, <3>1, <3>3, <3>4 DEF FindRenderDevice
  <2>2. CASE ActivateRender
    <3> DEFINE opens(dev) == {e \in dev : e.opens}
    <3>1. /\ pc = "enumerator" /\ pc' = "event"
          /\ UNCHANGED <<renDev, default>>
          /\ \/ opens(renDev) # {} /\ renUsed' = opens(renDev)
             \/ opens(renDev) = {} /\ renUsed' \subseteq default
      BY <2>2 DEF ActivateRender
    <3>2. AtMostOne(renDev) /\ AtMostOne(default)
      BY DEF TypeOK, AtMostOne
    <3>3. CASE opens(renDev) # {} /\ renUsed' = opens(renDev)
      <4>1. \A e \in renUsed' : renDev = {e} /\ (e.mic => e.wanted # {} \/ default = {e})
        BY <3>1, <3>2, <3>3 DEF AtMostOne
      <4> QED
        BY <3>1, <4>1
    <3>4. CASE opens(renDev) = {} /\ renUsed' \subseteq default
      <4>1. \A e \in renUsed' : default = {e} /\ ~\E f \in renDev : f.opens
        BY <3>2, <3>4 DEF AtMostOne
      <4> QED
        BY <3>1, <4>1
    <3> QED
      BY <3>1, <3>3, <3>4
  <2>3. CASE Begin \/ FindCaptureDevice \/ ReturnCapture \/ ActivateCapture \/ EndEarly
    BY <2>3 DEF Begin, FindCaptureDevice, ReturnCapture, ActivateCapture, EndEarly
  <2>4. CASE CreateEvent \/ ReadCaptureFormat \/ ReadRenderFormat \/ GetServices
    BY <2>4 DEF CreateEvent, ReadCaptureFormat, ReadRenderFormat, ReadFormat, GetServices
  <2>5. CASE OpenKsCapture \/ OpenKsRender \/ Teardown
    BY <2>5 DEF OpenKsCapture, OpenKsRender, Teardown
  <2>6. CASE KsTransfer \/ EchoSample \/ UNCHANGED vars
    BY <2>6 DEF KsTransfer, EchoSample, vars
  <2> QED
    BY <2>1, <2>2, <2>3, <2>4, <2>5, <2>6 DEF Next
<1>3. RenderHeld => RenderIsChosen
  BY DEF RenderHeld
<1> QED
  BY <1>1, <1>2, <1>3, TypeCorrect, PTL DEF Spec

-----------------------------------------------------------------------------
(***************************************************************************)
(* Formats and paths.                                                      *)
(***************************************************************************)

\* A client that Initialize accepted has a format, and it is one of those
\* Windows mixes in.
FormatRead ==
    /\ capFormat \subseteq Formats /\ renFormat \subseteq Formats
    /\ cap \in {"ready", "service"} => capFormat # {}
    /\ ren \in {"ready", "service"} => renFormat # {}

LEMMA FormatIsRead == Spec => []FormatRead
<1>1. Init => FormatRead
  BY DEF Init, FormatRead
<1>2. FormatRead /\ [Next]_vars => FormatRead'
  <2> SUFFICES ASSUME FormatRead, [Next]_vars PROVE FormatRead'
    OBVIOUS
  <2> USE DEF FormatRead, Goto, clients, search
  <2>1. CASE ReadCaptureFormat
    BY <2>1 DEF ReadCaptureFormat, ReadFormat
  <2>2. CASE ReadRenderFormat
    BY <2>2 DEF ReadRenderFormat, ReadFormat
  <2>3. CASE GetServices
    BY <2>3 DEF GetServices, Started
  <2>4. CASE ActivateCapture \/ ActivateRender
    BY <2>4 DEF ActivateCapture, ActivateRender
  <2>5. CASE Begin \/ FindCaptureDevice \/ ReturnCapture \/ FindRenderDevice \/ EndEarly
    BY <2>5 DEF Begin, FindCaptureDevice, ReturnCapture, FindRenderDevice, EndEarly
  <2>6. CASE CreateEvent \/ OpenKsCapture \/ OpenKsRender
    BY <2>6 DEF CreateEvent, OpenKsCapture, OpenKsRender
  <2>7. CASE KsTransfer \/ EchoSample \/ Teardown
    BY <2>7 DEF KsTransfer, EchoSample, Teardown
  <2>8. CASE UNCHANGED vars
    BY <2>8 DEF vars
  <2> QED
    BY <2>1, <2>2, <2>3, <2>4, <2>5, <2>6, <2>7, <2>8 DEF Next
<1> QED
  BY <1>1, <1>2, PTL DEF Spec

\* No service converts with a format that was not read; every supported mix
\* format is read and written frame by frame, no byte skipped and none beyond
\* the packet; and the silence fills the buffer it is written to.
THEOREM DecodesExactly == Spec => []DecodedExactly
<1>1. FormatRead => DecodedExactly
  BY SetupAssumption, ExactFrames, ExactSilence DEF FormatRead, DecodedExactly
<1> QED
  BY <1>1, FormatIsRead, PTL

\* Until the pins are tried they are untried, and what is then tried follows
\* from the services alone.
PathInv ==
    /\ pc \in {"begin", "capture", "captured", "render", "activate", "enumerator", "event",
               "capFormat", "renFormat", "services", "ksCapture"} =>
           ksCap = "untried" /\ ksRen = "untried"
    /\ pc = "ksRender" => ksRen = "untried" /\ (cap = "service" <=> ksCap = "untried")
    /\ OnePath

\* In the loop every direction has one path, WASAPI or KS, and KS is tried
\* whenever the service is missing.
THEOREM OnePathEach == Spec => []OnePath
<1>1. Init => PathInv
  BY DEF Init, PathInv, OnePath
<1>2. PathInv /\ [Next]_vars => PathInv'
  <2> SUFFICES ASSUME PathInv, [Next]_vars PROVE PathInv'
    OBVIOUS
  <2> USE DEF PathInv, OnePath, Goto, clients, search
  <2>1. CASE OpenKsCapture
    BY <2>1 DEF OpenKsCapture
  <2>2. CASE OpenKsRender
    BY <2>2 DEF OpenKsRender
  <2>3. CASE ReadCaptureFormat \/ ReadRenderFormat \/ GetServices
    BY <2>3 DEF ReadCaptureFormat, ReadRenderFormat, ReadFormat, GetServices
  <2>4. CASE ActivateCapture \/ ActivateRender \/ CreateEvent
    BY <2>4 DEF ActivateCapture, ActivateRender, CreateEvent
  <2>5. CASE Begin \/ FindCaptureDevice \/ ReturnCapture \/ FindRenderDevice \/ EndEarly
    BY <2>5 DEF Begin, FindCaptureDevice, ReturnCapture, FindRenderDevice, EndEarly
  <2>6. CASE KsTransfer \/ EchoSample \/ Teardown
    BY <2>6 DEF KsTransfer, EchoSample, Teardown
  <2>7. CASE UNCHANGED vars
    BY <2>7 DEF vars
  <2> QED
    BY <2>1, <2>2, <2>3, <2>4, <2>5, <2>6, <2>7 DEF Next
<1>3. PathInv => OnePath
  BY DEF PathInv
<1> QED
  BY <1>1, <1>2, <1>3, PTL DEF Spec

-----------------------------------------------------------------------------
(***************************************************************************)
(* Conversions.                                                            *)
(***************************************************************************)

\* What is converted is a transfer a pin can make and a sample of 16 bits.
ConvertInv ==
    /\ convert.sample \in Sample16
    /\ convert.data > 0 =>
           /\ convert.data \in Nat /\ convert.bufFrames \in Nat \ {0}
           /\ convert.pin \in PinFormat
           /\ convert.data <= convert.bufFrames * convert.pin.align

LEMMA ConvertsPossible == Spec => []ConvertInv
<1>1. 0 \in Sample16 /\ Samples \subseteq Sample16
  <2>1. 0 \in Sample16
    BY DEF Sample16
  <2> QED
    BY <2>1, SetupAssumption
<1>2. Init => ConvertInv
  BY <1>1 DEF Init, ConvertInv, Nothing
<1>3. ConvertInv /\ [Next]_vars => ConvertInv'
  <2> SUFFICES ASSUME ConvertInv, [Next]_vars PROVE ConvertInv'
    OBVIOUS
  <2>1. CASE KsTransfer
    <3>1. PICK n \in BlockSizes, p \in PinFormat : \E d \in 1..n * p.align :
            convert' = [Nothing EXCEPT !.data = d, !.bufFrames = n, !.pin = p]
      BY <2>1 DEF KsTransfer
    <3>2. PICK d \in 1..n * p.align :
            convert' = [Nothing EXCEPT !.data = d, !.bufFrames = n, !.pin = p]
      BY <3>1
    <3>3. /\ convert'.data = d /\ convert'.bufFrames = n
          /\ convert'.pin = p /\ convert'.sample = 0
      BY <3>2 DEF Nothing
    <3>4. n \in Nat \ {0} /\ p.align \in Nat
      BY SetupAssumption DEF PinFormat
    <3> QED
      BY <3>3, <3>4, <1>1 DEF ConvertInv
  <2>2. CASE EchoSample
    <3>1. PICK v \in Samples : convert' = [Nothing EXCEPT !.sample = v]
      BY <2>2 DEF EchoSample
    <3>2. convert'.data = 0 /\ convert'.sample = v
      BY <3>1 DEF Nothing
    <3> QED
      BY <3>2, <1>1 DEF ConvertInv
  <2>3. CASE Teardown
    <3>1. convert'.data = 0 /\ convert'.sample = 0
      BY <2>3 DEF Teardown, Nothing
    <3> QED
      BY <3>1, <1>1 DEF ConvertInv
  <2>4. CASE UNCHANGED convert
    BY <2>4 DEF ConvertInv
  <2>5. CASE Begin \/ FindCaptureDevice \/ ReturnCapture \/ FindRenderDevice
          \/ ActivateCapture \/ EndEarly
    BY <2>4, <2>5 DEF Begin, FindCaptureDevice, ReturnCapture, FindRenderDevice,
                      ActivateCapture, EndEarly
  <2>6. CASE ActivateRender \/ CreateEvent \/ ReadCaptureFormat \/ ReadRenderFormat
    BY <2>4, <2>6 DEF ActivateRender, CreateEvent, ReadCaptureFormat, ReadRenderFormat
  <2>7. CASE GetServices \/ OpenKsCapture \/ OpenKsRender \/ UNCHANGED vars
    BY <2>4, <2>7 DEF GetServices, OpenKsCapture, OpenKsRender, vars
  <2> QED
    BY <2>1, <2>2, <2>3, <2>5, <2>6, <2>7 DEF Next
<1> QED
  BY <1>2, <1>3, PTL DEF Spec

\* For every block size and every amount a pin can write, try_consume stays
\* within the transfer; the width it takes the samples for is right for a
\* whole transfer of a mono pin and for any of a 16-bit one.
THEOREM WidthIsRight == Spec => []KsWidthRight
<1>1. ConvertInv => KsWidthRight
  <2> SUFFICES ASSUME ConvertInv, convert.data > 0 PROVE KsWidthRight
    BY DEF KsWidthRight
  <2> DEFINE data == convert.data
             n == convert.bufFrames
             width == KsSampleBytes(data, n)
             frames == KsFrames(data, n)
             used == IF width < 4 THEN width ELSE 4
  <2>1. data \in Nat \ {0} /\ n \in Nat \ {0} /\ convert.pin \in PinFormat
    BY DEF ConvertInv
  <2>2. width \in Nat \ {0} /\ frames \in Nat /\ frames * width <= data
    BY <2>1, WidthFits
  <2>3. data <= n * convert.pin.align
    BY DEF ConvertInv
  <2>4. convert.pin.channels = 1 => convert.pin.align \in {2, 3, 4}
    BY <2>1 DEF PinFormat
  <2>5. (convert.pin.channels = 1
            /\ (convert.pin.align = 2 \/ data = n * convert.pin.align)) =>
          width = convert.pin.align
    <3> HIDE DEF data, n
    <3> QED
      BY <2>1, <2>3, <2>4, WidthRight
  <2>6. frames * used <= data
    <3> HIDE DEF data, n, width, frames
    <3>1. used \in Nat /\ used <= width
      BY <2>2
    <3>2. frames * used <= frames * width
      <4> HIDE DEF used
      <4> QED
        BY <2>2, <3>1
    <3>3. frames * used \in Nat /\ frames * width \in Nat
      BY <2>2, <3>1
    <3> QED
      BY <2>1, <2>2, <3>2, <3>3
  <2> QED
    BY <2>5, <2>6 DEF KsWidthRight
<1> QED
  BY <1>1, ConvertsPossible, PTL

\* Every 16-bit sample that the host hands through comes out within one step.
THEOREM EchoesClosely == Spec => []EchoIsClose
<1>1. ConvertInv => EchoIsClose
  BY EchoWithinOne DEF ConvertInv, EchoIsClose
<1> QED
  BY <1>1, ConvertsPossible, PTL

=============================================================================
