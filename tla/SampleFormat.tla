---------------------------- MODULE SampleFormat -----------------------------
(***************************************************************************)
(* How wasapi_backend.rs reads and writes samples: what it takes a format  *)
(* for, how many bytes of a packet it touches, how it guesses the width of *)
(* a KS transfer, and what becomes of a 16-bit sample that a host hands    *)
(* from capture to render unchanged.                                       *)
(***************************************************************************)
EXTENDS Integers

\* A mix format: whether it is WAVEFORMATEXTENSIBLE, whether its samples are
\* IEEE floats, the bits of a sample and the channels of a frame.
Format == [ext : BOOLEAN, float : BOOLEAN, bits : {16, 24, 32}, channels : 1..8]

FrameBytes(f) == f.channels * (f.bits \div 8)

\* Mutant: any format of 32 bits is taken for floats.
IsFloat_Bits(f) == f.bits = 32 \/ f.float

\* is_float: the subformat decides, or else the bits and the tag.
IsFloat(f) == IF f.ext THEN f.float ELSE f.bits = 32 \/ f.float

\* The bytes of a sample in the branch that is taken, and its samples a frame.
SampleBytes(f) == IF ~IsFloat(f) /\ f.bits = 16 THEN 2 ELSE 4
SamplesPerFrame(f) == IF f.channels = 1 THEN 1 ELSE 2

\* The bytes the copying of one frame reads or writes.
TouchedBytes(f) == SamplesPerFrame(f) * SampleBytes(f)

\* The bytes of silence written for one frame before the stream starts.
PrefillBytes(f) == f.channels * (IF IsFloat(f) THEN 4 ELSE f.bits \div 8)

-----------------------------------------------------------------------------

\* The pins open_ks_pin asks for: the channels and the bytes of a frame.
PinFormat ==
    {[channels |-> 1, align |-> a] : a \in {2, 3, 4}} \cup
    {[channels |-> 2, align |-> a] : a \in {4, 6, 8}}

\* Mutant: any transfer of more than a byte a frame is divided.
KsSampleBytes_Off(data, bufFrames) ==
    IF data > bufFrames THEN data \div bufFrames ELSE 2

\* sample_bytes and frames of try_consume.
KsSampleBytes(data, bufFrames) ==
    IF data >= bufFrames * 3 THEN data \div bufFrames ELSE 2

KsFrames(data, bufFrames) ==
    LET n == data \div KsSampleBytes(data, bufFrames) IN
    IF n <= bufFrames THEN n ELSE bufFrames

-----------------------------------------------------------------------------

Sample16 == (-32768)..32767

\* `as i16` cuts towards zero.
Cut(a, b) == IF a >= 0 THEN a \div b ELSE -((-a) \div b)

\* Mutant: the samples are read as u16.
Echo_Unsigned(v) == IF v < 0 THEN 32767 ELSE Cut(v * 32767, 32768)

\* RECIP_I16 on the way in, clamp and SCALE_I16 on the way out.  The product
\* is exact enough in f32: it never rounds to the next whole number.
Echo(v) == Cut(v * 32767, 32768)

=============================================================================
