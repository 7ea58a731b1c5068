--------------------------- MODULE MCStreamSetup ---------------------------
(***************************************************************************)
(* Values of the constants of StreamSetup for TLC.                         *)
(***************************************************************************)
EXTENDS StreamSetup, SequencesExt

Plain == [active |-> TRUE, opens |-> TRUE, irig |-> FALSE, mic |-> FALSE,
          speaker |-> FALSE, wanted |-> {}]

IrigIn == [Plain EXCEPT !.irig = TRUE, !.mic = TRUE]
IrigOut == [Plain EXCEPT !.irig = TRUE, !.speaker = TRUE]
IrigById == [Plain EXCEPT !.irig = TRUE]
Speaker == [Plain EXCEPT !.speaker = TRUE]
WantedMic == [Plain EXCEPT !.mic = TRUE, !.wanted = {2}]
WantedOut == [Plain EXCEPT !.wanted = {1, 2}]
Off(e) == [e EXCEPT !.active = FALSE, !.opens = FALSE]
Dead(e) == [e EXCEPT !.opens = FALSE]

MCCaptureLists ==
    BoundedSeq({IrigIn, Off(IrigIn), Dead(IrigIn), Plain}, 3)

MCRenderLists ==
    BoundedSeq({IrigIn, IrigOut, IrigById, Off(IrigOut), Dead(IrigOut), Speaker, WantedMic,
                WantedOut}, 2)

MCFormats ==
    {[ext |-> TRUE, float |-> TRUE, bits |-> 32, channels |-> c] : c \in {2, 6}} \cup
    {[ext |-> x, float |-> FALSE, bits |-> b, channels |-> 2] :
        x \in BOOLEAN, b \in {16, 32}} \cup
    {[ext |-> FALSE, float |-> TRUE, bits |-> 32, channels |-> 1],
     [ext |-> TRUE, float |-> FALSE, bits |-> 24, channels |-> 2]}

MCSamples == {-32768, -32767, -16384, -1, 0, 1, 255, 16384, 32767}

=============================================================================
