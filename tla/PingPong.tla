------------------------------ MODULE PingPong ------------------------------
(***************************************************************************)
(* What the double buffer of buffer_manager.rs promises (its header, lines *)
(* 3 to 17): the two halves change hands in turn.  The host fills one      *)
(* half; the device is offered that half once, before the host is handed   *)
(* the other one; and no half that still waits for the device goes back to *)
(* the host.  New buffers start over.                                      *)
(***************************************************************************)
EXTENDS Integers

VARIABLES
    turn, \* the half the host filled last
    owed  \* that half has not been offered to the device yet

ppVars == <<turn, owed>>

PPInit == turn = 0 /\ owed = FALSE

\* The device is offered the half; it may have room for all, part or none.
Offer == owed /\ owed' = FALSE /\ UNCHANGED turn

\* bufferSwitch: the host is handed the other half and fills it.
Hand == ~owed /\ owed' = TRUE /\ turn' = 1 - turn

\* createBuffers allocates a new BufferManager.
Allocate == turn' = 0 /\ owed' = FALSE

PPNext == Offer \/ Hand \/ Allocate

PPSpec == PPInit /\ [][PPNext]_ppVars

=============================================================================
