--------------------------- MODULE EndpointSelect ----------------------------
(***************************************************************************)
(* find_endpoint of wasapi_backend.rs: which of the endpoints Windows      *)
(* lists the stream captures from and renders to.  It goes through the     *)
(* endpoints in several passes, each with a collection of its own, and     *)
(* passes over what it cannot have or read.  What the names and ids of an  *)
(* endpoint say is in its record; a name that cannot be read says nothing. *)
(* "No endpoint" is the empty set.                                         *)
(***************************************************************************)
EXTENDS Naturals, Sequences

CONSTANT Lines \* the preferred_render_device lines of the configuration file

ASSUME LinesAssumption == Lines \in Nat

Endpoint ==
    [active : BOOLEAN,           \* DEVICE_STATE_ACTIVE
     opens : BOOLEAN,            \* Activate succeeds
     irig : BOOLEAN,             \* vid_1963 or "irig"
     mic : BOOLEAN,              \* "mic", "input", ...
     speaker : BOOLEAN,          \* "speakers", "headphone", ...
     wanted : SUBSET (1..Lines)] \* the lines whose text its name contains

Active(list) == {i \in DOMAIN list : list[i].active}

\* The endpoints whose properties each pass could read: all but one of the
\* passes ask for the active endpoints, and a pass whose EnumAudioEndpoints or
\* GetCount failed sees none.
Seen(list) ==
    [lines : [1..Lines -> SUBSET Active(list)],
     active : SUBSET Active(list),
     all : SUBSET DOMAIN list,
     speakers : SUBSET Active(list)]

Blind == [lines |-> [n \in 1..Lines |-> {}], active |-> {}, all |-> {}, speakers |-> {}]

\* Mutant: the search goes on after its first match.
Earliest_All(list, C) == {list[i] : i \in C}

\* The first endpoint of the list among the indices in C.
Earliest(list, C) == {list[i] : i \in {j \in C : \A k \in C : j <= k}}

\* The first set of candidates that is not empty.
Preferred(sets) ==
    UNION {sets[i] : i \in {j \in DOMAIN sets : \A k \in 1..j - 1 : sets[k] = {}}}

\* Mutant: without an iRig, the first endpoint that is active.
FindCapture_AnyActive(list, seen) ==
    LET irig(C) == {i \in C : list[i].irig} IN
    Earliest(list, Preferred(<<irig(seen.active), irig(seen.all), seen.active>>))

\* Capture: an iRig among the active endpoints, else an iRig in any state, else
\* an error.
FindCapture(list, seen) ==
    LET irig(C) == {i \in C : list[i].irig} IN
    Earliest(list, Preferred(<<irig(seen.active), irig(seen.all)>>))

\* What the lines of the configuration file ask for, the first line first.
AskedFor(list, seen) ==
    Preferred([n \in 1..Lines |-> {i \in seen.lines[n] : n \in list[i].wanted}])

\* Mutant: the microphones are left in.
FindRender_Mic(list, seen, default) ==
    LET irig(C) == {i \in C : list[i].irig}
        speakers == {i \in seen.speakers : list[i].speaker \/ list[i].irig} IN
    Earliest(list, Preferred(<<AskedFor(list, seen), irig(seen.active), irig(seen.all),
                               speakers, default>>))

\* Render: the one the user prefers, an active iRig, an iRig in any state, an
\* active speaker, else what Windows has as its default (at most one index).
FindRender(list, seen, default) ==
    LET irig(C) == {i \in C : ~list[i].mic /\ list[i].irig}
        speakers == {i \in seen.speakers : ~list[i].mic /\ (list[i].speaker \/ list[i].irig)} IN
    Earliest(list, Preferred(<<AskedFor(list, seen), irig(seen.active), irig(seen.all),
                               speakers, default>>))

=============================================================================
