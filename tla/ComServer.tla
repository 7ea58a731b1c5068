----------------------------- MODULE ComServer ------------------------------
(***************************************************************************)
(* The COM side of the DLL: class factories (com_server.rs) and driver     *)
(* objects (asio_com.rs) counted by their references, the server lock      *)
(* count, and DllGetClassObject and DllCanUnloadNow (lib.rs).  Several     *)
(* client threads hold references and call AddRef and Release at the same  *)
(* time.  What the last Release of a driver waits for is in AsioDriver.    *)
(***************************************************************************)
EXTENDS Integers, FiniteSets

CONSTANTS
    Clients,  \* client threads
    Objects,  \* addresses of COM objects; none is used twice
    Slots     \* bound: what one client can hold at a time of one kind

ASSUME ComAssumption == IsFiniteSet(Clients) /\ IsFiniteSet(Slots)

\* A reference or a lock, with the client it belongs to.
Refs == Clients \X Slots

VARIABLES
    kind,     \* what is at an address: "unused", "factory", "driver", "freed"
    refCount, \* ref_count
    held,     \* held[o]: the references clients own on o
    making,   \* making[o]: the reference the call that makes o is to leave
    freeing,  \* freeing[o]: the clients whose Release of o found prev = 1
    lockCount, \* SERVER_LOCK_COUNT
    locks,    \* the LockServer(TRUE) calls not undone
    loaded    \* the DLL is in the process

vars == <<kind, refCount, held, making, freeing, lockCount, locks, loaded>>
lockVars == <<lockCount, locks>>

Init ==
    /\ kind = [o \in Objects |-> "unused"]
    /\ refCount = [o \in Objects |-> 0]
    /\ held = [o \in Objects |-> {}]
    /\ making = [o \in Objects |-> {}]
    /\ freeing = [o \in Objects |-> {}]
    /\ lockCount = 0
    /\ locks = {}
    /\ loaded = TRUE

\* A client calls through a reference it owns, which it has once the call that
\* made the object has returned.
Owns(c, o) == loaded /\ making[o] = {} /\ \E n \in Slots : <<c, n>> \in held[o]

\* ClassFactory::new or IrigAsioDriverCom::new, for a call that is to leave r:
\* the object has one reference, which is the call's.
NewObject(r, o, what) ==
    /\ kind[o] = "unused"
    /\ kind' = [kind EXCEPT ![o] = what]
    /\ refCount' = [refCount EXCEPT ![o] = 1]
    /\ making' = [making EXCEPT ![o] = {r}]
    /\ UNCHANGED <<held, freeing, lockVars, loaded>>

\* With an unknown class there is no object.
DllGetClassObject(r, o) == loaded /\ NewObject(r, o, "factory")

CreateInstance(r, f, o) ==
    Owns(r[1], f) /\ kind[f] = "factory" /\ NewObject(r, o, "driver")

\* Mutant: with an unknown interface the call just returns.
QueryNew_Leak(r, o) ==
    /\ loaded /\ making[o] = {r} /\ held[o] = {}
    /\ \/ /\ refCount' = [refCount EXCEPT ![o] = @ + 1]
          /\ held' = [held EXCEPT ![o] = {r}]
          /\ UNCHANGED making
       \/ /\ making' = [making EXCEPT ![o] = {}]
          /\ UNCHANGED <<refCount, held>>
    /\ UNCHANGED <<kind, freeing, lockVars, loaded>>

\* The call queries the new object for the interface asked for: it counts a
\* second reference, or the interface is unknown and the Box is dropped.
QueryNew(r, o) ==
    /\ loaded /\ making[o] = {r} /\ held[o] = {}
    /\ \/ /\ refCount' = [refCount EXCEPT ![o] = @ + 1]
          /\ held' = [held EXCEPT ![o] = {r}]
          /\ UNCHANGED <<kind, making>>
       \/ /\ kind' = [kind EXCEPT ![o] = "freed"]
          /\ making' = [making EXCEPT ![o] = {}]
          /\ UNCHANGED <<refCount, held>>
    /\ UNCHANGED <<freeing, lockVars, loaded>>

\* fetch_sub by client c; the one that finds 1 goes on to free the object.
Decrement(c, o) ==
    /\ refCount' = [refCount EXCEPT ![o] = @ - 1]
    /\ freeing' = [freeing EXCEPT ![o] = IF refCount[o] = 1 THEN @ \cup {c} ELSE @]

\* The call releases the reference of new() and returns.
ReleaseNew(r, o) ==
    /\ loaded /\ making[o] = {r} /\ held[o] = {r}
    /\ Decrement(r[1], o)
    /\ making' = [making EXCEPT ![o] = {}]
    /\ UNCHANGED <<kind, held, lockVars, loaded>>

\* Mutant: QueryInterface hands the pointer out and does not count it.
AddRef_NoCount(c, r, o) ==
    /\ Owns(c, o) /\ r \notin held[o]
    /\ held' = [held EXCEPT ![o] = @ \cup {r}]
    /\ UNCHANGED <<kind, refCount, making, freeing, lockVars, loaded>>

\* AddRef, or a QueryInterface that succeeds: c may call it for itself or to
\* pass the new reference r on to another thread.
AddRef(c, r, o) ==
    /\ Owns(c, o) /\ r \notin held[o]
    /\ refCount' = [refCount EXCEPT ![o] = @ + 1]
    /\ held' = [held EXCEPT ![o] = @ \cup {r}]
    /\ UNCHANGED <<kind, making, freeing, lockVars, loaded>>

\* The client's reference is gone ...
Release(r, o) ==
    /\ loaded /\ r \in held[o] /\ making[o] = {}
    /\ Decrement(r[1], o)
    /\ held' = [held EXCEPT ![o] = @ \ {r}]
    /\ UNCHANGED <<kind, making, lockVars, loaded>>

\* ... and, if it was the last one, Box::from_raw frees the object.
Free(c, o) ==
    /\ loaded /\ c \in freeing[o]
    /\ kind' = [kind EXCEPT ![o] = "freed"]
    /\ freeing' = [freeing EXCEPT ![o] = @ \ {c}]
    /\ UNCHANGED <<refCount, held, making, lockVars, loaded>>

\* Mutant: the two branches are swapped.
LockServer_Swapped(r, f) ==
    /\ Owns(r[1], f) /\ kind[f] = "factory"
    /\ \/ /\ r \notin locks
          /\ lockCount' = lockCount - 1 /\ locks' = locks \cup {r}
       \/ /\ r \in locks
          /\ lockCount' = lockCount + 1 /\ locks' = locks \ {r}
    /\ UNCHANGED <<kind, refCount, held, making, freeing, loaded>>

\* Mutant: the lock is a flag.
LockServer_Flag(r, f) ==
    /\ Owns(r[1], f) /\ kind[f] = "factory"
    /\ \/ r \notin locks /\ lockCount' = 1 /\ locks' = locks \cup {r}
       \/ r \in locks /\ lockCount' = 0 /\ locks' = locks \ {r}
    /\ UNCHANGED <<kind, refCount, held, making, freeing, loaded>>

\* LockServer(TRUE) or (FALSE); a client undoes only what it did.
LockServer(r, f) ==
    /\ Owns(r[1], f) /\ kind[f] = "factory"
    /\ \/ /\ r \notin locks
          /\ lockCount' = lockCount + 1 /\ locks' = locks \cup {r}
       \/ /\ r \in locks
          /\ lockCount' = lockCount - 1 /\ locks' = locks \ {r}
    /\ UNCHANGED <<kind, refCount, held, making, freeing, loaded>>

\* DllCanUnloadNow answers S_OK.
CanUnload == lockCount = 0

\* The COM runtime asks, and unloads the DLL when it may.
Unload ==
    /\ loaded /\ CanUnload
    /\ loaded' = FALSE
    /\ UNCHANGED <<kind, refCount, held, making, freeing, lockVars>>

Next ==
    \/ \E o \in Objects :
        \/ \E r \in Refs :
            \/ DllGetClassObject(r, o)
            \/ QueryNew(r, o)
            \/ ReleaseNew(r, o)
            \/ Release(r, o)
            \/ LockServer(r, o)
            \/ \E f \in Objects : CreateInstance(r, f, o)
            \/ \E c \in Clients : AddRef(c, r, o)
        \/ \E c \in Clients : Free(c, o)
    \/ Unload

Spec == Init /\ [][Next]_vars

-----------------------------------------------------------------------------
(* Properties                                                              *)

Alive(o) == kind[o] \in {"factory", "driver"}

\* Every variable has its type; in particular neither counter underflows.
TypeOK ==
    /\ kind \in [Objects -> {"unused", "factory", "driver", "freed"}]
    /\ refCount \in [Objects -> Nat]
    /\ held \in [Objects -> SUBSET Refs]
    /\ making \in [Objects -> SUBSET Refs]
    /\ freeing \in [Objects -> SUBSET Clients]
    /\ lockCount \in Nat
    /\ locks \in SUBSET Refs
    /\ loaded \in BOOLEAN

\* An object somebody holds or makes is not freed, and the Release that
\* frees an object is the only one that may: no use after free and no double
\* free, whatever the threads do at the same time (asio_com.rs 188 to 202).
HeldIsAlive ==
    \A o \in Objects :
        /\ held[o] \cup making[o] # {} => Alive(o) /\ freeing[o] = {}
        /\ \A c, d \in freeing[o] : Alive(o) /\ c = d

\* An object that nobody holds or makes is freed, or is about to be: neither the
\* reference of new() stays behind, nor an object that was queried for an
\* unknown interface (com_server.rs 122 to 133, lib.rs 79 to 88).
NothingLeaks ==
    \A o \in Objects : Alive(o) /\ held[o] = {} /\ making[o] = {} => freeing[o] # {}

\* While any client has the server locked, the DLL stays (com_server.rs 137).
LockedStaysLoaded == locks # {} => loaded

\* What lib.rs says of DllCanUnloadNow at line 8 ("Return S_OK if no objects
\* are alive"): it does not while a driver is.
UnloadOnlyWhenIdle == CanUnload => \A o \in Objects : kind[o] # "driver"

=============================================================================
