--------------------------- MODULE ComServerProofs --------------------------
(***************************************************************************)
(* For any clients, objects and slots: no object is used after it is freed *)
(* or freed twice, none leaks, and a locked server stays loaded.  The      *)
(* argument is that each counter counts: ref_count is the number of        *)
(* references clients own and one for the call that still makes the        *)
(* object, SERVER_LOCK_COUNT the number of locks.                          *)
(***************************************************************************)
EXTENDS ComServer, FiniteSetTheorems, TLAPS

\* Both counters are exact, as long as there is an object to count for.
CountsAreExact ==
    /\ \A o \in Objects : Alive(o) =>
           refCount[o] = Cardinality(held[o]) + (IF making[o] = {} THEN 0 ELSE 1)
    /\ lockCount = Cardinality(locks)

\* While an object is being made nobody holds it but the call.
MakingInv ==
    \A o \in Objects : making[o] # {} =>
        \E r \in Refs : making[o] = {r} /\ held[o] \in {{}, {r}}

IInv ==
    /\ TypeOK
    /\ HeldIsAlive
    /\ NothingLeaks
    /\ LockedStaysLoaded
    /\ CountsAreExact
    /\ MakingInv

\* Sets of references are finite, so they can be counted.
LEMMA RefsAreFinite ==
    ASSUME NEW S \in SUBSET Refs
    PROVE  IsFiniteSet(S) /\ Cardinality(S) \in Nat /\ (Cardinality(S) = 0 <=> S = {})
<1>1. IsFiniteSet(Refs)
  BY ComAssumption, FS_Product DEF Refs
<1>2. IsFiniteSet(S)
  BY <1>1, FS_Subset
<1> QED
  BY <1>2, FS_CardinalityType, FS_EmptySet

\* One reference or lock more, or one less, is one more or less to count.
LEMMA CountStep ==
    ASSUME NEW S \in SUBSET Refs, NEW r \in Refs
    PROVE  /\ r \notin S => Cardinality(S \cup {r}) = Cardinality(S) + 1
           /\ r \in S => Cardinality(S \ {r}) = Cardinality(S) - 1
<1>1. IsFiniteSet(S)
  BY RefsAreFinite
<1> QED
  BY <1>1, FS_AddElement, FS_RemoveElement

\* At the start nothing exists.
LEMMA InitIInv == Init => IInv
BY FS_EmptySet DEF Init, IInv, TypeOK, HeldIsAlive, NothingLeaks, LockedStaysLoaded,
       CountsAreExact, MakingInv, Alive

\* A new object has the one reference of new().
LEMMA NewObjectIInv ==
    ASSUME IInv, NEW r \in Refs, NEW o \in Objects, NEW what \in {"factory", "driver"},
           NewObject(r, o, what), loaded
    PROVE  IInv'
<1> USE DEF IInv, NewObject, lockVars
<1>1. held[o] = {} /\ making[o] = {} /\ freeing[o] = {}
  BY DEF TypeOK, HeldIsAlive, Alive
<1>2. TypeOK'
  BY DEF TypeOK
<1>3. HeldIsAlive'
  BY <1>1 DEF TypeOK, HeldIsAlive, Alive
<1>4. NothingLeaks'
  BY DEF TypeOK, NothingLeaks, Alive
<1>5. LockedStaysLoaded'
  BY DEF LockedStaysLoaded
<1>6. CountsAreExact'
  BY <1>1, FS_EmptySet DEF TypeOK, CountsAreExact, Alive
<1>7. MakingInv'
  BY <1>1 DEF TypeOK, MakingInv
<1> QED
  BY <1>2, <1>3, <1>4, <1>5, <1>6, <1>7

\* The query counts one more, or the object goes with the call.
LEMMA QueryNewIInv ==
    ASSUME IInv, NEW r \in Refs, NEW o \in Objects, QueryNew(r, o)
    PROVE  IInv'
<1> USE DEF IInv, QueryNew, lockVars
<1>1. /\ making[o] = {r} /\ held[o] = {} /\ Alive(o) /\ freeing[o] = {}
      /\ refCount[o] = 1
  <2>1. making[o] = {r} /\ held[o] = {} /\ Alive(o) /\ freeing[o] = {}
    BY DEF HeldIsAlive
  <2>2. refCount[o] = Cardinality({}) + 1
    BY <2>1 DEF CountsAreExact
  <2> QED
    BY <2>1, <2>2, FS_EmptySet
<1>2. CASE UNCHANGED making
  <2>1. /\ refCount' = [refCount EXCEPT ![o] = @ + 1]
        /\ held' = [held EXCEPT ![o] = {r}]
        /\ UNCHANGED <<kind, making, freeing, lockCount, locks, loaded>>
    <3>1. making'[o] # {}
      BY <1>1, <1>2
    <3>2. ~(making' = [making EXCEPT ![o] = {}])
      BY <3>1 DEF TypeOK
    <3> QED
      BY <1>1, <3>2
  <2> HIDE DEF QueryNew
  <2>2. TypeOK' /\ LockedStaysLoaded'
    BY <2>1 DEF TypeOK, LockedStaysLoaded
  <2>3. HeldIsAlive' /\ NothingLeaks'
    BY <1>1, <2>1 DEF TypeOK, HeldIsAlive, NothingLeaks, Alive
  <2>4. CountsAreExact'
    BY <1>1, <2>1, FS_Singleton DEF TypeOK, CountsAreExact, Alive
  <2>5. MakingInv'
    BY <1>1, <2>1 DEF TypeOK, MakingInv
  <2> QED
    BY <2>2, <2>3, <2>4, <2>5
<1>3. CASE UNCHANGED <<refCount, held>>
  <2>1. /\ kind' = [kind EXCEPT ![o] = "freed"]
        /\ making' = [making EXCEPT ![o] = {}]
        /\ UNCHANGED <<refCount, held, freeing, lockCount, locks, loaded>>
    BY <1>1, <1>3 DEF TypeOK
  <2> HIDE DEF QueryNew
  <2>2. TypeOK' /\ LockedStaysLoaded'
    BY <2>1 DEF TypeOK, LockedStaysLoaded
  <2>3. HeldIsAlive' /\ NothingLeaks'
    BY <1>1, <2>1 DEF TypeOK, HeldIsAlive, NothingLeaks, Alive
  <2>4. CountsAreExact'
    BY <1>1, <2>1 DEF TypeOK, CountsAreExact, Alive
  <2>5. MakingInv'
    BY <1>1, <2>1 DEF TypeOK, MakingInv
  <2> QED
    BY <2>2, <2>3, <2>4, <2>5
<1> QED
  BY <1>2, <1>3

\* The reference of new() is not the last one.
LEMMA ReleaseNewIInv ==
    ASSUME IInv, NEW r \in Refs, NEW o \in Objects, ReleaseNew(r, o)
    PROVE  IInv'
<1> USE DEF IInv, ReleaseNew, Decrement, lockVars
<1>1. /\ making[o] = {r} /\ held[o] = {r} /\ Alive(o) /\ freeing[o] = {}
      /\ refCount[o] = 2
  <2>1. making[o] = {r} /\ held[o] = {r} /\ Alive(o) /\ freeing[o] = {}
    BY DEF HeldIsAlive
  <2>2. refCount[o] = Cardinality({r}) + 1
    BY <2>1 DEF CountsAreExact
  <2>3. Cardinality({r}) = 1
    BY FS_Singleton
  <2> QED
    BY <2>1, <2>2, <2>3
<1>2. /\ refCount' = [refCount EXCEPT ![o] = 1]
      /\ making' = [making EXCEPT ![o] = {}]
      /\ UNCHANGED <<kind, held, freeing, lockCount, locks, loaded>>
  BY <1>1 DEF TypeOK
<1> HIDE DEF ReleaseNew, Decrement
<1>3. TypeOK' /\ LockedStaysLoaded'
  BY <1>2 DEF TypeOK, LockedStaysLoaded
<1>4. HeldIsAlive' /\ NothingLeaks'
  BY <1>1, <1>2 DEF TypeOK, HeldIsAlive, NothingLeaks, Alive
<1>5. CountsAreExact'
  <2>1. Cardinality({r}) = 1
    BY FS_Singleton
  <2> QED
    BY <1>1, <1>2, <2>1 DEF TypeOK, CountsAreExact, Alive
<1>6. MakingInv'
  BY <1>2 DEF TypeOK, MakingInv
<1> QED
  BY <1>3, <1>4, <1>5, <1>6

\* AddRef and Release move the counter by the reference they add or take.
LEMMA CountingIInv ==
    ASSUME IInv, NEW r \in Refs, NEW o \in Objects,
           \/ \E c \in Clients : AddRef(c, r, o)
           \/ Release(r, o)
    PROVE  IInv'
<1> USE DEF IInv, lockVars
<1>1. CASE \E c \in Clients : AddRef(c, r, o)
  <2> PICK c \in Clients : AddRef(c, r, o)
    BY <1>1
  <2> USE DEF AddRef
  <2>1. held[o] # {} /\ making[o] = {} /\ Alive(o) /\ freeing[o] = {}
    BY DEF Owns, HeldIsAlive
  <2>2. TypeOK'
    BY DEF TypeOK
  <2>3. HeldIsAlive'
    BY <2>1 DEF TypeOK, HeldIsAlive, Alive
  <2>4. NothingLeaks'
    BY <2>1 DEF TypeOK, NothingLeaks, Alive
  <2>5. CountsAreExact'
    <3>1. held[o] \in SUBSET Refs /\ refCount[o] = Cardinality(held[o])
      BY <2>1, RefsAreFinite DEF TypeOK, CountsAreExact
    <3>2. Cardinality(held[o] \cup {r}) = refCount[o] + 1
      BY <3>1, CountStep
    <3> QED
      BY <2>1, <3>2 DEF TypeOK, CountsAreExact, Alive
  <2>6. MakingInv'
    BY <2>1 DEF TypeOK, MakingInv
  <2> QED
    BY <2>2, <2>3, <2>4, <2>5, <2>6 DEF LockedStaysLoaded
<1>2. CASE Release(r, o)
  <2> USE <1>2 DEF Release, Decrement
  <2>1. held[o] # {} /\ Alive(o) /\ freeing[o] = {} /\ r[1] \in Clients
    BY DEF HeldIsAlive, Refs
  <2>2. /\ held[o] \in SUBSET Refs
        /\ Cardinality(held[o] \ {r}) = refCount[o] - 1
    <3>1. refCount[o] = Cardinality(held[o]) /\ held[o] \in SUBSET Refs
      BY <2>1, RefsAreFinite DEF TypeOK, CountsAreExact
    <3> QED
      BY <3>1, CountStep
  <2>3. /\ refCount[o] - 1 \in Nat
        /\ refCount[o] = 1 <=> held[o] \ {r} = {}
    BY <2>2, RefsAreFinite DEF TypeOK
  <2>4. TypeOK'
    BY <2>1, <2>3 DEF TypeOK
  <2>5. HeldIsAlive'
    BY <2>1, <2>3 DEF TypeOK, HeldIsAlive, Alive
  <2>6. NothingLeaks'
    BY <2>1, <2>3 DEF TypeOK, NothingLeaks, Alive
  <2>7. CountsAreExact'
    BY <2>2, <2>3 DEF TypeOK, CountsAreExact, Alive
  <2>8. MakingInv'
    BY DEF TypeOK, MakingInv
  <2> QED
    BY <2>4, <2>5, <2>6, <2>7, <2>8 DEF LockedStaysLoaded
<1> QED
  BY <1>1, <1>2

\* The one client that may free an object frees it.
LEMMA FreeIInv ==
    ASSUME IInv, NEW c \in Clients, NEW o \in Objects, Free(c, o)
    PROVE  IInv'
<1> USE DEF IInv, Free, lockVars
<1>1. held[o] = {} /\ making[o] = {} /\ freeing[o] \ {c} = {}
  BY DEF TypeOK, HeldIsAlive
<1>2. TypeOK'
  BY DEF TypeOK
<1>3. HeldIsAlive'
  BY <1>1 DEF TypeOK, HeldIsAlive, Alive
<1>4. NothingLeaks'
  BY DEF TypeOK, NothingLeaks, Alive
<1>5. CountsAreExact'
  BY DEF TypeOK, CountsAreExact, Alive
<1> QED
  BY <1>2, <1>3, <1>4, <1>5 DEF LockedStaysLoaded, MakingInv

\* LockServer counts, and the DLL is unloaded only at zero.
LEMMA LockIInv ==
    ASSUME IInv,
           \/ \E r \in Refs, f \in Objects : LockServer(r, f)
           \/ Unload
    PROVE  IInv'
<1> USE DEF IInv, lockVars
<1>1. CASE \E r \in Refs, f \in Objects : LockServer(r, f)
  <2> PICK r \in Refs, f \in Objects : LockServer(r, f)
    BY <1>1
  <2> USE DEF LockServer
  <2>1. locks \in SUBSET Refs /\ lockCount = Cardinality(locks)
    BY DEF TypeOK, CountsAreExact
  <2>2. locks' \in SUBSET Refs /\ lockCount' = Cardinality(locks')
    BY <2>1, CountStep
  <2>3. lockCount' \in Nat
    BY <2>2, RefsAreFinite
  <2> QED
    BY <2>2, <2>3
    DEF TypeOK, HeldIsAlive, NothingLeaks, LockedStaysLoaded, CountsAreExact,
        MakingInv, Alive, Owns
<1>2. CASE Unload
  <2> USE <1>2 DEF Unload, CanUnload
  <2>1. locks = {}
    BY RefsAreFinite DEF TypeOK, CountsAreExact
  <2> QED
    BY <2>1
    DEF TypeOK, HeldIsAlive, NothingLeaks, LockedStaysLoaded, CountsAreExact,
        MakingInv, Alive
<1> QED
  BY <1>1, <1>2

\* Every step keeps the invariant.
LEMMA StepIInv == IInv /\ [Next]_vars => IInv'
<1> SUFFICES ASSUME IInv, [Next]_vars PROVE IInv'
  OBVIOUS
<1>1. CASE \E o \in Objects, r \in Refs : DllGetClassObject(r, o)
  BY <1>1, NewObjectIInv DEF DllGetClassObject
<1>2. CASE \E o \in Objects, r \in Refs, f \in Objects : CreateInstance(r, f, o)
  BY <1>2, NewObjectIInv DEF CreateInstance, Owns
<1>3. CASE \E o \in Objects, r \in Refs :
               Release(r, o) \/ (\E c \in Clients : AddRef(c, r, o))
  BY <1>3, CountingIInv
<1>4. CASE \E o \in Objects, c \in Clients : Free(c, o)
  BY <1>4, FreeIInv
<1>5. CASE Unload \/ (\E o \in Objects, r \in Refs : LockServer(r, o))
  BY <1>5, LockIInv
<1>6. CASE \E o \in Objects, r \in Refs : QueryNew(r, o) \/ ReleaseNew(r, o)
  BY <1>6, QueryNewIInv, ReleaseNewIInv
<1>7. CASE UNCHANGED vars
  BY <1>7 DEF vars, IInv, TypeOK, HeldIsAlive, NothingLeaks, LockedStaysLoaded,
              CountsAreExact, MakingInv, Alive
<1> QED
  BY <1>1, <1>2, <1>3, <1>4, <1>5, <1>6, <1>7 DEF Next

\* The counters of asio_com.rs and com_server.rs are always exact.
THEOREM Exact == Spec => []IInv
BY InitIInv, StepIInv, PTL DEF Spec

\* Neither counter ever underflows.
THEOREM TypeCorrect == Spec => []TypeOK
BY Exact, PTL DEF IInv

\* No use after free and no double free.
THEOREM NoUseAfterFree == Spec => []HeldIsAlive
BY Exact, PTL DEF IInv

\* No object stays behind without a reference.
THEOREM NoLeak == Spec => []NothingLeaks
BY Exact, PTL DEF IInv

\* LockServer(TRUE) keeps the DLL in the process.
THEOREM LockKeepsLoaded == Spec => []LockedStaysLoaded
BY Exact, PTL DEF IInv

=============================================================================
