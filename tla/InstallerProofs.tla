--------------------------- MODULE InstallerProofs ---------------------------
(***************************************************************************)
(* Proofs about Installer.  The module has no parameters, so TLC sees all  *)
(* of its states; what the proofs add is why: which earlier step makes     *)
(* each promise true, and what a failed or interrupted setup can leave.    *)
(***************************************************************************)
EXTENDS Installer, TLAPS

\* Which setup a place belongs to.
PlaceInv ==
    /\ pc \in {"dir", "copy", "entry"} => op = "install" /\ way = "exe"
    /\ pc \in {"dll", "bytes", "regsvr32", "register"} => op = "install"
    /\ pc = "verify" => op = "install" /\ way = "ps1"
    /\ pc \in {"unregister", "delete"} => op = "uninstall"
    /\ pc = "unentry" => op = "uninstall" /\ way = "exe"
    /\ pc = "keys" => op = "uninstall" /\ way = "ps1"

\* What an installation has done so far: the file before regsvr32, and every
\* item up to the next one, whatever was there before.
WrittenInv ==
    /\ pc \in {"copy", "regsvr32", "register", "entry", "verify"} => dll[way] = "whole"
    /\ pc \in {"dir", "dll", "bytes", "copy", "regsvr32"} => next = 1
    /\ pc = "register" =>
           /\ \A i \in 1..next - 1 : Items[i] \in reg
           /\ next > 7 => path = way
    /\ pc \in {"entry", "verify"} => reg = ToSet(Items) /\ path = way
    /\ SuccessIsTrue

\* Where nothing failed, the program has left its copy before it registers.
HealInv ==
    /\ ~fault /\ way = "exe" /\ pc \in {"regsvr32", "register", "entry"} => uninstaller
    /\ RetryHeals

\* What is left at each place of an uninstallation in which no call fails, of
\* a DLL that could be loaded.
RemovedInv ==
    /\ op = "uninstall" /\ found = "whole" /\ ~fault =>
           /\ pc \in {"unregister", "unentry", "delete"} => dll[way] = "whole" /\ ~busy
           /\ pc \in {"unentry", "delete", "keys"} => reg = {}
           /\ pc = "delete" /\ way = "exe" => entry = "absent"
           /\ pc = "keys" => dll[way] = "absent" /\ ~busy
    /\ UninstallIsComplete

\* A DLL in use is whole.
HeldInv == \A w \in Way : inUse[w] => dll[w] = "whole"

\* As long as nothing failed: a partial DLL is the one being written, the
\* value names a DLL that is there, and a DLL is deleted under no entries.
SmoothInv ==
    /\ smooth /\ pc = "idle" => ~fault
    /\ smooth /\ ~fault =>
           /\ \A w \in Way : dll[w] = "partial" => pc = "bytes" /\ w = way
           /\ "inproc.path" \in reg => dll[path] # "absent"
           /\ pc \in {"unentry", "delete"} /\ dll[way] # "absent" => reg = {}

IInv == TypeOK /\ PlaceInv /\ WrittenInv /\ HealInv /\ RemovedInv /\ HeldInv /\ SmoothInv

-----------------------------------------------------------------------------
(* The items of the registry                                               *)

\* How many items there are, and that only the seventh is the value that
\* names the DLL.
LEMMA ItemsFacts ==
    /\ Len(Items) = 8 /\ DOMAIN Items = 1..8
    /\ \A i \in 1..8 : Items[i] \in ToSet(Items) /\ (Items[i] = "inproc.path" <=> i = 7)
    /\ \A x \in ToSet(Items) : \E i \in 1..8 : x = Items[i]
<1>1. Len(Items) = 8 /\ DOMAIN Items = 1..8
  BY DEF Items
<1>2. \A i \in 1..8 : Items[i] = "inproc.path" <=> i = 7
  BY DEF Items
<1>3. ToSet(Items) = {Items[i] : i \in 1..8}
  BY <1>1 DEF ToSet
<1> QED
  BY <1>1, <1>2, <1>3

-----------------------------------------------------------------------------
(* The first state, and one lemma for each part of the invariant           *)

\* The machine before any setup.
LEMMA InitIInv == Init => IInv
<1> SUFFICES ASSUME Init PROVE IInv
  OBVIOUS
<1> USE DEF Init
<1>1. TypeOK
  <2>1. next \in 1..Len(Items) + 1 /\ "exe" \in Way
    BY ItemsFacts DEF Way
  <2>2. dll \in [Way -> {"absent", "partial", "whole"}] /\ inUse \in [Way -> BOOLEAN]
    OBVIOUS
  <2> QED
    BY <2>1, <2>2 DEF TypeOK
<1>2. PlaceInv /\ WrittenInv /\ HealInv /\ RemovedInv
  BY DEF PlaceInv, WrittenInv, SuccessIsTrue, HealInv, RetryHeals, RemovedInv,
         UninstallIsComplete
<1>3. HeldInv /\ SmoothInv
  BY DEF HeldInv, SmoothInv
<1> QED
  BY <1>1, <1>2, <1>3 DEF IInv

USE DEF registry, machine, setup, Goto, Finish, Fail, Refused, Succeed, Ignored

\* Every step keeps the types.
LEMMA TypedStep == ASSUME IInv, [Next]_vars PROVE TypeOK'
<1> USE ItemsFacts DEF IInv, TypeOK
<1>1. CASE \E o \in {"install", "uninstall"}, w \in Way : Launch(o, w)
  <2>1. PICK o \in {"install", "uninstall"}, w \in Way : Launch(o, w)
    BY <1>1
  <2>2. pc' \in {"unregister", "dir", "dll"} /\ found' \in {"absent", "partial", "whole"}
    BY <2>1 DEF Launch, FirstStep
  <2>3. next' \in 1..Len(Items) + 1
    BY <2>1 DEF Launch
  <2> QED
    BY <2>1, <2>2, <2>3 DEF Launch
<1>2. CASE CreateDir
  BY <1>2 DEF CreateDir
<1>3. CASE OpenDll
  BY <1>3 DEF OpenDll
<1>4. CASE WriteDll
  BY <1>4 DEF WriteDll
<1>5. CASE CopySelf
  BY <1>5 DEF CopySelf
<1>6. CASE RunRegsvr32
  <2>1. pc' \in {"register", "done"} /\ (pc' = "register" => next' <= Len(Items))
    BY <1>6 DEF RunRegsvr32, WrittenInv
  <2> QED
    BY <1>6, <2>1 DEF RunRegsvr32
<1>7. CASE RegisterItem
  <2>1. next \in 1..8 /\ Items[next] \in ToSet(Items)
    BY <1>7 DEF RegisterItem
  <2>2. next + 1 \in 1..Len(Items) + 1 /\ (next < Len(Items) => next + 1 <= Len(Items))
    BY <2>1
  <2>3. CASE Fail("register")
    BY <2>3
  <2>4. CASE ~Fail("register")
    BY <1>7, <2>1, <2>2, <2>4 DEF RegisterItem
  <2> QED
    BY <2>3, <2>4
<1>8. CASE WriteEntry
  BY <1>8 DEF WriteEntry
<1>9. CASE Verify
  BY <1>9 DEF Verify
<1>10. CASE Unregister
  <2>1. reg' \subseteq ToSet(Items) /\ pc' \in {"unentry", "delete", "done"}
    BY <1>10 DEF Unregister, TreesLeft
  <2>2. /\ UNCHANGED <<dll, path, entry, uninstaller, setup, next, busy, inUse>>
        /\ outcome' \in {"none", "success", "error"} /\ fault' \in BOOLEAN
    BY <1>10 DEF Unregister
  <2> QED
    BY <2>1, <2>2
<1>11. CASE RemoveEntry
  BY <1>11 DEF RemoveEntry
<1>12. CASE DeleteExe
  BY <1>12 DEF DeleteExe
<1>13. CASE DeletePs1
  BY <1>13 DEF DeletePs1
<1>14. CASE DeleteKeys
  BY <1>14 DEF DeleteKeys, TreesLeft
<1>15. CASE Dismiss
  BY <1>15 DEF Dismiss
<1>16. CASE CutOff
  BY <1>16 DEF CutOff
<1>17. CASE \E w \in Way : HostLoads(w) \/ HostExits(w)
  <2>1. inUse' \in [Way -> BOOLEAN]
    BY <1>17 DEF HostLoads, HostExits
  <2> QED
    BY <1>17, <2>1 DEF HostLoads, HostExits
<1>18. CASE UNCHANGED vars
  BY <1>18 DEF vars
<1> QED
  BY <1>1, <1>2, <1>3, <1>4, <1>5, <1>6, <1>7, <1>8, <1>9, <1>10, <1>11, <1>12,
     <1>13, <1>14, <1>15, <1>16, <1>17, <1>18
     DEF Next, Install, Uninstall

\* Every step goes on in the setup it belongs to.
LEMMA PlaceStep == ASSUME IInv, [Next]_vars PROVE PlaceInv'
<1> USE DEF IInv, TypeOK, PlaceInv, Way
<1>1. CASE \E o \in {"install", "uninstall"}, w \in Way : Launch(o, w)
  BY <1>1 DEF Launch, FirstStep
<1>2. CASE CreateDir
  BY <1>2 DEF CreateDir
<1>3. CASE OpenDll
  BY <1>3 DEF OpenDll
<1>4. CASE WriteDll
  BY <1>4 DEF WriteDll
<1>5. CASE CopySelf
  BY <1>5 DEF CopySelf
<1>6. CASE RunRegsvr32
  BY <1>6 DEF RunRegsvr32
<1>7. CASE RegisterItem
  BY <1>7 DEF RegisterItem
<1>8. CASE WriteEntry
  BY <1>8 DEF WriteEntry
<1>9. CASE Verify
  BY <1>9 DEF Verify
<1>10. CASE Unregister
  BY <1>10 DEF Unregister, TreesLeft
<1>11. CASE RemoveEntry
  BY <1>11 DEF RemoveEntry
<1>12. CASE DeleteExe
  BY <1>12 DEF DeleteExe
<1>13. CASE DeletePs1
  BY <1>13 DEF DeletePs1
<1>14. CASE DeleteKeys
  BY <1>14 DEF DeleteKeys, TreesLeft
<1>15. CASE Dismiss
  BY <1>15 DEF Dismiss
<1>16. CASE CutOff
  BY <1>16 DEF CutOff
<1>17. CASE \E w \in Way : HostLoads(w) \/ HostExits(w)
  BY <1>17 DEF HostLoads, HostExits
<1>18. CASE UNCHANGED vars
  BY <1>18 DEF vars
<1> QED
  BY <1>1, <1>2, <1>3, <1>4, <1>5, <1>6, <1>7, <1>8, <1>9, <1>10, <1>11, <1>12,
     <1>13, <1>14, <1>15, <1>16, <1>17, <1>18
     DEF Next, Install, Uninstall

\* No step skips an item or registers a DLL that is not whole: the steps before
\* WriteEntry and Verify are what makes their success true.
LEMMA WrittenStep == ASSUME IInv, [Next]_vars PROVE WrittenInv'
<1> USE ItemsFacts DEF IInv, TypeOK, PlaceInv, WrittenInv, SuccessIsTrue, Way
<1>1. CASE \E o \in {"install", "uninstall"}, w \in Way : Launch(o, w)
  BY <1>1 DEF Launch, FirstStep
<1>2. CASE CreateDir
  BY <1>2 DEF CreateDir
<1>3. CASE OpenDll
  BY <1>3 DEF OpenDll
<1>4. CASE WriteDll
  BY <1>4 DEF WriteDll
<1>5. CASE CopySelf
  BY <1>5 DEF CopySelf
<1>6. CASE RunRegsvr32
  BY <1>6 DEF RunRegsvr32
<1>7. CASE RegisterItem
  BY <1>7 DEF RegisterItem
<1>8. CASE WriteEntry
  BY <1>8 DEF WriteEntry
<1>9. CASE Verify
  BY <1>9 DEF Verify
<1>10. CASE Unregister
  BY <1>10 DEF Unregister, TreesLeft
<1>11. CASE RemoveEntry
  BY <1>11 DEF RemoveEntry
<1>12. CASE DeleteExe
  BY <1>12 DEF DeleteExe
<1>13. CASE DeletePs1
  BY <1>13 DEF DeletePs1
<1>14. CASE DeleteKeys
  BY <1>14 DEF DeleteKeys, TreesLeft
<1>15. CASE Dismiss
  BY <1>15 DEF Dismiss
<1>16. CASE CutOff
  BY <1>16 DEF CutOff
<1>17. CASE \E w \in Way : HostLoads(w) \/ HostExits(w)
  BY <1>17 DEF HostLoads, HostExits
<1>18. CASE UNCHANGED vars
  BY <1>18 DEF vars
<1> QED
  BY <1>1, <1>2, <1>3, <1>4, <1>5, <1>6, <1>7, <1>8, <1>9, <1>10, <1>11, <1>12,
     <1>13, <1>14, <1>15, <1>16, <1>17, <1>18
     DEF Next, Install, Uninstall

\* A failed or refused call is the only way to another end than success.
LEMMA HealStep == ASSUME IInv, [Next]_vars PROVE HealInv'
<1> USE DEF IInv, TypeOK, PlaceInv, HealInv, RetryHeals, Way
<1>1. CASE \E o \in {"install", "uninstall"}, w \in Way : Launch(o, w)
  BY <1>1 DEF Launch, FirstStep
<1>2. CASE CreateDir
  BY <1>2 DEF CreateDir
<1>3. CASE OpenDll
  BY <1>3 DEF OpenDll
<1>4. CASE WriteDll
  BY <1>4 DEF WriteDll
<1>5. CASE CopySelf
  BY <1>5 DEF CopySelf
<1>6. CASE RunRegsvr32
  BY <1>6 DEF RunRegsvr32
<1>7. CASE RegisterItem
  BY <1>7 DEF RegisterItem
<1>8. CASE WriteEntry
  BY <1>8 DEF WriteEntry
<1>9. CASE Verify
  BY <1>9 DEF Verify
<1>10. CASE Unregister
  BY <1>10 DEF Unregister, TreesLeft
<1>11. CASE RemoveEntry
  BY <1>11 DEF RemoveEntry
<1>12. CASE DeleteExe
  BY <1>12 DEF DeleteExe
<1>13. CASE DeletePs1
  BY <1>13 DEF DeletePs1
<1>14. CASE DeleteKeys
  BY <1>14 DEF DeleteKeys, TreesLeft
<1>15. CASE Dismiss
  BY <1>15 DEF Dismiss
<1>16. CASE CutOff
  BY <1>16 DEF CutOff
<1>17. CASE \E w \in Way : HostLoads(w) \/ HostExits(w)
  BY <1>17 DEF HostLoads, HostExits
<1>18. CASE UNCHANGED vars
  BY <1>18 DEF vars
<1> QED
  BY <1>1, <1>2, <1>3, <1>4, <1>5, <1>6, <1>7, <1>8, <1>9, <1>10, <1>11, <1>12,
     <1>13, <1>14, <1>15, <1>16, <1>17, <1>18
     DEF Next, Install, Uninstall

\* Where regsvr32 could load the DLL, each step removes what it is there for.
LEMMA RemovedStep == ASSUME IInv, [Next]_vars PROVE RemovedInv'
<1> USE DEF IInv, TypeOK, PlaceInv, RemovedInv, UninstallIsComplete, Way
<1>1. CASE \E o \in {"install", "uninstall"}, w \in Way : Launch(o, w)
  BY <1>1 DEF Launch, FirstStep
<1>2. CASE CreateDir
  BY <1>2 DEF CreateDir
<1>3. CASE OpenDll
  BY <1>3 DEF OpenDll
<1>4. CASE WriteDll
  BY <1>4 DEF WriteDll
<1>5. CASE CopySelf
  BY <1>5 DEF CopySelf
<1>6. CASE RunRegsvr32
  BY <1>6 DEF RunRegsvr32
<1>7. CASE RegisterItem
  BY <1>7 DEF RegisterItem
<1>8. CASE WriteEntry
  BY <1>8 DEF WriteEntry
<1>9. CASE Verify
  BY <1>9 DEF Verify
<1>10. CASE Unregister
  BY <1>10 DEF Unregister, TreesLeft
<1>11. CASE RemoveEntry
  BY <1>11 DEF RemoveEntry
<1>12. CASE DeleteExe
  BY <1>12 DEF DeleteExe
<1>13. CASE DeletePs1
  BY <1>13 DEF DeletePs1
<1>14. CASE DeleteKeys
  BY <1>14 DEF DeleteKeys, TreesLeft
<1>15. CASE Dismiss
  BY <1>15 DEF Dismiss
<1>16. CASE CutOff
  BY <1>16 DEF CutOff
<1>17. CASE \E w \in Way : HostLoads(w) \/ HostExits(w)
  BY <1>17 DEF HostLoads, HostExits
<1>18. CASE UNCHANGED vars
  BY <1>18 DEF vars
<1> QED
  BY <1>1, <1>2, <1>3, <1>4, <1>5, <1>6, <1>7, <1>8, <1>9, <1>10, <1>11, <1>12,
     <1>13, <1>14, <1>15, <1>16, <1>17, <1>18
     DEF Next, Install, Uninstall

\* A DLL in use is neither emptied nor deleted; a machine that goes down has no
\* hosts.
LEMMA HeldStep == ASSUME IInv, [Next]_vars PROVE HeldInv'
<1> USE DEF IInv, TypeOK, PlaceInv, HeldInv, Way
<1>1. CASE \E o \in {"install", "uninstall"}, w \in Way : Launch(o, w)
  BY <1>1 DEF Launch, FirstStep
<1>2. CASE CreateDir
  BY <1>2 DEF CreateDir
<1>3. CASE OpenDll
  BY <1>3 DEF OpenDll
<1>4. CASE WriteDll
  BY <1>4 DEF WriteDll
<1>5. CASE CopySelf
  BY <1>5 DEF CopySelf
<1>6. CASE RunRegsvr32
  BY <1>6 DEF RunRegsvr32
<1>7. CASE RegisterItem
  BY <1>7 DEF RegisterItem
<1>8. CASE WriteEntry
  BY <1>8 DEF WriteEntry
<1>9. CASE Verify
  BY <1>9 DEF Verify
<1>10. CASE Unregister
  BY <1>10 DEF Unregister, TreesLeft
<1>11. CASE RemoveEntry
  BY <1>11 DEF RemoveEntry
<1>12. CASE DeleteExe
  BY <1>12 DEF DeleteExe
<1>13. CASE DeletePs1
  BY <1>13 DEF DeletePs1
<1>14. CASE DeleteKeys
  BY <1>14 DEF DeleteKeys, TreesLeft
<1>15. CASE Dismiss
  BY <1>15 DEF Dismiss
<1>16. CASE CutOff
  BY <1>16 DEF CutOff
<1>17. CASE \E w \in Way : HostLoads(w) \/ HostExits(w)
  BY <1>17 DEF HostLoads, HostExits
<1>18. CASE UNCHANGED vars
  BY <1>18 DEF vars
<1> QED
  BY <1>1, <1>2, <1>3, <1>4, <1>5, <1>6, <1>7, <1>8, <1>9, <1>10, <1>11, <1>12,
     <1>13, <1>14, <1>15, <1>16, <1>17, <1>18
     DEF Next, Install, Uninstall

\* Entries and DLL come in order and go in order, whichever way installed them.
LEMMA SmoothStep == ASSUME IInv, [Next]_vars PROVE SmoothInv'
<1> USE ItemsFacts DEF IInv, TypeOK, PlaceInv, WrittenInv, SmoothInv, Way
<1>1. CASE \E o \in {"install", "uninstall"}, w \in Way : Launch(o, w)
  BY <1>1 DEF Launch, FirstStep
<1>2. CASE CreateDir
  BY <1>2 DEF CreateDir
<1>3. CASE OpenDll
  BY <1>3 DEF OpenDll
<1>4. CASE WriteDll
  BY <1>4 DEF WriteDll
<1>5. CASE CopySelf
  BY <1>5 DEF CopySelf
<1>6. CASE RunRegsvr32
  BY <1>6 DEF RunRegsvr32
<1>7. CASE RegisterItem
  BY <1>7 DEF RegisterItem
<1>8. CASE WriteEntry
  BY <1>8 DEF WriteEntry
<1>9. CASE Verify
  BY <1>9 DEF Verify
<1>10. CASE Unregister
  BY <1>10 DEF Unregister, TreesLeft
<1>11. CASE RemoveEntry
  BY <1>11 DEF RemoveEntry
<1>12. CASE DeleteExe
  BY <1>12 DEF DeleteExe
<1>13. CASE DeletePs1
  BY <1>13 DEF DeletePs1
<1>14. CASE DeleteKeys
  BY <1>14 DEF DeleteKeys, TreesLeft
<1>15. CASE Dismiss
  BY <1>15 DEF Dismiss
<1>16. CASE CutOff
  BY <1>16 DEF CutOff
<1>17. CASE \E w \in Way : HostLoads(w) \/ HostExits(w)
  BY <1>17 DEF HostLoads, HostExits
<1>18. CASE UNCHANGED vars
  BY <1>18 DEF vars
<1> QED
  BY <1>1, <1>2, <1>3, <1>4, <1>5, <1>6, <1>7, <1>8, <1>9, <1>10, <1>11, <1>12,
     <1>13, <1>14, <1>15, <1>16, <1>17, <1>18
     DEF Next, Install, Uninstall

-----------------------------------------------------------------------------
(* The theorems                                                            *)

\* The inductive invariant holds in every reachable state.
THEOREM Invariance == Spec => []IInv
<1>1. IInv /\ [Next]_vars => IInv'
  BY TypedStep, PlaceStep, WrittenStep, HealStep, RemovedStep, HeldStep, SmoothStep DEF IInv
<1> QED
  BY <1>1, InitIInv, PTL DEF Spec

\* Every variable keeps to its type.
THEOREM TypeCorrect == Spec => []TypeOK
<1>1. IInv => TypeOK
  BY DEF IInv
<1> QED
  BY <1>1, Invariance, PTL

\* Success is told only of an installation that a host can use, whatever
\* earlier setups left behind.
THEOREM SuccessMeansInstalled == Spec => []SuccessIsTrue
<1>1. IInv => SuccessIsTrue
  BY DEF IInv, WrittenInv
<1> QED
  BY <1>1, Invariance, PTL

\* Installing again succeeds wherever no call fails and no host is in the way.
THEOREM RetrySucceeds == Spec => []RetryHeals
<1>1. IInv => RetryHeals
  BY DEF IInv, HealInv
<1> QED
  BY <1>1, Invariance, PTL

\* Uninstalling removes everything where no call fails.
THEOREM UninstallCompletes == Spec => []UninstallIsComplete
<1>1. IInv => UninstallIsComplete
  BY DEF IInv, RemovedInv
<1> QED
  BY <1>1, Invariance, PTL

\* Without a failure or an interruption the entries never name a DLL that is
\* missing, and name an unfinished one only while an installation over them
\* writes it.
THEOREM EntriesNeverDangle == Spec => []NeverDangles
<1>1. IInv => NeverDangles
  BY DEF IInv, TypeOK, PlaceInv, SmoothInv, NeverDangles, Listed
<1> QED
  BY <1>1, Invariance, PTL

\* Whatever a setup does, with or without failures, the DLL under a running
\* host stays whole.
THEOREM HostsKeepTheirDll == Spec => []HeldInv
<1>1. IInv => HeldInv
  BY DEF IInv
<1> QED
  BY <1>1, Invariance, PTL

=============================================================================
