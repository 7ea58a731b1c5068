------------------------------ MODULE Installer ------------------------------
(***************************************************************************)
(* Putting the driver on a machine and taking it off again: the setup      *)
(* program (tools/installer/src/main.rs) and the scripts install.ps1 and   *)
(* uninstall.ps1, each with its own place for the DLL, and the registry    *)
(* entries both share (registration.rs through regsvr32).  Any call may    *)
(* fail, the machine may go down between two steps, and a host may hold    *)
(* the DLL loaded.  Files and registry outlive all of it.                  *)
(***************************************************************************)
EXTENDS Naturals, Sequences, SequencesExt

Way == {"exe", "ps1"}  \* each way of installing has a directory of its own

\* What register_driver writes, in its order.
Items == <<"asio", "asio.CLSID", "asio.Description", "class", "class.name",
           "inproc", "inproc.path", "inproc.ThreadingModel">>
AsioTree == {"asio", "asio.CLSID", "asio.Description"}
ClassTree == ToSet(Items) \ AsioTree

VARIABLES
    \* what the machine keeps
    dll,      \* dll[w]: "absent", "partial" or "whole"
    reg,      \* the keys and values of Items that exist
    path,     \* the value of inproc.path, the place of a DLL
    entry,    \* the Uninstall key: "absent", "bare" (values missing) or "whole"
    uninstaller, \* uninstall.exe exists
    \* the setup that runs, if any
    pc, op, way,
    next,     \* the index in Items of what regsvr32 writes next
    outcome,  \* what the user is told
    \* what happened to it
    found,    \* dll[way] when it began
    fault,    \* a call failed for no reason of its own
    busy,     \* a host had the DLL loaded when it was to be replaced or removed
    smooth,   \* no setup ever had a fault or was cut off
    \* the hosts
    inUse     \* inUse[w]: a host has this DLL loaded

registry == <<reg, path>>
machine == <<dll, registry, entry, uninstaller>>
setup == <<op, way, found, smooth>>
vars == <<machine, setup, pc, next, outcome, fault, busy, inUse>>

Init ==
    /\ dll = [w \in Way |-> "absent"] /\ reg = {} /\ path = "exe"
    /\ entry = "absent" /\ uninstaller = FALSE
    /\ pc = "idle" /\ op = "install" /\ way = "exe" /\ next = 1
    /\ outcome = "none" /\ found = "absent"
    /\ fault = FALSE /\ busy = FALSE /\ smooth = TRUE
    /\ inUse = [w \in Way |-> FALSE]

\* The entries name a DLL, so that a host lists the driver.
Listed == {"asio", "asio.CLSID", "inproc", "inproc.path"} \subseteq reg

-----------------------------------------------------------------------------
(* How a step goes on                                                      *)

Goto(from, to) ==
    /\ pc = from /\ pc' = to
    /\ UNCHANGED <<setup, next, outcome, fault, busy, inUse>>

Finish(from, told) ==
    pc = from /\ pc' = "done" /\ outcome' = told /\ UNCHANGED <<setup, next, inUse>>

\* A call fails, and the user is told so.
Fail(from) == Finish(from, "error") /\ fault' = TRUE /\ UNCHANGED <<machine, busy>>

\* The same, because a host has the DLL loaded.
Refused(from) ==
    inUse[way] /\ Finish(from, "error") /\ busy' = TRUE /\ UNCHANGED <<machine, fault>>

Succeed(from) == Finish(from, "success") /\ UNCHANGED <<fault, busy>>

\* A call fails and the code goes on.
Ignored(from, to) ==
    /\ pc = from /\ pc' = to /\ fault' = TRUE
    /\ UNCHANGED <<machine, setup, next, outcome, busy, inUse>>

-----------------------------------------------------------------------------
(* Beginning, ending and the hosts                                         *)

\* What main() and the scripts begin with.
FirstStep(o, w) ==
    IF o = "uninstall" THEN "unregister" ELSE IF w = "exe" THEN "dir" ELSE "dll"

\* Mutant: regsvr32 goes on where an earlier one ended.
Launch_NoReset(o, w) ==
    /\ pc = "idle"
    /\ op' = o /\ way' = w /\ found' = dll[w]
    /\ pc' = FirstStep(o, w)
    /\ outcome' = "none" /\ fault' = FALSE /\ busy' = FALSE
    /\ UNCHANGED <<machine, smooth, inUse, next>>

\* Mutant: uninstalling forgets regsvr32.
Launch_NoUnregister(o, w) ==
    /\ pc = "idle"
    /\ op' = o /\ way' = w /\ found' = dll[w]
    /\ pc' = IF o = "uninstall" THEN "delete" ELSE IF w = "exe" THEN "dir" ELSE "dll"
    /\ next' = 1 /\ outcome' = "none" /\ fault' = FALSE /\ busy' = FALSE
    /\ UNCHANGED <<machine, smooth, inUse>>

\* A setup begins with the rights it needs; without them the program starts
\* itself again with the same arguments, and the scripts refuse to run.
Launch(o, w) ==
    /\ pc = "idle"
    /\ op' = o /\ way' = w /\ found' = dll[w]
    /\ pc' = FirstStep(o, w)
    /\ next' = 1 /\ outcome' = "none" /\ fault' = FALSE /\ busy' = FALSE
    /\ UNCHANGED <<machine, smooth, inUse>>

\* The user reads the message.
Dismiss ==
    /\ pc = "done" /\ pc' = "idle" /\ smooth' = (smooth /\ ~fault)
    /\ UNCHANGED <<machine, op, way, found, next, outcome, fault, busy, inUse>>

\* The setup is killed or the machine goes down, and no host survives that.
CutOff ==
    /\ pc \notin {"idle", "done"} /\ pc' = "idle"
    /\ smooth' = FALSE /\ inUse' = [w \in Way |-> FALSE]
    /\ UNCHANGED <<machine, op, way, found, next, outcome, fault, busy>>

\* A host loads the DLL its entry names, and lets it go.
HostLoads(w) ==
    /\ Listed /\ path = w /\ dll[w] = "whole" /\ ~inUse[w]
    /\ inUse' = [inUse EXCEPT ![w] = TRUE]
    /\ UNCHANGED <<machine, setup, pc, next, outcome, fault, busy>>

HostExits(w) ==
    /\ inUse[w] /\ inUse' = [inUse EXCEPT ![w] = FALSE]
    /\ UNCHANGED <<machine, setup, pc, next, outcome, fault, busy>>

-----------------------------------------------------------------------------
(* install                                                                 *)

CreateDir == (Goto("dir", "dll") /\ UNCHANGED machine) \/ Fail("dir")

\* fs::write and Copy-Item open the file, which empties it, ...
OpenDll ==
    \/ /\ ~inUse[way] /\ Goto("dll", "bytes")
       /\ dll' = [dll EXCEPT ![way] = "partial"]
       /\ UNCHANGED <<registry, entry, uninstaller>>
    \/ Refused("dll")
    \/ Fail("dll")

\* ... and write it.
WriteDll ==
    \/ /\ Goto("bytes", IF way = "exe" THEN "copy" ELSE "regsvr32")
       /\ dll' = [dll EXCEPT ![way] = "whole"]
       /\ UNCHANGED <<registry, entry, uninstaller>>
    \/ Fail("bytes")

\* The program leaves a copy of itself as uninstall.exe, if it can.
CopySelf ==
    \/ Goto("copy", "regsvr32") /\ uninstaller' = TRUE /\ UNCHANGED <<dll, registry, entry>>
    \/ Ignored("copy", "regsvr32")

RunRegsvr32 == (Goto("regsvr32", "register") /\ UNCHANGED machine) \/ Fail("regsvr32")

\* Mutant: stop at a key that is already there.
RegisterItem_Fresh ==
    \/ /\ pc = "register" /\ Items[next] \notin reg
       /\ reg' = reg \cup {Items[next]}
       /\ path' = IF Items[next] = "inproc.path" THEN way ELSE path
       /\ next' = next + 1
       /\ pc' = IF next < Len(Items) THEN pc ELSE IF way = "exe" THEN "entry" ELSE "verify"
       /\ UNCHANGED <<dll, entry, uninstaller, setup, outcome, fault, busy, inUse>>
    \/ Items[next] \in reg /\ Finish("register", "error") /\ UNCHANGED <<machine, fault, busy>>
    \/ Fail("register")

\* Mutant: a value that is already there stays.
RegisterItem_Keep ==
    \/ /\ pc = "register"
       /\ reg' = reg \cup {Items[next]}
       /\ path' = IF Items[next] = "inproc.path" /\ Items[next] \notin reg THEN way ELSE path
       /\ next' = next + 1
       /\ pc' = IF next < Len(Items) THEN pc ELSE IF way = "exe" THEN "entry" ELSE "verify"
       /\ UNCHANGED <<dll, entry, uninstaller, setup, outcome, fault, busy, inUse>>
    \/ Fail("register")

\* One reg_create or reg_set_string of register_driver; an error returns with
\* what was written so far, and regsvr32 with a status that is not 0.
RegisterItem ==
    \/ /\ pc = "register"
       /\ reg' = reg \cup {Items[next]}
       /\ path' = IF Items[next] = "inproc.path" THEN way ELSE path
       /\ next' = next + 1
       /\ pc' = IF next < Len(Items) THEN pc ELSE IF way = "exe" THEN "entry" ELSE "verify"
       /\ UNCHANGED <<dll, entry, uninstaller, setup, outcome, fault, busy, inUse>>
    \/ Fail("register")

\* register_uninstall_entry: the key has to be made, its values need not.
WriteEntry ==
    \/ Succeed("entry") /\ entry' = "whole" /\ UNCHANGED <<dll, registry, uninstaller>>
    \/ /\ Finish("entry", "success") /\ fault' = TRUE
       /\ entry' = IF entry = "whole" THEN entry ELSE "bare"
       /\ UNCHANGED <<dll, registry, uninstaller, busy>>
    \/ Fail("entry")

\* install.ps1 looks for the ASIO key.
Verify == "asio" \in reg /\ Succeed("verify") /\ UNCHANGED machine

-----------------------------------------------------------------------------
(* uninstall                                                               *)

\* Each key with what is deleted before it.
Keys == {<<"asio", AsioTree>>, <<"class", ClassTree>>,
         <<"inproc", {"inproc", "inproc.path", "inproc.ThreadingModel"}>>}

\* What the deletion of a tree can leave when it fails half way.
TreesLeft == {left \in SUBSET reg :
                \A k \in Keys : k[1] \in left \/ left \cap k[2] = {}}

\* Mutant: RegDeleteKey, which does not delete a key that has subkeys.
Unregister_NoTree ==
    LET to == IF way = "exe" THEN "unentry" ELSE "delete" IN
    \/ Goto("unregister", to) /\ dll[way] # "whole" /\ UNCHANGED machine
    \/ /\ Goto("unregister", to) /\ dll[way] = "whole"
       /\ reg' = reg \ AsioTree /\ UNCHANGED <<dll, path, entry, uninstaller>>

\* What `regsvr32 /u` leaves: unregister_driver deletes two trees and looks at
\* no error.  A DLL that does not load deletes nothing.  The script ends if it
\* cannot start regsvr32; the program goes on.
Unregister ==
    LET to == IF way = "exe" THEN "unentry" ELSE "delete" IN
    \/ Goto("unregister", to) /\ dll[way] # "whole" /\ UNCHANGED machine
    \/ /\ Goto("unregister", to) /\ dll[way] = "whole"
       /\ reg' = {} /\ UNCHANGED <<dll, path, entry, uninstaller>>
    \/ /\ pc = "unregister" /\ pc' = to /\ dll[way] = "whole" /\ fault' = TRUE
       /\ reg' \in TreesLeft
       /\ UNCHANGED <<dll, path, entry, uninstaller, setup, next, outcome, busy, inUse>>
    \/ way = "ps1" /\ dll[way] # "absent" /\ Fail("unregister")

RemoveEntry ==
    \/ Goto("unentry", "delete") /\ entry' = "absent" /\ UNCHANGED <<dll, registry, uninstaller>>
    \/ Ignored("unentry", "delete")

\* The program ignores what remove_file answers.
DeleteExe ==
    /\ way = "exe" /\ Finish("delete", "success")
    /\ \/ /\ ~inUse[way] /\ dll' = [dll EXCEPT ![way] = "absent"] /\ UNCHANGED <<fault, busy>>
       \/ inUse[way] /\ busy' = TRUE /\ UNCHANGED <<dll, fault>>
       \/ dll[way] # "absent" /\ fault' = TRUE /\ UNCHANGED <<dll, busy>>
    /\ UNCHANGED <<registry, entry, uninstaller>>

\* The script stops where Remove-Item fails.
DeletePs1 ==
    /\ way = "ps1"
    /\ \/ /\ ~inUse[way] /\ Goto("delete", "keys")
          /\ dll' = [dll EXCEPT ![way] = "absent"]
          /\ UNCHANGED <<registry, entry, uninstaller>>
       \/ Refused("delete")
       \/ dll[way] # "absent" /\ Fail("delete")

\* The script goes for the two keys once more; it reaches the second one only
\* where somebody has mounted the drive HKCR:.
DeleteKeys ==
    \/ /\ Succeed("keys") /\ reg' \in {reg \ AsioTree, {}}
       /\ UNCHANGED <<dll, path, entry, uninstaller>>
    \/ /\ reg # {} /\ Finish("keys", "error") /\ fault' = TRUE
       /\ reg' \in TreesLeft /\ UNCHANGED <<dll, path, entry, uninstaller, busy>>

-----------------------------------------------------------------------------

Install == CreateDir \/ OpenDll \/ WriteDll \/ CopySelf \/ RunRegsvr32 \/ RegisterItem
           \/ WriteEntry \/ Verify

Uninstall == Unregister \/ RemoveEntry \/ DeleteExe \/ DeletePs1 \/ DeleteKeys

Next ==
    \/ \E o \in {"install", "uninstall"}, w \in Way : Launch(o, w)
    \/ Install
    \/ Uninstall
    \/ Dismiss
    \/ CutOff
    \/ \E w \in Way : HostLoads(w) \/ HostExits(w)

Spec == Init /\ [][Next]_vars

-----------------------------------------------------------------------------
(* Properties                                                              *)

\* Every variable has its type; regsvr32 writes no item beyond the last.
TypeOK ==
    /\ dll \in [Way -> {"absent", "partial", "whole"}]
    /\ reg \in SUBSET ToSet(Items) /\ path \in Way
    /\ entry \in {"absent", "bare", "whole"} /\ uninstaller \in BOOLEAN
    /\ pc \in {"idle", "dir", "dll", "bytes", "copy", "regsvr32", "register", "entry",
               "verify", "unregister", "unentry", "delete", "keys", "done"}
    /\ op \in {"install", "uninstall"} /\ way \in Way /\ next \in 1..Len(Items) + 1
    /\ pc = "register" => next <= Len(Items)
    /\ outcome \in {"none", "success", "error"}
    /\ found \in {"absent", "partial", "whole"}
    /\ fault \in BOOLEAN /\ busy \in BOOLEAN /\ smooth \in BOOLEAN
    /\ inUse \in [Way -> BOOLEAN]

\* "Installation successful" is said only of an installation a host can use:
\* every entry is there, they name this DLL and it is whole, whatever earlier
\* setups left behind and whatever failed now (main.rs 108 to 126).
SuccessIsTrue ==
    pc = "done" /\ op = "install" /\ outcome = "success" =>
        /\ reg = ToSet(Items) /\ path = way /\ dll[way] = "whole"
        /\ way = "exe" => entry # "absent"

\* Installing again is the cure: whatever a failed or interrupted setup, or the
\* other way of installing, left behind, an installation in which no call fails
\* succeeds and can be removed, unless a host holds the DLL (main.rs 92 to 129).
RetryHeals ==
    pc = "done" /\ op = "install" /\ ~fault /\ ~busy =>
        /\ outcome = "success"
        /\ way = "exe" => uninstaller /\ entry = "whole"

\* Removing a whole installation, when no call fails, leaves no registry entry;
\* the DLL goes too unless a host holds it, and then the program alone says
\* that it succeeded (main.rs 167 to 191).
UninstallIsComplete ==
    pc = "done" /\ op = "uninstall" /\ found = "whole" /\ ~fault =>
        /\ reg = {}
        /\ dll[way] = IF busy THEN "whole" ELSE "absent"
        /\ way = "exe" => entry = "absent"
        /\ outcome = "error" => busy /\ way = "ps1"

\* As long as no setup was cut off or met a fault, the entries never name a DLL
\* that is missing, for any mixture of the two ways, nor one that is not whole,
\* with one exception: installing again over an installation empties the DLL
\* that the entries name, and until the copy is written a host that loads the
\* driver finds a part of it (main.rs 98, 187).
NeverDangles ==
    smooth /\ ~fault /\ Listed =>
        \/ dll[path] = "whole"
        \/ pc = "bytes" /\ op = "install" /\ path = way /\ dll[path] = "partial"

=============================================================================
