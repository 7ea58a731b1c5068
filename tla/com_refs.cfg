\* Two clients, a factory and two drivers or two factories and a driver.  The
\* system stops when the DLL is unloaded or every address is used up.
SPECIFICATION Spec
CONSTANTS
    Clients = {c1, c2}
    Objects = {o1, o2, o3}
    Slots = {s1, s2}
SYMMETRY Interchangeable
INVARIANT TypeOK
INVARIANT HeldIsAlive
INVARIANT NothingLeaks
INVARIANT LockedStaysLoaded
CHECK_DEADLOCK FALSE
