\* The question the COM runtime asks before it unloads the DLL.
SPECIFICATION Spec
CONSTANTS
    Clients = {c1}
    Objects = {o1, o2}
    Slots = {s1, s2}
INVARIANT UnloadOnlyWhenIdle
CHECK_DEADLOCK FALSE
