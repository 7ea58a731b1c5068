SPECIFICATION Spec
CONSTANTS
    h1 = h1
    h2 = h2
    s1 = s1
    s2 = s2
    b1 = b1
    b2 = b2
    Control = {h1, h2}
    Stream = {s1, s2}
    Buf = {b1, b2}
    Sizes = {2}
    MinSize = 2
    MaxSize = 4
    PreferredSize = 2
    Rates = {48}
    DefaultRate = 48
    ControlCalls = {"init", "start", "stop", "createBuffers", "disposeBuffers", "release"}
    CallbackCalls = {"outputReady"}
    Strict = FALSE
    Nil = Nil
SYMMETRY Interchangeable
CHECK_DEADLOCK FALSE
INVARIANT StreamOwned
INVARIANT InstalledRuns
INVARIANT FreedIsQuiet
