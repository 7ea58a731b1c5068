SPECIFICATION FairSpec
CONSTANTS
    h1 = h1
    s1 = s1
    s2 = s2
    b1 = b1
    b2 = b2
    Control = {h1}
    Stream = {s1, s2}
    Buf = {b1, b2}
    Sizes <- AskedSizes
    MinSize = 2
    MaxSize = 4
    PreferredSize = 2
    Rates = {44, 48}
    DefaultRate = 48
    ControlCalls = {"init", "start", "stop", "createBuffers", "disposeBuffers", "setSampleRate", "query", "controlPanel", "outputReady", "release"}
    CallbackCalls = {"outputReady", "query"}
    Strict = TRUE
    Nil = Nil
INVARIANT TypeOK
INVARIANT QuietWhenStopped
INVARIANT HalfExclusive
INVARIANT SameBuffers
INVARIANT SettingsInForce
PROPERTY JoinReturns
