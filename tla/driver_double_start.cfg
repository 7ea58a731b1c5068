SPECIFICATION FairSpec
CONSTANTS
    h1 = h1
    s1 = s1
    s2 = s2
    b1 = b1
    b2 = b2
    Control = {h1}
    Stream = {s1, s2}
    Buf = {b1, b2}
    Sizes = {2}
    MinSize = 2
    MaxSize = 4
    PreferredSize = 2
    Rates = {48}
    DefaultRate = 48
    ControlCalls = {"init", "start", "stop", "createBuffers"}
    CallbackCalls = {"outputReady"}
    Strict = FALSE
    Nil = Nil
CHECK_DEADLOCK FALSE
PROPERTY StartReturns
