\* Every capture and render path, a render client with room for a block and a
\* half, packets shorter and longer than a block.  A thread may wait for ever
\* for a device that is stuck, so that the system can stop.
SPECIFICATION FairSpec
CONSTANTS
    BufferFrames = 2
    EndpointFrames = 3
    PacketFrames = {1, 3}
    MaxPackets = 1
    CaptureModes = {"wasapi", "ks", "none"}
    RenderModes = {"wasapi", "ks", "none"}
    MaxFailures = 2
INVARIANT TypeOK
INVARIANT KsWholeBlock
PROPERTY PingPongSpec
PROPERTY CallbacksKeepComing
PROPERTY StopEnds
CHECK_DEADLOCK FALSE
