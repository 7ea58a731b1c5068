\* A device that goes away in the middle of a session.
SPECIFICATION FairSpec
CONSTANTS
    BufferFrames = 1
    EndpointFrames = 1
    PacketFrames = {1}
    MaxPackets = 1
    CaptureModes = {"wasapi"}
    RenderModes = {"wasapi", "none"}
    MaxFailures = 2
PROPERTY DeviceLostReported
