SPECIFICATION Spec
CONSTANTS
    Lines = 2
    CaptureLists <- MCCaptureLists
    RenderLists <- MCRenderLists
    Formats <- MCFormats
    BlockSizes = {1, 3}
    Samples <- MCSamples
CHECK_DEADLOCK FALSE
INVARIANT TypeOK
INVARIANT CaptureIsIrig
INVARIANT RenderIsChosen
INVARIANT DecodedExactly
INVARIANT KsWidthRight
INVARIANT EchoIsClose
