SPECIFICATION Spec
CONSTANTS
    Sizes = {hd, uhd}
    NoSize = NoSize
    Versions <- MCVersions
    BridgeVersion = 2
    MaxOutputs = 2
    Backoff = 1
    MaxFrames = 3
    EncoderDepth = 1
INVARIANT
    InputFullKeepsFrameOut
