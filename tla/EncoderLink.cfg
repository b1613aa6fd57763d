SPECIFICATION FairSpec
CONSTANTS
    Sizes = {hd, uhd}
    NoSize = NoSize
    Versions <- MCVersions
    BridgeVersion = 2
    MaxOutputs = 2
    Backoff = 1
    MaxFrames = 4
    EncoderDepth = 1
INVARIANTS
    TypeOK
    NoHalfInit
    ReplyAnswersCall
    Conservation
    InOrder
PROPERTIES
    KeepsPromise
    CallReturns
