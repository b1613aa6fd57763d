SPECIFICATION FairSpec
CONSTANTS
    Threads = {t1, t2}
    NoThread = NoThread
    Decoders = {d1, d2}
    NoDecoder = NoDecoder
    Backoff = 1
    CacheTime = 2
    MaxTime = 4
    d1 = d1
    d2 = d2
    MaxPackets <- MCMaxPackets
INVARIANTS
    TypeOK
    ReplyAnswersPacket
    DrawnInOrder
    SilenceBounded
PROPERTIES
    EndFrameReturns
