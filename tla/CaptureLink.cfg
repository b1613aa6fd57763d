SPECIFICATION FairSpec
CONSTANTS
    Threads = {t1, t2}
    NoThread = NoThread
    Sessions = {s1, s2}
    NoSession = NoSession
    Main = Main
    Sizes = {hd, uhd}
    NoSize = NoSize
    FirstSize = hd
    Tokens = {secret}
    NoToken = NoToken
    HookToken = secret
    MaxVersion = 2
INVARIANTS
    TypeOK
    FrameWhole
    FrameFresh
    LastFrameServed
    ConnectionClean
PROPERTIES
    LockIsLeft
