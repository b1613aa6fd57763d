SPECIFICATION Spec
CONSTANTS
    Threads = {t1}
    NoThread = NoThread
    Links = {l1, l2}
    NoLink = NoLink
    Inputs <- MCInputs
    MaxEvents = 2
    MaxCalls = 2
INVARIANT
    IdleIsHarmless
