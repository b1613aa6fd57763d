SPECIFICATION FairSpec
CONSTANTS
    Clients = {c1, c2, c3}
    NoClient = NoClient
    MaxClients = 2
INVARIANTS
    TypeOK
    SessionLimit
    NothingLeaks
PROPERTIES
    TurnedAwayOnlyAtLimit
    SlotReclaimed
