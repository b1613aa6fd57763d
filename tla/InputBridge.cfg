SPECIFICATION Spec
CONSTANTS
    mouse = mouse
    pad = pad
    keys = keys
    Devices = {mouse, pad, keys}
    NoDevice = NoDevice
    Offers <- MCOffers
    Chunks <- MCChunks
    MaxPending = 3
INVARIANTS
    TypeOK
    SlotsLive
    AcceptedInjected
