SPECIFICATION FairSpec
CONSTANTS
    r1 = r1
    r2 = r2
    Chan = {r1, r2}
    MaxMsgSize = 2
    SizeMod = 64
    Lens <- MCLens
    Window <- MCWindow
PROPERTIES
    WaitingClientGetsData
