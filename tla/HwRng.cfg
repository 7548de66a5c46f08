SPECIFICATION FairSpec
CONSTANTS
    r1 = r1
    r2 = r2
    Chan = {r1, r2}
    MaxMsgSize = 2
    SizeMod = 4
    Lens <- MCLens
    Window <- MCWindow
INVARIANTS
    ReqListConsistent
    BytesConserved
    NoLostWakeup
    OnlyBlockedRequestsWait
PROPERTIES
    ModestClientGetsData
