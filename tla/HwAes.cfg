SPECIFICATION AesFairSpec
CONSTANTS
    c1 = c1
    c2 = c2
    t1 = t1
    Chan = {c1, c2}
    Token = {t1}
    EmptyToken = EmptyToken
    NoUuid = NoUuid
    HwAesUuid = "hwaes"
    NoChan = NoChan
    Uuid <- MCUuid
    AllowedClients <- MCAllowed
    KeySlots <- MCKeySlots
    KeyLen <- MCKeyLen
    Requests <- MCRequests
    Operations <- HandleOps
INVARIANTS
    SessionsReleased
    KeyIsTheHandles
    RefusalsAreDue
PROPERTIES
    OperationsEnd
    HungUpHandlesReclaimed
    RequestsAnswered
