SPECIFICATION Spec
CONSTANTS
    c1 = c1
    c2 = c2
    t1 = t1
    t2 = t2
    Chan = {c1, c2}
    Token = {t1, t2}
    EmptyToken = EmptyToken
    NoUuid = NoUuid
    Uuid <- SafetyUuid
    AllowedClients <- SafetyAllowed
    KeySlots <- SafetyKeySlots
    Requests <- SafetyRequests
INVARIANTS
    TypeOK
    OnlyClientsServed
    HandlesHaveLiveOwners
    HandleListWellFormed
    TokensInFlightAreLive
    KeysOnlyToAuthorised
    NoLostRequest
PROPERTIES
    HandleEndsWithItsSession
    ImplementsOpaqueHandles
