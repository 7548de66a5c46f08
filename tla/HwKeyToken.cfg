SPECIFICATION FairSpec
CONSTANTS
    s1 = s1
    s2 = s2
    Slot = {s1, s2}
    HandleSize = 3
    MaxPayload = 4
    ByteMod = 3
    Payloads <- SmallPayloads
    RngRequests <- OneByte
INVARIANTS
    TokensAreStrings
    HandlesFoundByText
PROPERTIES
    HandleRequestsEnd
