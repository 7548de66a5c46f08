SPECIFICATION MainSpec
CONSTANTS
    k1 = k1
    Chan = {k1}
    KeyboxMaxSize = 3
    HeaderSize = 8
    LenMod = 65536
    Messages <- HangUpMessages
INVARIANTS
    ContextFreedOnce
CHECK_DEADLOCK FALSE
