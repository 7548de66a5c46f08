SPECIFICATION MemSpec
CONSTANTS
    PageSize = 3
    MaxWrite = 1
    HeaderSize = 1
    SizeMod = 4
    FreeBytes = {0, 1}
    MaxFaults = 1
INVARIANTS
    MemrefTestsPass
    RegionsInPage
PROPERTIES
    ClientNeverStuck
