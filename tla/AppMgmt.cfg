SPECIFICATION Spec
CONSTANTS
    MaxQueue = 2
    MaxFaults = 1
INVARIANTS TestsPass
PROPERTIES TestsEnd ConnectionsServed
