SPECIFICATION Spec
CONSTANTS
    test_dev = test_dev
    fake_dev = fake_dev
    loopback_dev = loopback_dev
    test_bus = test_bus
    loopback_bus = loopback_bus
    NoDev = NoDev
    NoBuf = NoBuf
    MaxBatch = 3
    Dev <- MCDev
    Bus <- MCBus
    BusOf <- MCBusOf
    num_devs <- MCnum_devs
    loopback <- MCloopback
    Contents <- MCContents
    digest <- MCdigest
    Batches <- MCBatches
INVARIANTS
    TypeOK
    DriverAssertionsHold
    BusFreeBetweenBatches
    NoLeak
    AllOrNothing
    ReceivedInOrder
