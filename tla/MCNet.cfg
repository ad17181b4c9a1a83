SPECIFICATION Spec
CHECK_DEADLOCK FALSE
CONSTANTS
    Cap = 1
    UdpCap = 1
    MaxFrames = 3
INVARIANTS
    TypeOK
    NothingLost
    RepeatedAtMost
    OneAfterShutdown
PROPERTIES
    DeviceGoesOn
    ShutdownStops
