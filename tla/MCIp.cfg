SPECIFICATION Spec
CONSTANTS
    ether = ether
    loop = loop
    AddrBits = 3
    Device <- MCDevice
    Mtu <- MCMtu
    NeedARP = {ether}
    Forgetful = {loop}
    IfaceArg <- MCIfaceArg
    Gateway = {4}
    ProtoType = {1, 17}
    UdpArg <- MCUdpArg
    Port <- MCPort
    PeerArg <- MCPeerArg
    Changes <- MCChanges
    MaxRoutes = 3
    MaxId = 1
INVARIANTS
    TypeOK
    RoundTrip
    SumIsOnesComplement
    DamageIsSeen
    HandledOnce
