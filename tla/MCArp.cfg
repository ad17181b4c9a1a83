SPECIFICATION Spec
CONSTANTS
    any = any
    me = me
    p1 = p1
    p2 = p2
    zero = zero
    e1 = e1
    e2 = e2
    CacheSize = 3
    Timeout = 1
    MaxTime = 3
    Addr <- MCAddr
    AnyAddr = any
    Unicast = me
    EtherAddr <- MCEther
    AnyEther = zero
    Wanted = {p1}
    Packet <- MCPacket
INVARIANTS
    TypeOK
    AtMostTwo
    ResolvedIsHeard
