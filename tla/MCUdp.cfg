SPECIFICATION Spec
CHECK_DEADLOCK FALSE
CONSTANTS
    s1 = s1
    s2 = s2
    u1 = u1
    u2 = u2
    any = any
    host = host
    peer1 = peer1
    peer2 = peer2
    Socket <- MCSocket
    User <- MCUser
    AddrAny = any
    Addr = {host}
    Unicast = host
    Port = {0, 1}
    BufSize = 2
    Binds <- MCBinds
    Datagram <- MCDatagram
    Calls <- MCCalls
INVARIANTS
    TypeOK
PROPERTIES
    ImplementsService
    CallsReturn
