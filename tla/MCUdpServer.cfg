SPECIFICATION ServerSpec
CHECK_DEADLOCK FALSE
CONSTANTS
    s1 = s1
    u1 = u1
    any = any
    host = host
    peer1 = peer1
    soc = s1
    main = u1
    srcAddr <- MCSrc
    Socket = {s1}
    User = {u1}
    AddrAny = any
    Addr = {host}
    Unicast = host
    Port = {0, 1}
    BufSize = 2
    Binds = {}
    Datagram <- MCDatagram
    Calls <- MCCalls
PROPERTIES
    RunsIn30s
