SPECIFICATION Spec
CONSTANTS
    h1 = h1
    peer = peer
    any = any
    c1 = c1
    c2 = c2
    c3 = c3
    c4 = c4
    NoCall = NoCall
    Host <- MCHost
    Endpoint <- MCEndpoint
    AnyEndpoint = any
    Call <- MCCall
    Byte = {0, 1}
    SeqMod = 8
    BufferSize = 2
    ISS = {1, 7}
    SendData <- MCSendData
    RecvSize = {1, 2}
    TxResult = {TRUE, FALSE}
    Arriving <- MCArriving
SYMMETRY Perms
VIEW PcbView
INVARIANTS
    TypeOK
    NoLostCall
    OneAnswer
    HeldOnce
PROPERTIES
    ImplementsService
