SPECIFICATION ConnSpec
CONSTANTS
    client = client
    server = server
    any = any
    c1 = c1
    c2 = c2
    c3 = c3
    c4 = c4
    NoCall = NoCall
    Client = client
    Server = server
    MaxLoss = 0
    Uses <- MCClose
    Host <- MCHost
    Endpoint <- MCEndpoint
    AnyEndpoint = any
    Call <- MCCall
    Byte = {0, 1, 2}
    SeqMod = 16
    BufferSize = 2
    ISS = {1}
    SendData <- MCSendData
    RecvSize = {2}
    TxResult = {TRUE}
    Arriving = {}
INVARIANTS
    EstablishedTakesText
