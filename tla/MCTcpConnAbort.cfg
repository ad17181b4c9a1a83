SPECIFICATION ConnSpec
CONSTANTS
    client = client
    server = server
    any = any
    c1 = c1
    c2 = c2
    c3 = c3
    c4 = c4
    NoCall = NoCall
    Client = client
    Server = server
    MaxLoss = 0
    Uses <- MCAbort
    Host <- MCHost
    Endpoint <- MCEndpoint
    AnyEndpoint = any
    Call <- MCTwoCalls
    Byte = {0, 1, 2}
    SeqMod = 16
    BufferSize = 2
    ISS = {1}
    SendData <- MCOneText
    RecvSize = {2}
    TxResult = {TRUE, FALSE}
    Arriving = {}
INVARIANTS
    StreamAgrees
    AckedIsDelivered
    TextIsIdeal
    EndsAgree
    CloseIsHeard
