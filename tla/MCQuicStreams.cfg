SPECIFICATION Spec
CONSTANTS
    client = client
    server = server
    s1 = s1
    s2 = s2
    End = {client, server}
    Stream = {s1}
    MaxSize = 2
    Writers = {client}
    StreamWnd = 1
    StreamMaxWnd = 1
    ConnWnd = 1
    ConnMaxWnd = 1
    Slot = {p1, p2}
    Resetters = {}
    Freers = {server}
    ZeroConcluders = {}
INVARIANTS
    TypeOK
    NoProtocolError
    BytesAccountedFor
    DeliveredMeansReceived
    ConnCreditNotForgotten
    NothingStranded
    FinalSizeAgreed
    DeletedIsFinished
SYMMETRY Symmetry
CHECK_DEADLOCK FALSE
