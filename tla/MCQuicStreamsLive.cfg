SPECIFICATION FairSpec
CONSTANTS
    client = client
    server = server
    s1 = s1
    s2 = s2
    End = {client, server}
    Stream = {s1}
    MaxSize = 2
    Writers = {client}
    StreamWnd = 8
    StreamMaxWnd = 8
    ConnWnd = 1
    ConnMaxWnd = 1
    Slot = {p1}
    Resetters = {}
    Freers = {}
    ZeroConcluders = {}
PROPERTIES
    ConcludedIsRead
CHECK_DEADLOCK FALSE
