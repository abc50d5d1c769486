SPECIFICATION Spec
CONSTANTS
    client = client
    server = server
    s1 = s1
    s2 = s2
    End = {client, server}
    Stream = {s1, s2}
    MaxSize = 1
    Writers = {client}
    StreamWnd = 8
    StreamMaxWnd = 8
    ConnWnd = 1
    ConnMaxWnd = 2
    Slot = {p1}
    Resetters = {client}
    Freers = {}
    ZeroConcluders = {client}
INVARIANTS
    NoProtocolError
    ConnAccounting
    BufferBounded
SYMMETRY Symmetry
CHECK_DEADLOCK FALSE
