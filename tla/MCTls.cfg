CONSTANT
    Options <- AllOptions
SPECIFICATION Spec
INVARIANTS
    TypeOK
    KeysInStep
    NeverUnexpected
    TranscriptsAgree
    SidesAgree
    DataAccountedFor
PROPERTY HandshakesComplete
CHECK_DEADLOCK FALSE
