\* Renegotiations of TLS 1.2 in which any call may read the records of a handshake.
CONSTANT
    Options <- AnyCall
SPECIFICATION Spec
INVARIANT NeverUnexpected
CHECK_DEADLOCK FALSE
