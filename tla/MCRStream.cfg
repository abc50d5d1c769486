\* Four bytes in every order and overlap.  No ring buffer, as the library itself
\* has it, and ring buffers that are too small, wrap around and are resized.  The reader
\* asks for no record that the wrap-around cuts from the last frame.
SPECIFICATION Spec
CONSTANTS
    Size = 4
    RbufSizes = {0, 2, 3}
    Junk = Junk
    CutsLast = FALSE
INVARIANTS ListOrdered AssertionsHold
PROPERTY ImplementsRecvBuffer
