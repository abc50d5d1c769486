\* Four writers, one of which reads as well, and three qps: two calls wait for
\* the readers, the later one on prior_signal, while two more queue on
\* alloc_signal.  Liveness: no symmetry.  No thread has to start anything, so
\* the lock's users may all stop; a call that is stuck is for SynchronizeReturns.
SPECIFICATION FairSpec
CONSTANTS
    w1 = w1
    w2 = w2
    w3 = w3
    w4 = w4
    Readers = {w1}
    Writers = {w1, w2, w3, w4}
    NumWriters = 3
    MaxSync = 4
    MaxObj = 0
    MaxDepth = 2
INVARIANTS TypeOK UsersExact ReadersHaveFreeQp
PROPERTY SynchronizeReturns
CHECK_DEADLOCK FALSE
