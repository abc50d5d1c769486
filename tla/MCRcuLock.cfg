\* Three qps: two calls wait at the same time and retire in order, against a
\* reader that nests read sections.
SPECIFICATION Spec
CONSTANTS
    r1 = r1
    w1 = w1
    w2 = w2
    Readers = {r1}
    Writers = {w1, w2}
    NumWriters = 3
    MaxSync = 3
    MaxObj = 2
    MaxDepth = 2
SYMMETRY Symmetry
INVARIANTS IInv NoUseAfterFree CallbacksRunOnce
PROPERTY GracePeriod
