CONSTANTS
    T0 = T0
    T1 = T1
    Threads <- TwoThreads
    MaxSeq = 2
    MemKinds = {"Load"}
    BarrierKinds = {"ReadBar"}
    MaxResched = 0
SPECIFICATION Spec
INVARIANT DepCountExact
