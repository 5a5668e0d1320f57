CONSTANTS
    T0 = T0
    T1 = T1
    Threads <- OneThread
    MaxSeq = 3
    MemKinds = {"Load", "Store", "Atomic"}
    BarrierKinds = {"ReadBar", "WriteBar", "Htm"}
    MaxResched = 1
SPECIFICATION Spec
INVARIANT TypeOK
INVARIANT ListMatchesHash
INVARIANT BarrierSetsExact
INVARIANT DepCountExact
INVARIANT CallbacksFindEntry
INVARIANT BarrierOrder
INVARIANT NoDoubleForward
PROPERTY ForwardOnlyWhenResolved
