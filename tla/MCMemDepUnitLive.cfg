CONSTANTS
    T0 = T0
    T1 = T1
    Threads <- OneThread
    MaxSeq = 3
    MemKinds = {"Load", "Store"}
    BarrierKinds = {"ReadBar", "WriteBar"}
    MaxResched = 1
SPECIFICATION Spec
PROPERTIES EveryInstLeaves EventuallyDrained
