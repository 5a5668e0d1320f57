\* One load PC, histories of up to 3 branches (tables 0 and 1 reachable),
\* one-way tables of 2 sets, confidence 0..2.  Accesses of 8 bytes at 0, 4
\* and 8 against 8-byte words: the one at 4 straddles two words, so the
\* dependence check compares both ends of both intervals.
CONSTANTS
    SetBits = 1
    TagBits = 1
    Assoc = 1
    MaxCounter = 2
    LruBits = 8
    MaxTouches = 4
    HistorySizes <- MCHistorySizes
    SelectedTargetBits = 5
    DepCheckShift = 3
    AddrBits = 8
    PCs = {1}
    LoadSeq = 7
    StoreSeqs = {2, 4}
    Distances = {1}
    LoadAddrs = {0, 4, 8}
    AccessSize = 8
    MaxHist = 3
    BranchSeqs = {1, 3, 5}
    Histories <- MCHistories
SPECIFICATION Spec
INVARIANTS TypeOK FoldMatchesReference MispredictionMatchesOverlap
PROPERTY ViolationTrainsPath
