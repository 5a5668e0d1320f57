\* Two tagged tables (history lengths 2 and 3), one indirect branch at
\* 513 = 2^9 + 1 (two non-zero getAddrFold slices) and one direct one,
\* two targets and four branches in all.  The program may end: once MaxSeq branches have
\* been predicted and committed nothing is left to do.
CONSTANTS
    NumPredictors = 2
    TableSizes <- MCTableSizes
    HistLengths <- MCHistLengths
    TTagBitSizes <- MCTagBits
    TTagPcShifts <- MCPcShifts
    SimpleBTBSize = 2
    PathLength = 1
    PCs = {513, 2}
    IndirectPCs = {513}
    Targets = {4, 6}
    NoTarget = NoTarget
    NoInfo = NoInfo
    MaxSeq = 4
SPECIFICATION BPUSpec
INVARIANTS BPUTypeOK FoldsMatchReference GhrChain BranchInfoOwned LibraryTracksBranches
PROPERTY PathHistStaysNonEmpty
CHECK_DEADLOCK FALSE
